------------------------- MODULE ConversationProofs -------------------------
(***************************************************************************)
(* Who talks to whom: the records of the agents, the lists of the          *)
(* conversations and the timers of the activities agree, for every value   *)
(* of the constants.                                                       *)
(***************************************************************************)
EXTENDS ConversationEngine, FiniteSetTheorems, WellFoundedInduction, TLAPS

(***************************************************************************)
(* The inductive invariant, on a world.                                    *)
(***************************************************************************)
\* No one moves here, and an offer between members leaves their states alone.
AgentRecord ==
  [ state : {"logged_out", "idle", "in_action", "in_conversation"},
    pending_conversation_id : Conversations \cup {None},
    current_conversation_id : Conversations \cup {None},
    active_transfer_id : Transfers \cup {None},
    pending_transfer_id : Transfers \cup {None},
    announced : BOOLEAN, pending_announcements : SUBSET Announcements,
    last_action_id : Actions \cup {None}, excluded : SUBSET InfoCommands ]

\* A record of a conversation; only the fields that say who is in it are typed.
IsConversation(v) ==
  /\ v = [ status |-> v.status, initiator |-> v.initiator,
           participants |-> v.participants, joiners |-> v.joiners,
           current_turn |-> v.current_turn, current_speaker |-> v.current_speaker,
           last_spoken_turns |-> v.last_spoken_turns, inactive |-> v.inactive,
           resume_speaker |-> v.resume_speaker, closing_reason |-> v.closing_reason ]
  /\ v.status \in {"absent", "pending", "active", "closing"}
  /\ v.participants \in Seq(Agents) /\ v.joiners \in Seq(Agents)

\* The record of an offer, if it is one: its agents are agents.
IsOffer(o) ==
  o.status # "absent" =>
    /\ o = [ status |-> o.status, from_agent_id |-> o.from_agent_id,
             to_agent_id |-> o.to_agent_id, escrow |-> o.escrow,
             conversation_id |-> o.conversation_id ]
    /\ o.from_agent_id \in Agents /\ o.to_agent_id \in Agents

WT(a) == Timer("wait", {a}, None)
IR(a) == Timer("idle_reminder", {a}, None)

\* Of the timers an agent is filed under alone there is one of a kind at most.
OwnTimers(T) ==
  \A x \in T :
    /\ x.type \notin {"action", "item_use"}
    /\ x.type = "wait" => \E a \in Agents : x = WT(a)
    /\ x.type = "idle_reminder" => \E a \in Agents : x = IR(a)

Shape(w) ==
  /\ w = [ agents |-> w.agents, purses |-> w.purses, transfers |-> w.transfers,
           announcements |-> w.announcements, timers |-> w.timers,
           registrations |-> w.registrations, conversations |-> w.conversations ]
  /\ w.agents \in [Agents -> AgentRecord]
  /\ w.transfers = [t \in Transfers |-> w.transfers[t]]
  /\ \A t \in Transfers : IsOffer(w.transfers[t])
  /\ w.conversations = [c \in Conversations |-> w.conversations[c]]
  /\ \A c \in Conversations : IsConversation(w.conversations[c])
  /\ OwnTimers(w.timers)

IsRunning(w, c) == w.conversations[c].status \in {"active", "closing"}

Everyone(v) == ToSet(v.participants) \cup ToSet(v.joiners)

Distinct(seq) == \A i, j \in DOMAIN seq : seq[i] = seq[j] => i = j

\* What an agent does, by its record and by its timers.
InState(w, a) ==
  LET g == w.agents[a]
  IN  /\ g.state = "in_conversation" <=> g.current_conversation_id # None
      /\ g.pending_conversation_id # None => g.state \in {"idle", "in_action"}
      /\ g.state = "in_action" <=> WT(a) \in w.timers
      /\ IR(a) \in w.timers => g.state = "idle"

\* An invitation is of two agents, marked at both, and its initiator waits.
Invites(w, c) ==
  LET v == w.conversations[c]
  IN  \E i, t \in Agents :
        /\ v.initiator = i /\ v.participants = <<i, t>> /\ v.joiners = <<>>
        /\ w.agents[i].pending_conversation_id = c
        /\ w.agents[t].pending_conversation_id = c
        /\ w.agents[i].state = "idle"

\* Nobody is on the lists of a conversation twice, or of two conversations.
Lists(w, c) ==
  LET v == w.conversations[c]
  IN  /\ Distinct(v.participants) /\ Distinct(v.joiners)
      /\ ToSet(v.participants) \cap ToSet(v.joiners) = {}
      /\ Len(v.participants) + Len(v.joiners) <= MaxParticipants
      /\ \A a \in Everyone(v) : w.agents[a].current_conversation_id = c

\* The conversation an agent's record names runs, and has the agent.
Placed(w, a) ==
  LET c == w.agents[a].current_conversation_id
  IN  c # None => IsRunning(w, c) /\ a \in Everyone(w.conversations[c])

\* So does the invitation, as long as nothing is announced.
Marked(w, a) ==
  LET c == w.agents[a].pending_conversation_id
  IN  c # None => /\ w.conversations[c].status = "pending"
                  /\ a \in Members(w.conversations[c])

TalkTypes == {"conversation_turn", "conversation_interval"}

\* No turn or interval of c is timed.
Untimed(w, c) ==
  \A x \in w.timers : x.type \in TalkTypes => x.about.conversation # c

\* All is in order but for the agents leaving, which are out of the lists.
Sound(w, leaving) ==
  /\ Shape(w)
  /\ \A a \in Agents : InState(w, a)
  /\ Announcements = {} => \A a \in Agents : w.agents[a].announced = FALSE
  /\ \A c \in Conversations :
       /\ w.conversations[c].status = "pending" => Invites(w, c)
       /\ IsRunning(w, c) => Lists(w, c)
       /\ IsRunning(w, c) \/ Untimed(w, c)
  /\ \A a \in Agents \ leaving :
       Placed(w, a) /\ (Announcements = {} => Marked(w, a))

IInv == Sound(world, {})

(***************************************************************************)
(* Sequences and loops.                                                    *)
(***************************************************************************)

\* The least of some natural numbers, on which an induction rests.
LEMMA LeastOf ==
  ASSUME NEW S \in SUBSET Nat, NEW n \in S
  PROVE  \E m \in S : \A k \in S : m <= k
<1> DEFINE R == {p \in Nat \X Nat : p[1] < p[2]}
<1>1. R = OpToRel(<, Nat)
  BY Zenon DEF OpToRel
<1>2. IsWellFoundedOn(R, Nat)
  BY <1>1, NatLessThanWellFounded, Zenon
<1> HIDE DEF R
<1>3. \E m \in S : \A k \in S : ~(<<k, m>> \in R)
  BY <1>2, WFMin, Zenon
<1>4. PICK m \in S : \A k \in S : ~(<<k, m>> \in R)
  BY <1>3
<1>5. ASSUME NEW k \in S PROVE m <= k
  <2>1. k \in Nat /\ m \in Nat /\ ~(<<k, m>> \in R)
    BY <1>4
  <2>2. k < m => <<k, m>> \in R
    BY <2>1 DEF R
  <2> QED
    BY <2>1, <2>2
<1> QED
  BY <1>5

\* f[m] is what is kept of the first m elements.
KeepsUpTo(f, seq, S, n) ==
  f = [m \in 0 .. n |->
         IF m = 0 THEN <<>>
         ELSE IF seq[m] \in S THEN Append(f[m - 1], seq[m]) ELSE f[m - 1]]

\* Kept is what its loop arrives at: the recursive function it chooses exists.
LEMMA KeptDefined ==
  ASSUME NEW seq, NEW S, Len(seq) \in Nat
  PROVE  \E f : KeepsUpTo(f, seq, S, Len(seq)) /\ Kept(seq, S) = f[Len(seq)]
<1> DEFINE bad == {n \in 0 .. Len(seq) : ~ \E f : KeepsUpTo(f, seq, S, n)}
<1>1. bad = {}
  <2> SUFFICES ASSUME bad # {} PROVE FALSE
    OBVIOUS
  <2>1. PICK n \in bad : \A k \in bad : n <= k
    <3>1. bad \in SUBSET Nat
      OBVIOUS
    <3> HIDE DEF bad
    <3> QED
      BY <3>1, LeastOf
  <2>2. n \in Nat /\ n <= Len(seq) /\ ~ \E f : KeepsUpTo(f, seq, S, n)
    OBVIOUS
  <2>3. CASE n = 0
    <3>1. KeepsUpTo([m \in 0 .. 0 |-> <<>>], seq, S, 0)
      BY DEF KeepsUpTo
    <3> QED
      BY <2>2, <2>3, <3>1
  <2>4. CASE n # 0
    <3>1. n - 1 \in 0 .. Len(seq) /\ n - 1 \notin bad
      BY <2>1, <2>2, <2>4
    <3>2. PICK f : KeepsUpTo(f, seq, S, n - 1)
      BY <3>1
    <3> DEFINE last == IF seq[n] \in S THEN Append(f[n - 1], seq[n]) ELSE f[n - 1]
               g == [m \in 0 .. n |-> IF m = n THEN last ELSE f[m]]
    <3>3. \A m \in 0 .. n - 1 : g[m] = f[m] /\ f[m] = IF m = 0 THEN <<>>
                ELSE IF seq[m] \in S THEN Append(f[m - 1], seq[m]) ELSE f[m - 1]
      <4> TAKE m \in 0 .. n - 1
      <4>1. m \in 0 .. n /\ m # n
        BY <2>2
      <4>2. g[m] = f[m]
        BY <4>1
      <4>3. f[m] = IF m = 0 THEN <<>>
                ELSE IF seq[m] \in S THEN Append(f[m - 1], seq[m]) ELSE f[m - 1]
        BY <3>2, Zenon DEF KeepsUpTo
      <4> QED
        BY <4>2, <4>3
    <3>4. \A m \in 0 .. n : g[m] = IF m = 0 THEN <<>>
                ELSE IF seq[m] \in S THEN Append(g[m - 1], seq[m]) ELSE g[m - 1]
      <4> TAKE m \in 0 .. n
      <4>1. CASE m = n
        <5>1. g[n] = last /\ n - 1 \in 0 .. n - 1
          BY <2>2, <2>4
        <5>2. g[n - 1] = f[n - 1]
          BY <3>3, <5>1
        <5> QED
          BY <2>4, <4>1, <5>1, <5>2
      <4>2. CASE m # n
        <5>1. m \in 0 .. n - 1 /\ (m # 0 => m - 1 \in 0 .. n - 1)
          BY <2>2, <4>2
        <5>2. m # 0 => g[m - 1] = f[m - 1]
          BY <3>3, <5>1
        <5> HIDE DEF g
        <5> QED
          BY <3>3, <5>1, <5>2
      <4> QED
        BY <4>1, <4>2
    <3>5. KeepsUpTo(g, seq, S, n)
      <4> DEFINE h == [m \in 0 .. n |-> IF m = 0 THEN <<>>
                ELSE IF seq[m] \in S THEN Append(g[m - 1], seq[m]) ELSE g[m - 1]]
      <4>1. g = h
        BY <3>4
      <4> QED
        BY <4>1 DEF KeepsUpTo
    <3> QED
      BY <2>2, <3>5
  <2> QED
    BY <2>3, <2>4
<1>2. \E f : KeepsUpTo(f, seq, S, Len(seq))
  BY <1>1
<1> DEFINE F == CHOOSE f : KeepsUpTo(f, seq, S, Len(seq))
<1>3. KeepsUpTo(F, seq, S, Len(seq))
  BY <1>2, Zenon
<1>4. Kept(seq, S) = F[Len(seq)]
  BY Zenon DEF Kept, KeepsUpTo
<1> QED
  BY <1>3, <1>4

\* A sequence with one more element.
LEMMA AppendFacts ==
  ASSUME NEW s \in Seq(Agents), NEW e \in Agents
  PROVE  /\ Append(s, e) \in Seq(Agents) /\ Len(Append(s, e)) = Len(s) + 1
         /\ ToSet(Append(s, e)) = ToSet(s) \cup {e}
         /\ Distinct(s) /\ e \notin ToSet(s) => Distinct(Append(s, e))
<1> DEFINE q == Append(s, e)
<1>1. /\ q \in Seq(Agents) /\ Len(q) = Len(s) + 1 /\ Len(s) \in Nat
      /\ DOMAIN q = 1 .. Len(s) + 1 /\ DOMAIN s = 1 .. Len(s)
      /\ \A i \in 1 .. Len(s) : q[i] = s[i]
      /\ q[Len(s) + 1] = e
  OBVIOUS
<1> HIDE DEF q
<1>2. ToSet(q) = ToSet(s) \cup {e}
  <2>1. \A x : x \in ToSet(q) => x \in ToSet(s) \cup {e}
    BY <1>1 DEF ToSet
  <2>2. \A x \in ToSet(s) : x \in ToSet(q)
    BY <1>1 DEF ToSet
  <2>3. e \in ToSet(q)
    BY <1>1 DEF ToSet
  <2> QED
    BY <2>1, <2>2, <2>3
<1>3. ASSUME Distinct(s), e \notin ToSet(s)
      PROVE  Distinct(q)
  BY <1>1, <1>3 DEF Distinct, ToSet
<1> QED
  BY <1>1, <1>2, <1>3 DEF q

\* Two sequences, one after the other.
LEMMA ConcatFacts ==
  ASSUME NEW s \in Seq(Agents), NEW t \in Seq(Agents)
  PROVE  /\ s \o t \in Seq(Agents) /\ Len(s \o t) = Len(s) + Len(t)
         /\ ToSet(s \o t) = ToSet(s) \cup ToSet(t)
         /\ Distinct(s) /\ Distinct(t) /\ ToSet(s) \cap ToSet(t) = {} => Distinct(s \o t)
<1> DEFINE q == s \o t
<1>1. /\ q \in Seq(Agents) /\ Len(q) = Len(s) + Len(t) /\ Len(s) \in Nat /\ Len(t) \in Nat
      /\ DOMAIN q = 1 .. Len(s) + Len(t) /\ DOMAIN s = 1 .. Len(s) /\ DOMAIN t = 1 .. Len(t)
      /\ \A i \in 1 .. Len(s) : q[i] = s[i]
      /\ \A i \in Len(s) + 1 .. Len(s) + Len(t) : q[i] = t[i - Len(s)]
  OBVIOUS
<1> HIDE DEF q
<1>a. \A i \in 1 .. Len(t) : q[i + Len(s)] = t[i]
  <2> TAKE i \in 1 .. Len(t)
  <2>1. i + Len(s) \in Len(s) + 1 .. Len(s) + Len(t) /\ (i + Len(s)) - Len(s) = i
    BY <1>1
  <2> QED
    BY <1>1, <2>1
<1>b. \A i \in DOMAIN q : \/ i \in DOMAIN s /\ q[i] = s[i]
                          \/ i - Len(s) \in DOMAIN t /\ q[i] = t[i - Len(s)]
  BY <1>1
<1>2. ToSet(q) = ToSet(s) \cup ToSet(t)
  <2>1. \A x : x \in ToSet(q) => x \in ToSet(s) \cup ToSet(t)
    BY <1>b DEF ToSet
  <2>2. \A x \in ToSet(s) : x \in ToSet(q)
    BY <1>1 DEF ToSet
  <2>3. ASSUME NEW x \in ToSet(t) PROVE x \in ToSet(q)
    <3>1. PICK i \in 1 .. Len(t) : x = t[i]
      BY <1>1 DEF ToSet
    <3>2. i + Len(s) \in DOMAIN q /\ q[i + Len(s)] = x
      BY <1>1, <1>a, <3>1
    <3> QED
      BY <3>2 DEF ToSet
  <2> QED
    BY <2>1, <2>2, <2>3
<1>3. ASSUME Distinct(s), Distinct(t), ToSet(s) \cap ToSet(t) = {}
      PROVE  Distinct(q)
  <2>1. \A i \in DOMAIN s, j \in DOMAIN t : s[i] # t[j]
    BY <1>3 DEF ToSet
  <2>2. ASSUME NEW i \in DOMAIN q, NEW j \in DOMAIN q, q[i] = q[j]
        PROVE  i = j
    <3>0. i \in Nat /\ j \in Nat
      BY <1>1
    <3>1. CASE i \in DOMAIN s /\ q[i] = s[i] /\ j \in DOMAIN s /\ q[j] = s[j]
      BY <1>3, <2>2, <3>1 DEF Distinct
    <3>2. CASE i \in DOMAIN s /\ q[i] = s[i] /\ j - Len(s) \in DOMAIN t /\ q[j] = t[j - Len(s)]
      BY <2>1, <2>2, <3>2
    <3>3. CASE j \in DOMAIN s /\ q[j] = s[j] /\ i - Len(s) \in DOMAIN t /\ q[i] = t[i - Len(s)]
      BY <2>1, <2>2, <3>3
    <3>4. CASE /\ i - Len(s) \in DOMAIN t /\ q[i] = t[i - Len(s)]
               /\ j - Len(s) \in DOMAIN t /\ q[j] = t[j - Len(s)]
      <4>1. i - Len(s) = j - Len(s)
        BY <1>3, <2>2, <3>4 DEF Distinct
      <4> QED
        BY <1>1, <3>0, <4>1
    <3> QED
      BY <1>b, <3>1, <3>2, <3>3, <3>4
  <2> QED
    BY <2>2 DEF Distinct
<1> QED
  BY <1>1, <1>2, <1>3 DEF q

\* Filtering keeps the elements of S, none of them more often than before.
LEMMA KeptFacts ==
  ASSUME NEW seq \in Seq(Agents), NEW S
  PROVE  /\ Kept(seq, S) \in Seq(Agents) /\ Len(Kept(seq, S)) <= Len(seq)
         /\ ToSet(Kept(seq, S)) = ToSet(seq) \cap S
         /\ Distinct(seq) => Distinct(Kept(seq, S))
<1>0. Len(seq) \in Nat /\ DOMAIN seq = 1 .. Len(seq)
      /\ \A i \in 1 .. Len(seq) : seq[i] \in Agents
  OBVIOUS
<1>1. PICK f : KeepsUpTo(f, seq, S, Len(seq)) /\ Kept(seq, S) = f[Len(seq)]
  BY <1>0, KeptDefined
<1> DEFINE Good(n) == /\ f[n] \in Seq(Agents) /\ Len(f[n]) <= n
                      /\ ToSet(f[n]) = {seq[i] : i \in 1 .. n} \cap S
                      /\ Distinct(seq) => Distinct(f[n])
           bad == {n \in 0 .. Len(seq) : ~Good(n)}
<1>2. bad = {}
  <2> SUFFICES ASSUME bad # {} PROVE FALSE
    OBVIOUS
  <2>1. PICK n \in bad : \A k \in bad : n <= k
    <3>1. bad \in SUBSET Nat
      OBVIOUS
    <3> HIDE DEF bad
    <3> QED
      BY <3>1, LeastOf
  <2>2. n \in Nat /\ n \in 0 .. Len(seq) /\ ~Good(n)
    BY <1>0
  <2>3. f[n] = IF n = 0 THEN <<>>
               ELSE IF seq[n] \in S THEN Append(f[n - 1], seq[n]) ELSE f[n - 1]
    BY <1>1, <2>2, Zenon DEF KeepsUpTo
  <2>4. CASE n = 0
    <3>1. f[n] = <<>>
      BY <2>3, <2>4
    <3>2. <<>> \in Seq(Agents) /\ Len(<<>>) = 0 /\ ToSet(<<>>) = {} /\ Distinct(<<>>)
      BY DEF ToSet, Distinct
    <3>3. {seq[i] : i \in 1 .. n} = {}
      BY <2>4
    <3> QED
      BY <2>2, <2>4, <3>1, <3>2, <3>3
  <2>5. CASE n # 0
    <3>1. n - 1 \in 0 .. Len(seq) /\ n - 1 \notin bad /\ n \in 1 .. Len(seq)
      BY <1>0, <2>1, <2>2, <2>5, SMTT(30)
    <3>2. Good(n - 1)
      BY <3>1
    <3> DEFINE T == {seq[i] : i \in 1 .. n - 1}
    <3>3. {seq[i] : i \in 1 .. n} = T \cup {seq[n]}
      <4>1. \A i \in 1 .. n : i \in 1 .. n - 1 \/ i = n
        BY <2>2
      <4>2. \A i \in 1 .. n - 1 : i \in 1 .. n
        BY <2>2
      <4> QED
        BY <3>1, <4>1, <4>2
    <3>4. seq[n] \in Agents
      BY <1>0, <3>1
    <3>5. CASE seq[n] \in S
      <4>1. f[n] = Append(f[n - 1], seq[n])
        BY <2>3, <2>5, <3>5
      <4>2. Distinct(seq) => seq[n] \notin T
        <5>1. \A i \in 1 .. n - 1 : i \in DOMAIN seq /\ n \in DOMAIN seq /\ i # n
          BY <1>0, <2>2, <3>1
        <5> QED
          BY <5>1 DEF Distinct
      <4>3. /\ f[n] \in Seq(Agents) /\ Len(f[n]) = Len(f[n - 1]) + 1
            /\ ToSet(f[n]) = ToSet(f[n - 1]) \cup {seq[n]}
            /\ Distinct(f[n - 1]) /\ seq[n] \notin ToSet(f[n - 1]) => Distinct(f[n])
        BY <3>2, <3>4, <4>1, AppendFacts
      <4>4. Len(f[n]) <= n
        <5>1. Len(f[n - 1]) \in Nat
          BY <3>2
        <5> QED
          BY <2>2, <3>2, <4>3, <5>1
      <4> QED
        BY <2>2, <3>2, <3>3, <3>5, <4>2, <4>3, <4>4
    <3>6. CASE seq[n] \notin S
      <4>1. f[n] = f[n - 1]
        BY <2>3, <2>5, <3>6
      <4>2. Len(f[n - 1]) \in Nat
        BY <3>2
      <4>3. Len(f[n]) <= n
        BY <2>2, <3>2, <4>1, <4>2
      <4> QED
        BY <2>2, <3>2, <3>3, <3>6, <4>1, <4>3
    <3> QED
      BY <3>5, <3>6
  <2> QED
    BY <2>4, <2>5
<1>3. Good(Len(seq))
  <2> HIDE DEF Good
  <2>1. Len(seq) \in 0 .. Len(seq)
    BY <1>0
  <2>2. Len(seq) \notin bad
    BY <1>2
  <2> QED
    BY <2>1, <2>2
<1>4. {seq[i] : i \in 1 .. Len(seq)} = ToSet(seq)
  BY <1>0 DEF ToSet
<1> QED
  BY <1>1, <1>3, <1>4

(***************************************************************************)
(* Quiet updates: whatever else they do, no agent comes, goes or is called *)
(* away by them, and no activity or reminder is begun or ended.            *)
(***************************************************************************)
SameAgent(g, h) ==
  /\ g.state = h.state
  /\ g.pending_conversation_id = h.pending_conversation_id
  /\ g.current_conversation_id = h.current_conversation_id
  /\ h.announced = FALSE => g.announced = FALSE

\* A conversation may begin to close.
SameLists(u, v) ==
  /\ u.status = "pending" <=> v.status = "pending"
  /\ u.status \in {"active", "closing"} <=> v.status \in {"active", "closing"}
  /\ u.initiator = v.initiator
  /\ u.participants = v.participants /\ u.joiners = v.joiners

\* No turn or interval is begun either.
SameTimers(S, T) ==
  /\ \A a \in Agents : (WT(a) \in S <=> WT(a) \in T) /\ (IR(a) \in S <=> IR(a) \in T)
  /\ \A x \in S : x.type \in TalkTypes => x \in T

Quiet(u, w) ==
  /\ Shape(u)
  /\ \A a \in Agents : SameAgent(u.agents[a], w.agents[a])
  /\ \A c \in Conversations : SameLists(u.conversations[c], w.conversations[c])
  /\ SameTimers(u.timers, w.timers)

\* The elements of a list of agents are agents.
LEMMA Elements ==
  ASSUME NEW s \in Seq(Agents)
  PROVE  ToSet(s) \subseteq Agents
<1>1. \A i \in DOMAIN s : s[i] \in Agents
  OBVIOUS
<1> QED
  BY <1>1 DEF ToSet

\* Who is in a conversation is an agent.
LEMMA EveryoneAgents ==
  ASSUME NEW w, Shape(w), NEW c \in Conversations
  PROVE  /\ IsConversation(w.conversations[c])
         /\ Everyone(w.conversations[c]) \subseteq Agents
         /\ Members(w.conversations[c]) \subseteq Agents
         /\ ToSet(w.conversations[c].joiners) \subseteq Agents
<1>1. IsConversation(w.conversations[c])
  BY DEF Shape
<1> QED
  BY <1>1, Elements DEF IsConversation, Everyone, Members

\* Nothing at all is quiet.
LEMMA QuietSelf ==
  ASSUME NEW w, Shape(w)
  PROVE  Quiet(w, w)
BY DEF Quiet, SameAgent, SameLists, SameTimers

\* Two quiet steps are one.
LEMMA QuietTwice ==
  ASSUME NEW w, NEW v, Quiet(v, w), NEW u, Quiet(u, v)
  PROVE  Quiet(u, w)
BY DEF Quiet, SameAgent, SameLists, SameTimers

\* One store is replaced and the others are as they were.
LEMMA SetTimers ==
  ASSUME NEW w, Shape(w), NEW T, OwnTimers(T), SameTimers(T, w.timers)
  PROVE  Quiet([w EXCEPT !.timers = T], w)
BY DEF Shape, Quiet, SameAgent, SameLists

\* Other fields of the agents' records may change.
LEMMA SetAgents ==
  ASSUME NEW w, Shape(w), NEW A \in [Agents -> AgentRecord],
         \A a \in Agents : SameAgent(A[a], w.agents[a])
  PROVE  Quiet([w EXCEPT !.agents = A], w)
BY DEF Shape, Quiet, SameLists, SameTimers

\* Other fields of a conversation may change.
LEMMA SetConversation ==
  ASSUME NEW w, Shape(w), NEW c \in Conversations, NEW v, IsConversation(v),
         SameLists(v, w.conversations[c])
  PROVE  Quiet([w EXCEPT !.conversations[c] = v], w)
<1> DEFINE C == [w.conversations EXCEPT ![c] = v]
           u == [w EXCEPT !.conversations[c] = v]
<1>1. /\ C = [d \in Conversations |-> C[d]]
      /\ \A d \in Conversations : C[d] = IF d = c THEN v ELSE w.conversations[d]
  BY DEF Shape
<1> HIDE DEF C
<1>2. u = [w EXCEPT !.conversations = C]
  BY DEF Shape, C
<1>3. /\ u.agents = w.agents /\ u.transfers = w.transfers /\ u.timers = w.timers
      /\ u.conversations = C
      /\ u = [ agents |-> u.agents, purses |-> u.purses, transfers |-> u.transfers,
           announcements |-> u.announcements, timers |-> u.timers,
           registrations |-> u.registrations, conversations |-> u.conversations ]
  BY <1>2 DEF Shape
<1> HIDE DEF u
<1>4. Shape(u)
  BY <1>1, <1>3 DEF Shape
<1>5. \A d \in Conversations : SameLists(u.conversations[d], w.conversations[d])
  BY <1>1, <1>3 DEF SameLists
<1>6. Quiet(u, w)
  BY <1>3, <1>4, <1>5 DEF Quiet, SameAgent, SameTimers
<1> QED
  BY <1>6 DEF u

\* Offers may change.
LEMMA SetTransfers ==
  ASSUME NEW w, Shape(w), NEW R, R = [t \in Transfers |-> R[t]],
         \A t \in Transfers : IsOffer(R[t])
  PROVE  Quiet([w EXCEPT !.transfers = R], w)
BY DEF Shape, Quiet, SameAgent, SameLists, SameTimers

\* Purses, registrations and announcements may change.
LEMMA SetValues ==
  ASSUME NEW w, Shape(w), NEW V
  PROVE  /\ Quiet([w EXCEPT !.purses = V], w)
         /\ Quiet([w EXCEPT !.registrations = V], w)
         /\ Quiet([w EXCEPT !.announcements = V], w)
BY DEF Shape, Quiet, SameAgent, SameLists, SameTimers

\* A quiet update leaves a sound world sound.
LEMMA QuietSound ==
  ASSUME NEW w, NEW X, Sound(w, X), NEW u, Quiet(u, w)
  PROVE  Sound(u, X)
<1>1. \A a \in Agents : InState(u, a)
  BY DEF Sound, Quiet, SameAgent, SameTimers, InState
<1>2. ASSUME NEW c \in Conversations
      PROVE  /\ u.conversations[c].status = "pending" => Invites(u, c)
             /\ IsRunning(u, c) => Lists(u, c)
             /\ IsRunning(u, c) \/ Untimed(u, c)
  <2>1. SameLists(u.conversations[c], w.conversations[c])
    BY DEF Quiet
  <2>2. u.conversations[c].status = "pending" => Invites(u, c)
    BY <2>1 DEF Sound, Quiet, SameAgent, SameLists, Invites
  <2>3. ASSUME IsRunning(u, c) PROVE Lists(u, c)
    <3>1. Lists(w, c)
      BY <2>1, <2>3 DEF Sound, SameLists, IsRunning
    <3>2. Everyone(u.conversations[c]) = Everyone(w.conversations[c])
      BY <2>1 DEF SameLists, Everyone
    <3>3. Everyone(w.conversations[c]) \subseteq Agents
      BY EveryoneAgents DEF Sound
    <3> QED
      BY <2>1, <3>1, <3>2, <3>3 DEF Lists, SameLists, Quiet, SameAgent
  <2>4. IsRunning(u, c) \/ Untimed(u, c)
    <3>1. IsRunning(w, c) \/ Untimed(w, c)
      BY DEF Sound
    <3>2. \A x \in u.timers : x.type \in TalkTypes => x \in w.timers
      BY DEF Quiet, SameTimers
    <3> QED
      BY <2>1, <3>1, <3>2 DEF Untimed, SameLists, IsRunning
  <2> QED
    BY <2>2, <2>3, <2>4
<1>3. ASSUME NEW a \in Agents \ X
      PROVE  Placed(u, a) /\ (Announcements = {} => Marked(u, a))
  <2>1. SameAgent(u.agents[a], w.agents[a]) /\ Placed(w, a)
    BY DEF Quiet, Sound
  <2>2. w.agents[a] \in AgentRecord
    BY DEF Sound, Shape
  <2>3. Placed(u, a)
    <3> DEFINE c == u.agents[a].current_conversation_id
    <3>1. CASE c = None
      BY <3>1 DEF Placed
    <3>2. CASE c # None
      <4>1. c \in Conversations /\ c = w.agents[a].current_conversation_id
        BY <2>1, <2>2, <3>2 DEF SameAgent, AgentRecord
      <4>2. SameLists(u.conversations[c], w.conversations[c])
        BY <4>1 DEF Quiet
      <4> QED
        BY <2>1, <3>2, <4>1, <4>2 DEF Placed, SameLists, IsRunning, Everyone
    <3> QED
      BY <3>1, <3>2
  <2>4. ASSUME Announcements = {} PROVE Marked(u, a)
    <3> DEFINE c == u.agents[a].pending_conversation_id
    <3>1. Marked(w, a)
      BY <2>4 DEF Sound
    <3>2. CASE c = None
      BY <3>2 DEF Marked
    <3>3. CASE c # None
      <4>1. c \in Conversations /\ c = w.agents[a].pending_conversation_id
        BY <2>1, <2>2, <3>3 DEF SameAgent, AgentRecord
      <4>2. SameLists(u.conversations[c], w.conversations[c])
        BY <4>1 DEF Quiet
      <4> QED
        BY <3>1, <3>3, <4>1, <4>2 DEF Marked, SameLists, Members
    <3> QED
      BY <3>2, <3>3
  <2> QED
    BY <2>3, <2>4
<1>4. Announcements = {} => \A a \in Agents : u.agents[a].announced = FALSE
  BY DEF Sound, Quiet, SameAgent
<1> QED
  BY <1>1, <1>2, <1>3, <1>4 DEF Sound, Quiet

\* The fields of a timer.
LEMMA TimerFacts ==
  ASSUME NEW type, NEW ids, NEW about, NEW twin
  PROVE  /\ Timer(type, ids, about).type = type
         /\ Timer(type, ids, about).agent_ids = ids
         /\ [Timer(type, ids, about) EXCEPT !.twin = twin].type = type
BY DEF Timer

\* The fields of an agent's own timers.
LEMMA OwnFacts ==
  ASSUME NEW a
  PROVE  /\ WT(a).type = "wait" /\ WT(a).agent_ids = {a}
         /\ IR(a).type = "idle_reminder" /\ IR(a).agent_ids = {a}
BY DEF WT, IR, Timer

\* Changing one agent's record where it does not say what the agent does.
LEMMA SetAgent ==
  ASSUME NEW w, Shape(w), NEW a \in Agents, NEW g \in AgentRecord,
         SameAgent(g, w.agents[a])
  PROVE  Quiet([w EXCEPT !.agents[a] = g], w)
<1> DEFINE A == [w.agents EXCEPT ![a] = g]
<1>1. [w EXCEPT !.agents[a] = g] = [w EXCEPT !.agents = A]
  BY DEF Shape
<1>2. w.agents \in [Agents -> AgentRecord]
  BY DEF Shape
<1>3. A \in [Agents -> AgentRecord] /\ \A b \in Agents : SameAgent(A[b], w.agents[b])
  BY <1>2 DEF SameAgent
<1> HIDE DEF A
<1> QED
  BY <1>1, <1>3, SetAgents

\* The windows of an agent.
LEMMA QuietWindow ==
  ASSUME NEW w, Shape(w), NEW a \in Agents
  PROVE  /\ Quiet(clearExcludedInfoCommands(w, a), w)
         /\ Quiet(clearActiveServerAnnouncement(w, a), w)
         /\ Quiet(closeWindow(w, a), w)
<1>1. ASSUME NEW u, Shape(u)
      PROVE  Quiet(clearExcludedInfoCommands(u, a), u)
  <2> DEFINE g == [u.agents[a] EXCEPT !.excluded = {}]
  <2>1. clearExcludedInfoCommands(u, a) = [u EXCEPT !.agents[a] = g]
    BY <1>1 DEF clearExcludedInfoCommands, Shape
  <2>2. u.agents[a] \in AgentRecord
    BY <1>1 DEF Shape
  <2>3. g \in AgentRecord /\ SameAgent(g, u.agents[a])
    BY <2>2 DEF AgentRecord, SameAgent
  <2> HIDE DEF g
  <2> QED
    BY <1>1, <2>1, <2>3, SetAgent
<1>2. ASSUME NEW u, Shape(u)
      PROVE  Quiet(clearActiveServerAnnouncement(u, a), u)
  <2> DEFINE g == [u.agents[a] EXCEPT !.announced = FALSE]
  <2>1. clearActiveServerAnnouncement(u, a) = [u EXCEPT !.agents[a] = g]
    BY <1>2 DEF clearActiveServerAnnouncement, Shape
  <2>2. u.agents[a] \in AgentRecord
    BY <1>2 DEF Shape
  <2>3. g \in AgentRecord /\ SameAgent(g, u.agents[a])
    BY <2>2 DEF AgentRecord, SameAgent
  <2> HIDE DEF g
  <2> QED
    BY <1>2, <2>1, <2>3, SetAgent
<1>3. Quiet(clearExcludedInfoCommands(w, a), w)
  BY <1>1
<1>4. Quiet(clearActiveServerAnnouncement(clearExcludedInfoCommands(w, a), a),
            clearExcludedInfoCommands(w, a))
  BY <1>2, <1>3 DEF Quiet
<1> QED
  BY <1>1, <1>2, <1>3, <1>4, QuietTwice DEF closeWindow

\* The timers of conversations and offers.
LEMMA FewerTimers ==
  ASSUME NEW w, Shape(w), NEW T \in SUBSET w.timers,
         \A x \in w.timers \ T : x.type \notin {"wait", "idle_reminder"}
  PROVE  Quiet([w EXCEPT !.timers = T], w)
<1>1. OwnTimers(T)
  BY DEF OwnTimers, Shape
<1>2. SameTimers(T, w.timers)
  BY OwnFacts DEF SameTimers
<1> QED
  BY <1>1, <1>2, SetTimers

\* Timers of conversations and of offers may be cancelled.
LEMMA QuietCancel ==
  ASSUME NEW w, Shape(w)
  PROVE  /\ \A timer : timer.type \notin {"wait", "idle_reminder"} =>
              Quiet(cancel(w, timer), w)
         /\ \A c : Quiet(cancelConversationTimers(w, c), w)
         /\ \A c : Quiet(cancelTimersOf(w, c, {"conversation_inactive_check"}), w)
         /\ \A t : Quiet(cancelTransferTimer(w, t), w)
<1>1. ASSUME NEW timer, timer.type \notin {"wait", "idle_reminder"}
      PROVE  Quiet(cancel(w, timer), w)
  <2>1. cancel(w, timer) = [w EXCEPT !.timers = w.timers \ {timer}]
    BY DEF cancel
  <2> QED
    BY <1>1, <2>1, FewerTimers
<1>2. ASSUME NEW c, NEW types \in SUBSET ConversationTimerTypes
      PROVE  Quiet(cancelTimersOf(w, c, types), w)
  <2>1. cancelTimersOf(w, c, types)
          = [w EXCEPT !.timers = w.timers \ ConversationTimers(w, c, types)]
    BY DEF cancelTimersOf
  <2>2. \A x \in w.timers \ (w.timers \ ConversationTimers(w, c, types)) :
          x.type \notin {"wait", "idle_reminder"}
    BY DEF ConversationTimers, ConversationTimerTypes
  <2> QED
    BY <2>1, <2>2, FewerTimers
<1>3. ASSUME NEW t PROVE Quiet(cancelTransferTimer(w, t), w)
  <2> DEFINE T == {x \in w.timers : ~(x.type = "transfer" /\ x.about = t)}
  <2>1. cancelTransferTimer(w, t) = [w EXCEPT !.timers = T]
    BY DEF cancelTransferTimer
  <2>2. T \in SUBSET w.timers /\ \A x \in w.timers \ T : x.type \notin {"wait", "idle_reminder"}
    OBVIOUS
  <2> HIDE DEF T
  <2> QED
    BY <2>1, <2>2, FewerTimers
<1>4. {"conversation_inactive_check"} \in SUBSET ConversationTimerTypes
  BY DEF ConversationTimerTypes
<1> QED
  BY <1>1, <1>2, <1>3, <1>4 DEF cancelConversationTimers

\* Timers of offers, invitations and checks may be created.
LEMMA QuietCreate ==
  ASSUME NEW w, Shape(w), NEW type, NEW ids, NEW about,
         type \notin {"wait", "idle_reminder", "action", "item_use"} \cup TalkTypes
  PROVE  Quiet(create(w, Timer(type, ids, about)), w)
<1> DEFINE timer == Timer(type, ids, about)
           x == [timer EXCEPT !.twin = timer \in w.timers]
           T == w.timers \cup {x}
<1>1. x.type = type
  BY TimerFacts
<1>2. create(w, timer) = [w EXCEPT !.timers = T]
  BY DEF create
<1> HIDE DEF x, timer
<1>3. OwnTimers(T)
  BY <1>1 DEF OwnTimers, Shape
<1>4. SameTimers(T, w.timers)
  BY <1>1, OwnFacts DEF SameTimers
<1> HIDE DEF T
<1>5. Quiet(create(w, timer), w)
  BY <1>2, <1>3, <1>4, SetTimers
<1> QED
  BY <1>5 DEF timer

\* One conversation's record changes where it does not say who is in it.
LEMMA QuietRecord ==
  ASSUME NEW w, Shape(w), NEW c \in Conversations, NEW v,
         v = [w.conversations[c] EXCEPT
                !.current_turn = v.current_turn,
                !.current_speaker = v.current_speaker,
                !.last_spoken_turns = v.last_spoken_turns,
                !.inactive = v.inactive, !.resume_speaker = v.resume_speaker,
                !.closing_reason = v.closing_reason]
  PROVE  Quiet([w EXCEPT !.conversations[c] = v], w)
<1>1. IsConversation(w.conversations[c])
  BY DEF Shape
<1>2. IsConversation(v) /\ SameLists(v, w.conversations[c])
  BY <1>1 DEF IsConversation, SameLists
<1> QED
  BY <1>2, SetConversation

\* An inactive check is timed.
LEMMA QuietCheck ==
  ASSUME NEW w, Shape(w), NEW c
  PROVE  Quiet(createInactiveCheckTimer(w, c), w)
BY QuietCreate DEF createInactiveCheckTimer, TalkTypes

(***************************************************************************)
(* Offers between members: they touch money, items and roles only.         *)
(***************************************************************************)

\* One agent's role in an offer ends.
LEMMA QuietRelease ==
  ASSUME NEW w, Shape(w), NEW a \in Agents, NEW t
  PROVE  /\ Quiet(releaseSender(w, t, a), w) /\ Quiet(releaseReceiver(w, t, a), w)
         /\ releaseSender(w, t, a).transfers = w.transfers
         /\ releaseReceiver(w, t, a).transfers = w.transfers
         /\ releaseSender(w, t, a).timers = w.timers
         /\ releaseReceiver(w, t, a).timers = w.timers
<1>0. w.agents[a] \in AgentRecord
  BY DEF Shape
<1>1. /\ Quiet(releaseSender(w, t, a), w)
      /\ releaseSender(w, t, a).transfers = w.transfers
      /\ releaseSender(w, t, a).timers = w.timers
  <2> DEFINE g == [w.agents[a] EXCEPT !.active_transfer_id = None]
             u == [w EXCEPT !.agents[a] = g]
  <2>1. g \in AgentRecord /\ SameAgent(g, w.agents[a])
    BY <1>0 DEF AgentRecord, SameAgent
  <2>2. Quiet(u, w)
    BY <2>1, SetAgent
  <2>a. u.transfers = w.transfers /\ u.timers = w.timers
    BY DEF Shape
  <2>3. [w EXCEPT !.agents[a].active_transfer_id = None] = u
    BY DEF Shape
  <2> HIDE DEF g, u
  <2>4. u.agents[a].state # "in_transfer"
    BY <2>2 DEF Quiet, Shape, AgentRecord
  <2>5. leaveTransfer(u, a) = u
    BY <2>4 DEF leaveTransfer
  <2> QED
    BY <2>2, <2>a, <2>3, <2>5, QuietSelf DEF releaseSender
<1>2. /\ Quiet(releaseReceiver(w, t, a), w)
      /\ releaseReceiver(w, t, a).transfers = w.transfers
      /\ releaseReceiver(w, t, a).timers = w.timers
  <2> DEFINE g == [w.agents[a] EXCEPT !.pending_transfer_id = None]
             u == [w EXCEPT !.agents[a] = g]
  <2>1. g \in AgentRecord /\ SameAgent(g, w.agents[a])
    BY <1>0 DEF AgentRecord, SameAgent
  <2>2. Quiet(u, w)
    BY <2>1, SetAgent
  <2>a. u.transfers = w.transfers /\ u.timers = w.timers
    BY DEF Shape
  <2>3. [w EXCEPT !.agents[a].pending_transfer_id = None] = u
    BY DEF Shape
  <2> HIDE DEF g, u
  <2>4. u.agents[a].state # "in_transfer"
    BY <2>2 DEF Quiet, Shape, AgentRecord
  <2>5. leaveTransfer(u, a) = u
    BY <2>4 DEF leaveTransfer
  <2> QED
    BY <2>2, <2>a, <2>3, <2>5, QuietSelf DEF releaseReceiver
<1> QED
  BY <1>1, <1>2

\* Both roles and the timer of an offer end.
LEMMA QuietClear ==
  ASSUME NEW w, Shape(w), NEW t, NEW offer,
         offer.from_agent_id \in Agents, offer.to_agent_id \in Agents
  PROVE  /\ Quiet(clearTransferState(w, t, offer), w)
         /\ clearTransferState(w, t, offer).transfers = w.transfers
         /\ clearTransferState(w, t, offer).timers = w.timers
<1> DEFINE u == releaseSender(w, t, offer.from_agent_id)
<1>1. Quiet(u, w) /\ u.transfers = w.transfers /\ u.timers = w.timers
  BY QuietRelease
<1>2. clearTransferState(w, t, offer) = releaseReceiver(u, t, offer.to_agent_id)
  BY DEF clearTransferState
<1> HIDE DEF u
<1>3. Shape(u)
  BY <1>1 DEF Quiet
<1>4. /\ Quiet(releaseReceiver(u, t, offer.to_agent_id), u)
      /\ releaseReceiver(u, t, offer.to_agent_id).transfers = u.transfers
      /\ releaseReceiver(u, t, offer.to_agent_id).timers = u.timers
  BY <1>3, QuietRelease
<1> QED
  BY <1>1, <1>2, <1>4, QuietTwice

\* Purses and registrations are written.
LEMMA QuietPersist ==
  ASSUME NEW w, Shape(w), NEW a, NEW gained
  PROVE  /\ Quiet(persistLoggedInAgentState(w, a), w)
         /\ Quiet(mergePersistedAgentInventory(w, a, gained), w)
         /\ Quiet(creditAgent(w, a, gained), w)
         /\ Quiet([w EXCEPT !.purses[a] = gained], w)
<1>1. ASSUME NEW u, Shape(u) PROVE Quiet(persistLoggedInAgentState(u, a), u)
  <2>1. persistLoggedInAgentState(u, a)
          = [u EXCEPT !.registrations = [u.registrations EXCEPT ![a] = u.purses[a]]]
    BY <1>1 DEF persistLoggedInAgentState, Shape
  <2> QED
    BY <1>1, <2>1, SetValues
<1>2. Quiet(mergePersistedAgentInventory(w, a, gained), w)
  <2> DEFINE V == [w.registrations EXCEPT ![a] =
                     [money |-> @.money + gained.money, items |-> @.items + gained.items]]
  <2>1. mergePersistedAgentInventory(w, a, gained) = [w EXCEPT !.registrations = V]
    BY DEF mergePersistedAgentInventory, Shape
  <2> HIDE DEF V
  <2> QED
    BY <2>1, SetValues
<1>3. ASSUME NEW p PROVE Quiet([w EXCEPT !.purses[a] = p], w)
  <2>1. [w EXCEPT !.purses[a] = p] = [w EXCEPT !.purses = [w.purses EXCEPT ![a] = p]]
    BY DEF Shape
  <2> QED
    BY <2>1, SetValues
<1>4. Quiet(creditAgent(w, a, gained), w)
  <2> DEFINE p == credit(w.purses[a], gained)
             u == [w EXCEPT !.purses[a] = p]
  <2>1. creditAgent(w, a, gained) = persistLoggedInAgentState(u, a)
    BY DEF creditAgent
  <2> HIDE DEF p
  <2>2. Quiet(u, w)
    BY <1>3
  <2> HIDE DEF u
  <2>3. Quiet(persistLoggedInAgentState(u, a), u)
    BY <1>1, <2>2 DEF Quiet
  <2> QED
    BY <2>1, <2>2, <2>3, QuietTwice
<1> QED
  BY <1>1, <1>2, <1>3, <1>4

\* An offer is replaced by one, or by none, in the store.
LEMMA QuietOffer ==
  ASSUME NEW w, Shape(w), NEW t, NEW o, IsOffer(o)
  PROVE  Quiet([w EXCEPT !.transfers[t] = o], w)
<1> DEFINE R == [w.transfers EXCEPT ![t] = o]
<1>1. [w EXCEPT !.transfers[t] = o] = [w EXCEPT !.transfers = R]
  BY DEF Shape
<1>2. R = [x \in Transfers |-> R[x]] /\ \A x \in Transfers : IsOffer(R[x])
  BY DEF Shape
<1> HIDE DEF R
<1> QED
  BY <1>1, <1>2, SetTransfers

\* An offer that exists is of two agents.
LEMMA OffersOf ==
  ASSUME NEW w, Shape(w), NEW t \in Transfers, w.transfers[t].status # "absent"
  PROVE  /\ IsOffer(w.transfers[t])
         /\ w.transfers[t].from_agent_id \in Agents
         /\ w.transfers[t].to_agent_id \in Agents
BY DEF Shape, IsOffer

\* However a refund ends, nobody's talk is touched by it.
LEMMA QuietRefund ==
  ASSUME NEW w, Shape(w), NEW t \in Transfers, w.transfers[t].status # "absent",
         NEW faults
  PROVE  Quiet(finalizeRefund(w, t, faults), w)
<1> DEFINE offer == w.transfers[t]
           u == cancelTransferTimer(w, t)
           v == clearTransferState(u, t, offer)
<1>1. IsOffer(offer) /\ offer.from_agent_id \in Agents /\ offer.to_agent_id \in Agents
  BY OffersOf
<1>2. Quiet(u, w) /\ u.transfers = w.transfers
  BY QuietCancel DEF cancelTransferTimer, Shape
<1>3. finalizeRefund(w, t, faults)
        = IF refundThrows(w, t, faults)
          THEN [v EXCEPT !.transfers[t].status = "refund_failed"]
          ELSE [refundEscrow(v, offer) EXCEPT !.transfers[t] = NoOffer]
  BY DEF finalizeRefund
<1> HIDE DEF u, offer
<1>4. Quiet(v, u) /\ v.transfers = u.transfers
  BY <1>1, <1>2, QuietClear DEF Quiet
<1> HIDE DEF v
<1>5. Quiet(v, w) /\ v.transfers[t] = offer /\ Shape(v)
  BY <1>2, <1>4, QuietTwice DEF offer, Quiet
<1>6. Quiet([v EXCEPT !.transfers[t].status = "refund_failed"], w)
  <2> DEFINE o == [v.transfers[t] EXCEPT !.status = "refund_failed"]
  <2>1. IsOffer(o)
    BY <1>1, <1>5 DEF IsOffer, offer
  <2>2. [v EXCEPT !.transfers[t].status = "refund_failed"] = [v EXCEPT !.transfers[t] = o]
    BY <1>5 DEF Shape
  <2> HIDE DEF o
  <2>3. Quiet([v EXCEPT !.transfers[t] = o], v)
    BY <1>5, <2>1, QuietOffer
  <2> QED
    BY <1>5, <2>2, <2>3, QuietTwice
<1>7. Quiet([refundEscrow(v, offer) EXCEPT !.transfers[t] = NoOffer], w)
  <2> DEFINE x == refundEscrow(v, offer)
  <2>1. Quiet(x, v)
    BY <1>5, QuietPersist DEF refundEscrow
  <2> HIDE DEF x
  <2>2. Shape(x) /\ Quiet(x, w)
    BY <1>5, <2>1, QuietTwice DEF Quiet
  <2>3. IsOffer(NoOffer)
    BY DEF IsOffer, NoOffer
  <2>4. Quiet([x EXCEPT !.transfers[t] = NoOffer], x)
    BY <2>2, <2>3, QuietOffer
  <2>5. Quiet([x EXCEPT !.transfers[t] = NoOffer], w)
    BY <2>2, <2>4, QuietTwice
  <2> QED
    BY <2>5 DEF x
<1> QED
  BY <1>3, <1>6, <1>7

\* An offer is cancelled and refunded.
LEMMA QuietCancelTransfer ==
  ASSUME NEW w, Shape(w), NEW t \in Transfers, NEW faults
  PROVE  Quiet(cancelTransfer(w, t, faults), w)
<1>1. CASE w.transfers[t].status = "open"
  <2>1. cancelTransfer(w, t, faults) = finalizeRefund(w, t, faults)
    BY <1>1 DEF cancelTransfer
  <2> QED
    BY <1>1, <2>1, QuietRefund
<1>2. CASE w.transfers[t].status = "refund_failed"
  <2>1. cancelTransfer(w, t, faults) = clearTransferState(w, t, w.transfers[t])
    BY <1>2 DEF cancelTransfer
  <2> QED
    BY <1>2, <2>1, OffersOf, QuietClear
<1>3. CASE w.transfers[t].status \notin {"open", "refund_failed"}
  <2>1. cancelTransfer(w, t, faults) = w
    BY <1>3 DEF cancelTransfer
  <2> QED
    BY <2>1, QuietSelf
<1> QED
  BY <1>1, <1>2, <1>3

\* All the offers an agent has a part in are cancelled.
LEMMA QuietPending ==
  ASSUME NEW w, Shape(w), NEW a, NEW faults
  PROVE  Quiet(cancelPendingTransfersForAgent(w, a, faults), w)
<1> DEFINE open == {t \in Transfers :
                      Live(w, t) /\ a \in {w.transfers[t].from_agent_id,
                                           w.transfers[t].to_agent_id}}
<1>1. cancelPendingTransfersForAgent(w, a, faults)
        = IF open = {} THEN w ELSE cancelTransfer(w, CHOOSE t \in open : TRUE, faults)
  BY DEF cancelPendingTransfersForAgent
<1>2. open # {} => (CHOOSE t \in open : TRUE) \in Transfers
  <2>1. open \subseteq Transfers
    OBVIOUS
  <2> HIDE DEF open
  <2> QED
    BY <2>1
<1> QED
  BY <1>1, <1>2, QuietCancelTransfer, QuietSelf

\* An offer is not answered in time.
LEMMA QuietTimeout ==
  ASSUME NEW w, Shape(w), NEW timer, timer.type = "transfer",
         timer.about \in Transfers, NEW faults
  PROVE  Quiet(handleTransferTimeout(w, timer, faults), w)
<1> DEFINE u == cancel(w, timer)
<1>1. Quiet(u, w)
  BY QuietCancel
<1>2. u.transfers = w.transfers
  BY DEF cancel, Shape
<1>3. handleTransferTimeout(w, timer, faults)
        = IF Live(w, timer.about) THEN finalizeRefund(u, timer.about, faults) ELSE u
  BY DEF handleTransferTimeout
<1> HIDE DEF u
<1>4. Live(w, timer.about) => Quiet(finalizeRefund(u, timer.about, faults), u)
  BY <1>1, <1>2, QuietRefund DEF Quiet, Live
<1> QED
  BY <1>1, <1>3, <1>4, QuietTwice

\* An offer is accepted, and paid out.
LEMMA QuietSettle ==
  ASSUME NEW w, Shape(w), NEW t \in Transfers, w.transfers[t].status # "absent",
         NEW a \in Agents
  PROVE  Quiet(settleAccept(w, t, a), w)
<1> DEFINE offer == w.transfers[t]
           w1 == creditAgent(w, a, offer.escrow)
           w2 == cancelTransferTimer(w1, t)
           w3 == clearTransferState(w2, t, offer)
           w4 == [w3 EXCEPT !.transfers[t] = NoOffer]
<1>0. settleAccept(w, t, a) = clearExcludedInfoCommands(w4, a)
  BY DEF settleAccept
<1>a. offer.from_agent_id \in Agents /\ offer.to_agent_id \in Agents
  BY OffersOf
<1> HIDE DEF offer
<1>1. Quiet(w1, w)
  BY QuietPersist
<1> HIDE DEF w1
<1>2. Quiet(w2, w1)
  BY <1>1, QuietCancel DEF Quiet
<1> HIDE DEF w2
<1>3. Quiet(w3, w2)
  BY <1>a, <1>2, QuietClear DEF Quiet
<1> HIDE DEF w3
<1>4. Quiet(w4, w3)
  BY <1>3, QuietOffer DEF Quiet, IsOffer, NoOffer
<1> HIDE DEF w4
<1>5. Quiet(clearExcludedInfoCommands(w4, a), w4)
  BY <1>4, QuietWindow DEF Quiet
<1> QED
  BY <1>0, <1>1, <1>2, <1>3, <1>4, <1>5, QuietTwice

\* A member answers the offer made to it.
LEMMA QuietAnswer ==
  ASSUME NEW w, Shape(w), NEW a \in Agents, NEW response
  PROVE  Quiet(resolveConversationTransferResponse(w, a, response), w)
<1> DEFINE t == w.agents[a].pending_transfer_id
           r == resolveConversationTransferResponse(w, a, response)
<1>1. t \in Transfers \cup {None}
  BY DEF Shape, AgentRecord
<1>2. CASE t = None \/ ~canAcceptTransfer(w, t, a)
  <2>1. r = w
    BY <1>2 DEF resolveConversationTransferResponse
  <2> QED
    BY <2>1, QuietSelf
<1>3. CASE t # None /\ canAcceptTransfer(w, t, a)
  <2>1. t \in Transfers /\ w.transfers[t].status # "absent"
    BY <1>1, <1>3 DEF canAcceptTransfer, canRejectTransfer, Live
  <2>2. r = w \/ r = settleAccept(w, t, a) \/ r = finalizeRefund(w, t, NoFaults)
    BY DEF resolveConversationTransferResponse
  <2> HIDE DEF r, t
  <2> QED
    <3>1. Quiet(settleAccept(w, t, a), w)
      BY <2>1, QuietSettle
    <3>2. Quiet(finalizeRefund(w, t, NoFaults), w)
      BY <2>1, QuietRefund
    <3> QED
      BY <2>2, <3>1, <3>2, QuietSelf DEF r
<1> QED
  BY <1>2, <1>3

\* A member makes an offer.
LEMMA QuietProposal ==
  ASSUME NEW w, Shape(w), NEW c, NEW t \in Transfers, NEW from \in Agents,
         NEW to \in Agents, NEW payload
  PROVE  Quiet(startConversationTransfer(w, c, t, from, to, payload), w)
<1> DEFINE offer == [status |-> "open", from_agent_id |-> from, to_agent_id |-> to,
                     escrow |-> payload, conversation_id |-> c]
           w1 == [w EXCEPT !.transfers[t] = offer]
           g == [w1.agents[from] EXCEPT !.active_transfer_id = t]
           w2 == [w1 EXCEPT !.agents[from] = g]
           h == [w2.agents[to] EXCEPT !.pending_transfer_id = t]
           w3 == [w2 EXCEPT !.agents[to] = h]
           w4 == [w3 EXCEPT !.purses[from] = debit(w.purses[from], payload)]
           w5 == persistLoggedInAgentState(w4, from)
<1>0. startConversationTransfer(w, c, t, from, to, payload)
        = IF validateConversationTransfer(w, c, from, to, payload)
          THEN create(w5, Timer("transfer", {from, to}, t)) ELSE w
  BY DEF startConversationTransfer, TransferTimer, Shape
<1>1. Quiet(w1, w)
  BY QuietOffer DEF IsOffer
<1> HIDE DEF offer, w1
<1>2. Quiet(w2, w1)
  <2>1. w1.agents[from] \in AgentRecord /\ Shape(w1)
    BY <1>1 DEF Quiet, Shape
  <2>2. g \in AgentRecord /\ SameAgent(g, w1.agents[from])
    BY <2>1 DEF AgentRecord, SameAgent
  <2> HIDE DEF g
  <2> QED
    BY <2>1, <2>2, SetAgent
<1> HIDE DEF w2, g
<1>3. Quiet(w3, w2)
  <2>1. w2.agents[to] \in AgentRecord /\ Shape(w2)
    BY <1>2 DEF Quiet, Shape
  <2>2. h \in AgentRecord /\ SameAgent(h, w2.agents[to])
    BY <2>1 DEF AgentRecord, SameAgent
  <2> HIDE DEF h
  <2> QED
    BY <2>1, <2>2, SetAgent
<1> HIDE DEF w3, h
<1>4. Quiet(w4, w3)
  BY <1>3, QuietPersist DEF Quiet
<1> HIDE DEF w4
<1>5. Quiet(w5, w4)
  BY <1>4, QuietPersist DEF Quiet
<1> HIDE DEF w5
<1>6. Quiet(create(w5, Timer("transfer", {from, to}, t)), w5)
  BY <1>5, QuietCreate DEF Quiet, TalkTypes
<1> QED
  BY <1>0, <1>1, <1>2, <1>3, <1>4, <1>5, <1>6, QuietTwice, QuietSelf

\* The loop over the offers made in a conversation.
SettlesUpTo(f, w, offers, n) ==
  f = [m \in 0 .. n |->
         IF m = 0 THEN w ELSE cancelTransfer(f[m - 1], offers[m], NoFaults)]

\* The loop over the offers can be run.
LEMMA SettlesDefined ==
  ASSUME NEW w, NEW offers, NEW n \in Nat
  PROVE  \E f : SettlesUpTo(f, w, offers, n)
<1> DEFINE bad == {k \in Nat : ~ \E f : SettlesUpTo(f, w, offers, k)}
<1>1. bad = {}
  <2> SUFFICES ASSUME bad # {} PROVE FALSE
    OBVIOUS
  <2>1. PICK k \in bad : \A j \in bad : k <= j
    <3>1. bad \in SUBSET Nat
      OBVIOUS
    <3> HIDE DEF bad
    <3> QED
      BY <3>1, LeastOf
  <2>2. k \in Nat /\ ~ \E f : SettlesUpTo(f, w, offers, k)
    OBVIOUS
  <2>3. CASE k = 0
    <3>1. SettlesUpTo([m \in 0 .. 0 |-> w], w, offers, 0)
      BY DEF SettlesUpTo
    <3> QED
      BY <2>2, <2>3, <3>1
  <2>4. CASE k # 0
    <3>1. k - 1 \in Nat /\ k - 1 \notin bad
      BY <2>1, <2>2, <2>4
    <3>2. PICK f : SettlesUpTo(f, w, offers, k - 1)
      BY <3>1
    <3> DEFINE last == cancelTransfer(f[k - 1], offers[k], NoFaults)
               g == [m \in 0 .. k |-> IF m = k THEN last ELSE f[m]]
    <3>3. \A m \in 0 .. k - 1 : g[m] = f[m]
          /\ f[m] = IF m = 0 THEN w ELSE cancelTransfer(f[m - 1], offers[m], NoFaults)
      <4> TAKE m \in 0 .. k - 1
      <4>1. m \in 0 .. k /\ m # k
        BY <2>2
      <4>2. g[m] = f[m]
        BY <4>1
      <4>3. f[m] = IF m = 0 THEN w ELSE cancelTransfer(f[m - 1], offers[m], NoFaults)
        BY <3>2, Zenon DEF SettlesUpTo
      <4> QED
        BY <4>2, <4>3
    <3>4. \A m \in 0 .. k :
            g[m] = IF m = 0 THEN w ELSE cancelTransfer(g[m - 1], offers[m], NoFaults)
      <4> TAKE m \in 0 .. k
      <4>1. CASE m = k
        <5>1. g[k] = last /\ k - 1 \in 0 .. k - 1
          BY <2>2, <2>4
        <5>2. g[k - 1] = f[k - 1]
          BY <3>3, <5>1
        <5> QED
          BY <2>4, <4>1, <5>1, <5>2
      <4>2. CASE m # k
        <5>1. m \in 0 .. k - 1 /\ (m # 0 => m - 1 \in 0 .. k - 1)
          BY <2>2, <4>2
        <5>2. m # 0 => g[m - 1] = f[m - 1]
          BY <3>3, <5>1
        <5> HIDE DEF g
        <5> QED
          BY <3>3, <5>1, <5>2
      <4> QED
        BY <4>1, <4>2
    <3>5. SettlesUpTo(g, w, offers, k)
      <4> DEFINE h == [m \in 0 .. k |->
                 IF m = 0 THEN w ELSE cancelTransfer(g[m - 1], offers[m], NoFaults)]
      <4>1. g = h
        BY <3>4
      <4> QED
        BY <4>1 DEF SettlesUpTo
    <3> QED
      BY <2>2, <3>5
  <2> QED
    BY <2>3, <2>4
<1> QED
  BY <1>1

\* A set of offers as a list.
LEMMA ListOfSome ==
  ASSUME NEW S \in SUBSET Transfers
  PROVE  /\ Len(SetToSeq(S)) \in Nat
         /\ \A i \in 1 .. Len(SetToSeq(S)) : SetToSeq(S)[i] \in S
<1>1. IsFiniteSet(S)
  BY WorldAssumption, FS_Subset
<1>2. Cardinality(S) \in Nat /\ ExistsBijection(1 .. Cardinality(S), S)
  BY <1>1, FS_CardinalityType
<1>3. PICK g \in [1 .. Cardinality(S) -> S] : IsInjective(g)
  BY <1>2 DEF ExistsBijection, Bijection, Injection, IsInjective
<1>4. SetToSeq(S) \in [1 .. Cardinality(S) -> S]
  BY <1>3 DEF SetToSeq
<1>5. Len(SetToSeq(S)) = Cardinality(S)
  BY <1>2, <1>4
<1> QED
  BY <1>2, <1>4, <1>5

\* All the offers made in a conversation are cancelled.
LEMMA QuietOffers ==
  ASSUME NEW w, Shape(w), NEW c
  PROVE  Quiet(cancelInConversationTransfersForConversation(w, c), w)
<1> DEFINE S == {t \in Transfers : /\ w.transfers[t].status # "absent"
                                   /\ w.transfers[t].conversation_id = c}
           offers == SetToSeq(S)
           F == CHOOSE f : SettlesUpTo(f, w, offers, Len(offers))
<1>1. Len(offers) \in Nat /\ \A i \in 1 .. Len(offers) : offers[i] \in Transfers
  <2>1. S \in SUBSET Transfers
    OBVIOUS
  <2> HIDE DEF S
  <2> QED
    BY <2>1, ListOfSome
<1>2. SettlesUpTo(F, w, offers, Len(offers))
  BY <1>1, SettlesDefined, Zenon
<1>3. cancelInConversationTransfersForConversation(w, c) = F[Len(offers)]
  BY Zenon DEF cancelInConversationTransfersForConversation, SettlesUpTo
<1> HIDE DEF F, offers, S
<1> DEFINE bad == {n \in 0 .. Len(offers) : ~Quiet(F[n], w)}
<1>4. bad = {}
  <2> SUFFICES ASSUME bad # {} PROVE FALSE
    OBVIOUS
  <2>1. PICK n \in bad : \A k \in bad : n <= k
    <3>1. bad \in SUBSET Nat
      OBVIOUS
    <3> HIDE DEF bad
    <3> QED
      BY <3>1, LeastOf
  <2>2. n \in Nat /\ n <= Len(offers) /\ n \in 0 .. Len(offers) /\ ~Quiet(F[n], w)
    BY <1>1
  <2>3. F[n] = IF n = 0 THEN w ELSE cancelTransfer(F[n - 1], offers[n], NoFaults)
    BY <1>2, <2>2, Zenon DEF SettlesUpTo
  <2>4. CASE n = 0
    BY <2>2, <2>3, <2>4, QuietSelf
  <2>5. CASE n # 0
    <3>1. n - 1 \in 0 .. Len(offers) /\ n - 1 \notin bad /\ offers[n] \in Transfers
      BY <1>1, <2>1, <2>2, <2>5
    <3>2. Quiet(F[n - 1], w)
      BY <3>1
    <3>3. Quiet(cancelTransfer(F[n - 1], offers[n], NoFaults), F[n - 1])
      BY <3>1, <3>2, QuietCancelTransfer DEF Quiet
    <3> QED
      BY <2>2, <2>3, <2>5, <3>2, <3>3, QuietTwice
  <2> QED
    BY <2>4, <2>5
<1>5. Len(offers) \in 0 .. Len(offers)
  BY <1>1
<1> QED
  BY <1>3, <1>4, <1>5

(***************************************************************************)
(* Leaving.                                                                *)
(***************************************************************************)

\* An agent goes on as it did, or is idle after a conversation; none is invited.
Fades(u, w) ==
  \A a \in Agents :
    /\ u.agents[a].pending_conversation_id
         \in {None, w.agents[a].pending_conversation_id}
    /\ \/ /\ u.agents[a].state = w.agents[a].state
          /\ u.agents[a].current_conversation_id = w.agents[a].current_conversation_id
       \/ /\ u.agents[a].state = "idle" /\ w.agents[a].state = "in_conversation"
          /\ u.agents[a].current_conversation_id = None

SameRunning(u, w) == \A c \in Conversations : IsRunning(u, c) <=> IsRunning(w, c)

\* A quiet step frees nobody and ends nothing.
LEMMA QuietFades ==
  ASSUME NEW w, NEW u, Quiet(u, w)
  PROVE  Fades(u, w) /\ SameRunning(u, w)
BY DEF Quiet, SameAgent, SameLists, Fades, SameRunning, IsRunning

\* Two steps that only free agents are one.
LEMMA FadesTwice ==
  ASSUME NEW w, NEW v, Fades(v, w), NEW u, Fades(u, v)
  PROVE  Fades(u, w)
BY DEF Fades

\* Conversations that run still run after a second step.
LEMMA RunningTwice ==
  ASSUME NEW w, NEW v, SameRunning(v, w), NEW u, SameRunning(u, v)
  PROVE  SameRunning(u, w)
BY DEF SameRunning

\* What is excused of some is excused of more.
LEMMA SoundMore ==
  ASSUME NEW w, NEW X, Sound(w, X), NEW Y, X \subseteq Y
  PROVE  Sound(w, Y)
BY DEF Sound

\* Reminders begin for S, and other activities go on.
LEMMA RemindersOfS ==
  ASSUME NEW w, Shape(w), NEW S \in SUBSET Agents
  PROVE  /\ Shape(startIdleReminders(w, S))
         /\ startIdleReminders(w, S).agents = w.agents
         /\ startIdleReminders(w, S).conversations = w.conversations
         /\ \A a \in Agents :
              /\ WT(a) \in startIdleReminders(w, S).timers <=> WT(a) \in w.timers
              /\ IR(a) \in startIdleReminders(w, S).timers
                   <=> IR(a) \in w.timers \/ a \in S
         /\ \A x \in startIdleReminders(w, S).timers :
              x.type \in TalkTypes => x \in w.timers
<1> DEFINE T == {x \in w.timers : ~(x.type = "idle_reminder" /\ x.agent_ids \cap S # {})}
                  \cup {IR(a) : a \in S}
           u == startIdleReminders(w, S)
<1>1. u = [w EXCEPT !.timers = T]
  BY DEF startIdleReminders, IR
<1>2. OwnTimers(T)
  BY OwnFacts DEF OwnTimers, Shape
<1>3. ASSUME NEW a \in Agents
      PROVE  /\ WT(a) \in T <=> WT(a) \in w.timers
             /\ IR(a) \in T <=> IR(a) \in w.timers \/ a \in S
  BY OwnFacts
<1>5. \A x \in T : x.type \in TalkTypes => x \in w.timers
  BY OwnFacts DEF TalkTypes
<1> HIDE DEF T
<1>4. /\ Shape(u) /\ u.agents = w.agents /\ u.conversations = w.conversations
      /\ u.timers = T
  BY <1>1, <1>2 DEF Shape
<1> QED
  BY <1>3, <1>4, <1>5

Free(id, c) == IF id = c THEN None ELSE id

\* What cleanupParticipants does to the agents S of conversation c.
Cleaned(u, w, c, S) ==
  /\ Shape(u) /\ u.conversations = w.conversations
  /\ \A a \in Agents \ S : u.agents[a] = w.agents[a]
  /\ \A a \in S :
       LET g == u.agents[a]
           h == w.agents[a]
       IN  /\ g.pending_conversation_id = Free(h.pending_conversation_id, c)
           /\ g.current_conversation_id = Free(h.current_conversation_id, c)
           /\ g.announced = h.announced
           /\ g.state = IF h.current_conversation_id = c /\ h.state = "in_conversation"
                        THEN "idle" ELSE h.state
  /\ \A a \in Agents :
       /\ WT(a) \in u.timers <=> WT(a) \in w.timers
       /\ IR(a) \in u.timers =>
            \/ IR(a) \in w.timers
            \/ /\ a \in S /\ w.agents[a].current_conversation_id = c
               /\ w.agents[a].state = "in_conversation"
  /\ \A x \in u.timers : x.type \in TalkTypes => x \in w.timers

\* cleanupParticipants frees its agents and does nothing else.
LEMMA CleanupIs ==
  ASSUME NEW w, Shape(w), NEW c \in Conversations, NEW S \in SUBSET Agents, NEW reminded
  PROVE  Cleaned(cleanupParticipants(w, c, S, reminded), w, c, S)
<1> DEFINE leaving == {a \in S : /\ w.agents[a].current_conversation_id = c
                                 /\ w.agents[a].state = "in_conversation"}
           woken == IF reminded THEN leaving ELSE {}
           cleaned(a) ==
             [w.agents[a] EXCEPT
                !.pending_conversation_id = Free(@, c),
                !.current_conversation_id = Free(@, c),
                !.state = IF a \in leaving THEN "idle" ELSE @,
                !.last_action_id = IF a \in leaving THEN None ELSE @]
           A == [a \in Agents |-> IF a \in S THEN cleaned(a) ELSE w.agents[a]]
           v == [w EXCEPT !.agents = A]
<1>1. cleanupParticipants(w, c, S, reminded) = startIdleReminders(v, woken)
  BY DEF cleanupParticipants, Free
<1>2. \A a \in Agents : w.agents[a] \in AgentRecord
  BY DEF Shape
<1>3. ASSUME NEW a \in S
      PROVE  /\ cleaned(a) \in AgentRecord
             /\ cleaned(a).pending_conversation_id
                  = Free(w.agents[a].pending_conversation_id, c)
             /\ cleaned(a).current_conversation_id
                  = Free(w.agents[a].current_conversation_id, c)
             /\ cleaned(a).announced = w.agents[a].announced
             /\ cleaned(a).state = IF a \in leaving THEN "idle" ELSE w.agents[a].state
  <2>1. w.agents[a] \in AgentRecord
    BY <1>2
  <2>2. /\ Free(w.agents[a].pending_conversation_id, c) \in Conversations \cup {None}
        /\ Free(w.agents[a].current_conversation_id, c) \in Conversations \cup {None}
    BY <2>1 DEF AgentRecord, Free
  <2> QED
    BY <2>1, <2>2, ZenonT(40) DEF AgentRecord
<1>4. woken \in SUBSET Agents /\ \A a \in woken : a \in leaving
  OBVIOUS
<1>5. A \in [Agents -> AgentRecord]
  <2> HIDE DEF cleaned
  <2> QED
    BY <1>2, <1>3
<1>6. \A a \in S : A[a] = cleaned(a)
  OBVIOUS
<1>7. \A a \in Agents \ S : A[a] = w.agents[a]
  OBVIOUS
<1> HIDE DEF A, cleaned, woken
<1>8. /\ Shape(v) /\ v.agents = A /\ v.conversations = w.conversations
      /\ v.timers = w.timers
  BY <1>5 DEF Shape
<1> HIDE DEF v
<1>9. /\ Shape(startIdleReminders(v, woken))
      /\ startIdleReminders(v, woken).agents = v.agents
      /\ startIdleReminders(v, woken).conversations = v.conversations
      /\ \A a \in Agents :
           /\ WT(a) \in startIdleReminders(v, woken).timers <=> WT(a) \in v.timers
           /\ IR(a) \in startIdleReminders(v, woken).timers
                <=> IR(a) \in v.timers \/ a \in woken
      /\ \A x \in startIdleReminders(v, woken).timers :
           x.type \in TalkTypes => x \in v.timers
  BY <1>4, <1>8, RemindersOfS
<1> QED
  BY <1>1, <1>3, <1>4, <1>6, <1>7, <1>8, <1>9 DEF Cleaned

\* A step after which the world is sound but for the agents Y.
Goes(u, w, Y) == Sound(u, Y) /\ Fades(u, w) /\ SameRunning(u, w)

\* Whoever is out of the lists of a conversation is cleaned up after it.
LEMMA CleanupSound ==
  ASSUME NEW w, NEW X, Sound(w, X), NEW c \in Conversations,
         NEW S \in SUBSET Agents, NEW reminded,
         w.conversations[c].status # "pending",
         IsRunning(w, c) => S \cap Everyone(w.conversations[c]) = {},
         \A a \in X \cap S : w.agents[a].current_conversation_id = c
  PROVE  /\ Goes(cleanupParticipants(w, c, S, reminded), w, X \ S)
         /\ cleanupParticipants(w, c, S, reminded).conversations = w.conversations
         /\ \A a \in S : cleanupParticipants(w, c, S, reminded).agents[a]
                           .current_conversation_id # c
<1> DEFINE u == cleanupParticipants(w, c, S, reminded)
<1>1. Cleaned(u, w, c, S)
  BY CleanupIs DEF Sound
<1> HIDE DEF u
<1>2. Shape(u) /\ Shape(w) /\ u.conversations = w.conversations /\ None \notin Conversations
  BY <1>1, ConversationAssumption DEF Cleaned, Sound
<1>3. \A a \in Agents : w.agents[a] \in AgentRecord /\ u.agents[a] \in AgentRecord
  BY <1>2 DEF Shape
<1>4. ASSUME NEW a \in Agents
      PROVE  /\ InState(u, a)
             /\ \/ /\ u.agents[a].state = w.agents[a].state
                   /\ u.agents[a].current_conversation_id
                        = w.agents[a].current_conversation_id
                \/ /\ a \in S /\ w.agents[a].current_conversation_id = c
                   /\ u.agents[a].state = "idle"
                   /\ w.agents[a].state = "in_conversation"
                   /\ u.agents[a].current_conversation_id = None
             /\ \/ u.agents[a].pending_conversation_id
                     = w.agents[a].pending_conversation_id
                \/ /\ u.agents[a].pending_conversation_id = None
                   /\ w.agents[a].pending_conversation_id = c
             /\ a \in S => u.agents[a].current_conversation_id # c
             /\ u.agents[a].announced = w.agents[a].announced
  <2>1. InState(w, a)
    BY DEF Sound
  <2>2. /\ WT(a) \in u.timers <=> WT(a) \in w.timers
        /\ IR(a) \in u.timers =>
             \/ IR(a) \in w.timers
             \/ /\ a \in S /\ w.agents[a].current_conversation_id = c
                /\ w.agents[a].state = "in_conversation"
    BY <1>1 DEF Cleaned
  <2>3. CASE a \notin S
    <3>1. u.agents[a] = w.agents[a]
      BY <1>1, <2>3 DEF Cleaned
    <3> QED
      BY <2>1, <2>2, <2>3, <3>1 DEF InState
  <2>4. CASE a \in S
    <3>1. /\ u.agents[a].pending_conversation_id
               = Free(w.agents[a].pending_conversation_id, c)
          /\ u.agents[a].current_conversation_id
               = Free(w.agents[a].current_conversation_id, c)
          /\ u.agents[a].announced = w.agents[a].announced
          /\ u.agents[a].state
               = IF /\ w.agents[a].current_conversation_id = c
                    /\ w.agents[a].state = "in_conversation"
                 THEN "idle" ELSE w.agents[a].state
      BY <1>1, <2>4, Zenon DEF Cleaned
    <3>2. CASE w.agents[a].current_conversation_id = c
      <4>1. w.agents[a].state = "in_conversation" /\ WT(a) \notin w.timers
            /\ w.agents[a].pending_conversation_id = None
        BY <1>2, <2>1, <3>2 DEF InState
      <4>2. /\ u.agents[a].state = "idle" /\ u.agents[a].current_conversation_id = None
            /\ u.agents[a].pending_conversation_id = None
        BY <3>1, <3>2, <4>1 DEF Free
      <4> QED
        BY <1>2, <2>2, <2>4, <3>1, <3>2, <4>1, <4>2 DEF InState
    <3>3. CASE w.agents[a].current_conversation_id # c
      <4>1. /\ u.agents[a].state = w.agents[a].state
            /\ u.agents[a].current_conversation_id
                 = w.agents[a].current_conversation_id
        BY <3>1, <3>3 DEF Free
      <4>2. \/ u.agents[a].pending_conversation_id = w.agents[a].pending_conversation_id
            \/ /\ u.agents[a].pending_conversation_id = None
               /\ w.agents[a].pending_conversation_id = c
        BY <3>1 DEF Free
      <4> QED
        BY <2>1, <2>2, <3>1, <3>3, <4>1, <4>2 DEF InState
    <3> QED
      BY <3>2, <3>3
  <2> QED
    BY <2>3, <2>4
<1>5. \A d \in Conversations :
        w.conversations[d].status = "pending" => d # c /\ Invites(u, d)
  <2> TAKE d \in Conversations
  <2> SUFFICES ASSUME w.conversations[d].status = "pending"
               PROVE  d # c /\ Invites(u, d)
    OBVIOUS
  <2>1. Invites(w, d) /\ d # c
    BY DEF Sound
  <2>2. PICK i \in Agents, t \in Agents :
          LET v == w.conversations[d]
          IN  /\ v.initiator = i /\ v.participants = <<i, t>> /\ v.joiners = <<>>
              /\ w.agents[i].pending_conversation_id = d
              /\ w.agents[t].pending_conversation_id = d
              /\ w.agents[i].state = "idle"
    BY <2>1 DEF Invites
  <2>3. /\ u.agents[i].pending_conversation_id = d
        /\ u.agents[t].pending_conversation_id = d
        /\ u.agents[i].state = "idle"
    BY <1>4, <2>1, <2>2
  <2> QED
    BY <1>2, <2>1, <2>2, <2>3 DEF Invites
<1>6. ASSUME NEW d \in Conversations, IsRunning(w, d)
      PROVE  Lists(u, d)
  <2>1. Lists(w, d) /\ Everyone(w.conversations[d]) \subseteq Agents
    BY <1>2, <1>6, EveryoneAgents DEF Sound
  <2>2. ASSUME NEW a \in Everyone(w.conversations[d])
        PROVE  u.agents[a].current_conversation_id = d
    <3>1. a \in Agents /\ w.agents[a].current_conversation_id = d
      BY <2>1 DEF Lists
    <3>2. ~(a \in S /\ d = c)
      BY <1>6
    <3> QED
      BY <1>4, <3>1, <3>2
  <2> QED
    BY <1>2, <2>1, <2>2 DEF Lists
<1>7. ASSUME NEW a \in Agents \ (X \ S)
      PROVE  Placed(u, a) /\ (Announcements = {} => Marked(u, a))
  <2>1. CASE a \in X
    <3>1. a \in S /\ w.agents[a].current_conversation_id = c
      BY <2>1
    <3>2. u.agents[a].current_conversation_id = None
      BY <1>2, <1>4, <3>1
    <3>3. u.agents[a].pending_conversation_id = None
      <4>1. InState(w, a)
        BY DEF Sound
      <4>2. w.agents[a].pending_conversation_id = None
        BY <1>2, <3>1, <4>1 DEF InState
      <4> QED
        BY <1>4, <4>2
    <3> QED
      BY <3>2, <3>3 DEF Placed, Marked
  <2>2. CASE a \notin X
    <3>1. Placed(w, a) /\ (Announcements = {} => Marked(w, a))
      BY <2>2 DEF Sound
    <3>2. Placed(u, a)
      BY <1>2, <1>4, <3>1 DEF Placed, IsRunning
    <3>3. Announcements = {} => Marked(u, a)
      BY <1>2, <1>4, <3>1 DEF Marked
    <3> QED
      BY <3>2, <3>3
  <2> QED
    BY <2>1, <2>2
<1>8. Announcements = {} => \A a \in Agents : u.agents[a].announced = FALSE
  BY <1>4 DEF Sound
<1>9. Sound(u, X \ S)
  <2>1. \A a \in Agents : InState(u, a)
    BY <1>4
  <2>2. \A d \in Conversations :
          /\ u.conversations[d].status = "pending" => Invites(u, d)
          /\ IsRunning(u, d) => Lists(u, d)
    BY <1>2, <1>5, <1>6 DEF IsRunning
  <2>3. \A d \in Conversations : IsRunning(u, d) \/ Untimed(u, d)
    <3>1. \A x \in u.timers : x.type \in TalkTypes => x \in w.timers
      BY <1>1 DEF Cleaned
    <3>2. \A d \in Conversations : IsRunning(w, d) \/ Untimed(w, d)
      BY DEF Sound
    <3> QED
      BY <1>2, <3>1, <3>2 DEF IsRunning, Untimed
  <2> QED
    BY <1>2, <1>7, <1>8, <2>1, <2>2, <2>3 DEF Sound
<1>10. Fades(u, w) /\ SameRunning(u, w)
  BY <1>2, <1>4 DEF Fades, SameRunning, IsRunning
<1>11. u.conversations = w.conversations
       /\ \A a \in S : u.agents[a].current_conversation_id # c
  BY <1>2, <1>4
<1> QED
  BY <1>9, <1>10, <1>11 DEF u, Goes

\* One conversation's record is replaced.
LEMMA PutConversation ==
  ASSUME NEW w, Shape(w), NEW c \in Conversations, NEW v, IsConversation(v)
  PROVE  /\ Shape([w EXCEPT !.conversations[c] = v])
         /\ [w EXCEPT !.conversations[c] = v].agents = w.agents
         /\ [w EXCEPT !.conversations[c] = v].timers = w.timers
         /\ [w EXCEPT !.conversations[c] = v].conversations[c] = v
         /\ \A d \in Conversations \ {c} :
              [w EXCEPT !.conversations[c] = v].conversations[d] = w.conversations[d]
<1> DEFINE C == [w.conversations EXCEPT ![c] = v]
           u == [w EXCEPT !.conversations[c] = v]
<1>1. /\ C = [d \in Conversations |-> C[d]] /\ C[c] = v
      /\ \A d \in Conversations : C[d] = IF d = c THEN v ELSE w.conversations[d]
  BY DEF Shape
<1> HIDE DEF C
<1>2. u = [w EXCEPT !.conversations = C]
  BY DEF Shape, C
<1>3. /\ u.agents = w.agents /\ u.transfers = w.transfers /\ u.timers = w.timers
      /\ u.conversations = C
      /\ u = [ agents |-> u.agents, purses |-> u.purses, transfers |-> u.transfers,
           announcements |-> u.announcements, timers |-> u.timers,
           registrations |-> u.registrations, conversations |-> u.conversations ]
  BY <1>2 DEF Shape
<1> HIDE DEF u
<1>4. Shape(u)
  BY <1>1, <1>3 DEF Shape
<1>5. u.conversations[c] = v
      /\ \A d \in Conversations \ {c} : u.conversations[d] = w.conversations[d]
  BY <1>1, <1>3
<1>6. u.agents = w.agents /\ u.timers = w.timers
  BY <1>3
<1> QED
  BY <1>4, <1>5, <1>6 DEF u

\* The lists of a conversation that may run.
Fit(v) ==
  /\ Distinct(v.participants) /\ Distinct(v.joiners)
  /\ ToSet(v.participants) \cap ToSet(v.joiners) = {}
  /\ Len(v.participants) + Len(v.joiners) <= MaxParticipants

Runs(v) == v.status \in {"active", "closing"}

\* v takes the place of old; the agents that are in it no more are among Y.
Follows(v, old, Y) ==
  /\ IsConversation(v) /\ v.status # "pending"
  /\ Runs(v) => Fit(v) /\ Everyone(v) \subseteq Everyone(old)
  /\ \A a \in Everyone(old) \ Y : Runs(v) /\ a \in Everyone(v)

\* A record of c that does not run may be put when no turn is timed.
MayPut(w, c, v) == Runs(v) \/ Untimed(w, c)

\* The record of a running conversation changes, or ends.
LEMMA ListsChange ==
  ASSUME NEW w, NEW X, Sound(w, X), NEW c \in Conversations, IsRunning(w, c),
         NEW Y, X \subseteq Y, NEW v, Follows(v, w.conversations[c], Y),
         MayPut(w, c, v)
  PROVE  /\ Sound([w EXCEPT !.conversations[c] = v], Y)
         /\ Fades([w EXCEPT !.conversations[c] = v], w)
         /\ [w EXCEPT !.conversations[c] = v].agents = w.agents
         /\ [w EXCEPT !.conversations[c] = v].conversations[c] = v
         /\ Runs(v) => SameRunning([w EXCEPT !.conversations[c] = v], w)
<1> DEFINE u == [w EXCEPT !.conversations[c] = v]
<1>0. Shape(w) /\ IsConversation(v)
  BY DEF Sound, Follows
<1>1. /\ Shape(u) /\ u.agents = w.agents /\ u.timers = w.timers
      /\ u.conversations[c] = v
      /\ \A d \in Conversations \ {c} : u.conversations[d] = w.conversations[d]
  BY <1>0, PutConversation
<1> HIDE DEF u
<1>2. \A a \in Agents : w.agents[a] \in AgentRecord
  BY <1>0 DEF Shape
<1>3. Lists(w, c)
  BY DEF Sound
<1>4. ASSUME NEW d \in Conversations
      PROVE  /\ u.conversations[d].status = "pending" => Invites(u, d)
             /\ IsRunning(u, d) => Lists(u, d)
             /\ IsRunning(u, d) \/ Untimed(u, d)
  <2>1. CASE d = c
    <3>1. v.status # "pending"
      BY DEF Follows
    <3>2. ASSUME IsRunning(u, c) PROVE Lists(u, c)
      <4>1. Fit(v) /\ Everyone(v) \subseteq Everyone(w.conversations[c])
        BY <1>1, <3>2 DEF Follows, IsRunning, Runs
      <4> QED
        BY <1>1, <1>3, <4>1 DEF Fit, Lists
    <3>3. IsRunning(u, c) \/ Untimed(u, c)
      BY <1>1 DEF Runs, IsRunning, Untimed, MayPut
    <3> QED
      BY <1>1, <2>1, <3>1, <3>2, <3>3
  <2>2. CASE d # c
    <3>1. u.conversations[d] = w.conversations[d]
      BY <1>1, <2>2
    <3>2. /\ w.conversations[d].status = "pending" => Invites(w, d)
          /\ IsRunning(w, d) => Lists(w, d)
      BY DEF Sound
    <3>3. w.conversations[d].status = "pending" => Invites(u, d)
      BY <1>1, <3>1, <3>2 DEF Invites
    <3>4. IsRunning(w, d) => Lists(u, d)
      BY <1>1, <3>1, <3>2 DEF Lists
    <3>5. IsRunning(w, d) \/ Untimed(u, d)
      BY <1>1 DEF Sound, Untimed
    <3> QED
      BY <3>1, <3>3, <3>4, <3>5 DEF IsRunning
  <2> QED
    BY <2>1, <2>2
<1>5. ASSUME NEW a \in Agents \ Y
      PROVE  Placed(u, a) /\ (Announcements = {} => Marked(u, a))
  <2>1. Placed(w, a) /\ (Announcements = {} => Marked(w, a))
    BY DEF Sound
  <2>2. Placed(u, a)
    <3> DEFINE d == w.agents[a].current_conversation_id
    <3>1. d = None \/ d \in Conversations
      BY <1>2 DEF AgentRecord
    <3>2. CASE d = None
      BY <1>1, <3>2 DEF Placed
    <3>3. CASE d = c /\ d # None
      <4>1. a \in Everyone(w.conversations[c])
        BY <2>1, <3>3 DEF Placed
      <4>2. Runs(v) /\ a \in Everyone(v)
        BY <4>1 DEF Follows
      <4> QED
        BY <1>1, <3>3, <4>2 DEF Placed, IsRunning, Runs
    <3>4. CASE d \in Conversations \ {c}
      BY <1>1, <2>1, <3>4 DEF Placed, IsRunning
    <3> QED
      BY <3>1, <3>2, <3>3, <3>4
  <2>3. ASSUME Announcements = {} PROVE Marked(u, a)
    <3> DEFINE d == w.agents[a].pending_conversation_id
    <3>1. d = None \/ d \in Conversations
      BY <1>2 DEF AgentRecord
    <3>2. d # None => w.conversations[d].status = "pending"
      BY <2>1, <2>3 DEF Marked
    <3>3. d # None => d \in Conversations \ {c}
      BY <3>1, <3>2 DEF IsRunning
    <3> QED
      BY <1>1, <2>1, <2>3, <3>3 DEF Marked
  <2> QED
    BY <2>2, <2>3
<1>6. \A a \in Agents : InState(u, a)
  BY <1>1 DEF Sound, InState
<1>7. Sound(u, Y)
  BY <1>1, <1>4, <1>5, <1>6 DEF Sound
<1>8. Fades(u, w)
  BY <1>1 DEF Fades
<1>9. Runs(v) => SameRunning(u, w)
  BY <1>1 DEF SameRunning, IsRunning, Runs
<1> QED
  BY <1>1, <1>7, <1>8, <1>9 DEF u

\* Steps one after the other; the agents excused are those of the last.
LEMMA GoesTwice ==
  ASSUME NEW w, NEW v, NEW X, Goes(v, w, X), NEW u, NEW Y, Goes(u, v, Y)
  PROVE  Goes(u, w, Y)
BY FadesTwice, RunningTwice DEF Goes

\* A quiet step keeps the world sound.
LEMMA QuietGoes ==
  ASSUME NEW w, NEW X, Sound(w, X), NEW u, Quiet(u, w)
  PROVE  Goes(u, w, X)
BY QuietSound, QuietFades DEF Goes

\* A turn or an interval of a running conversation begins.
LEMMA CreateGoes ==
  ASSUME NEW w, NEW X, Sound(w, X), NEW c \in Conversations, IsRunning(w, c),
         NEW type \in TalkTypes, NEW ids, NEW about, about.conversation = c
  PROVE  Goes(create(w, Timer(type, ids, about)), w, X)
<1> DEFINE timer == Timer(type, ids, about)
           x == [timer EXCEPT !.twin = timer \in w.timers]
           T == w.timers \cup {x}
           u == create(w, timer)
<1>1. x.type = type /\ x.about = about
  BY DEF Timer
<1>2. u = [w EXCEPT !.timers = T]
  BY DEF create, Sound, Shape
<1> HIDE DEF x, timer
<1>3. OwnTimers(T) /\ \A a \in Agents : /\ WT(a) \in T <=> WT(a) \in w.timers
                                        /\ IR(a) \in T <=> IR(a) \in w.timers
  <2>1. x.type \notin {"wait", "idle_reminder", "action", "item_use"}
    BY <1>1 DEF TalkTypes
  <2>2. \A a \in Agents : x # WT(a) /\ x # IR(a)
    BY <2>1, OwnFacts
  <2>3. OwnTimers(w.timers)
    BY DEF Sound, Shape
  <2> QED
    BY <2>1, <2>2, <2>3 DEF OwnTimers
<1>4. \A d \in Conversations : IsRunning(w, d) \/ Untimed(w, d)
  BY DEF Sound
<1>5. \A d \in Conversations :
        IsRunning(w, d) \/ \A y \in T : y.type \in TalkTypes => y.about.conversation # d
  BY <1>1, <1>4 DEF Untimed
<1> HIDE DEF T
<1>6. /\ Shape(u) /\ u.agents = w.agents /\ u.conversations = w.conversations
      /\ u.timers = T
  BY <1>2, <1>3 DEF Sound, Shape
<1> HIDE DEF u
<1>7. \A a \in Agents : InState(u, a)
  BY <1>3, <1>6 DEF Sound, InState
<1>8. \A d \in Conversations :
        /\ u.conversations[d].status = "pending" => Invites(u, d)
        /\ IsRunning(u, d) => Lists(u, d)
        /\ IsRunning(u, d) \/ Untimed(u, d)
  <2> TAKE d \in Conversations
  <2>1. /\ w.conversations[d].status = "pending" => Invites(w, d)
        /\ IsRunning(w, d) => Lists(w, d)
    BY DEF Sound
  <2>2. w.conversations[d].status = "pending" => Invites(u, d)
    BY <1>6, <2>1 DEF Invites
  <2>3. IsRunning(w, d) => Lists(u, d)
    BY <1>6, <2>1 DEF Lists
  <2>4. IsRunning(w, d) \/ Untimed(u, d)
    BY <1>5, <1>6 DEF Untimed
  <2> QED
    BY <1>6, <2>2, <2>3, <2>4 DEF IsRunning
<1>9. \A a \in Agents \ X : Placed(u, a) /\ (Announcements = {} => Marked(u, a))
  BY <1>6 DEF Sound, Placed, Marked, IsRunning
<1>10. Sound(u, X)
  BY <1>6, <1>7, <1>8, <1>9 DEF Sound
<1>11. Fades(u, w) /\ SameRunning(u, w)
  BY <1>6 DEF Fades, SameRunning, IsRunning
<1> QED
  BY <1>10, <1>11 DEF Goes, u, timer

\* A running conversation may time a turn or an interval.
LEMMA ScheduleGoes ==
  ASSUME NEW w, NEW X, Sound(w, X), NEW c \in Conversations, IsRunning(w, c)
  PROVE  /\ \A speaker : Goes(scheduleTurnTimer(w, c, speaker), w, X)
         /\ \A speaker, next : Goes(createIntervalTimer(w, c, speaker, next), w, X)
<1>1. ASSUME NEW speaker PROVE Goes(scheduleTurnTimer(w, c, speaker), w, X)
  <2> DEFINE v == [w.conversations[c] EXCEPT !.current_speaker = speaker]
             u == [w EXCEPT !.conversations[c] = v]
             ids == Members(w.conversations[c])
             about == About(c, speaker, None, 0)
  <2>0. IsConversation(w.conversations[c]) /\ Shape(w)
    BY DEF Sound, Shape
  <2>1. IsConversation(v) /\ SameLists(v, w.conversations[c])
    <3> DEFINE old == w.conversations[c]
    <3>1. v = [old EXCEPT !.current_speaker = speaker] /\ IsConversation(old)
      BY <2>0
    <3> HIDE DEF v, old
    <3>2. IsConversation(v) /\ SameLists(v, old)
      BY <3>1 DEF IsConversation, SameLists
    <3> QED
      BY <3>2 DEF old
  <2>2. scheduleTurnTimer(w, c, speaker)
          = create(u, Timer("conversation_turn", ids, about))
    BY DEF scheduleTurnTimer
  <2> HIDE DEF v
  <2>3. Quiet(u, w)
    BY <2>0, <2>1, SetConversation
  <2> HIDE DEF u, ids
  <2>4. Goes(u, w, X)
    BY <2>3, QuietGoes
  <2>5. Sound(u, X) /\ IsRunning(u, c)
    BY <2>4 DEF Goes, SameRunning
  <2>6. about.conversation = c /\ "conversation_turn" \in TalkTypes
    BY DEF About, TalkTypes
  <2> HIDE DEF about
  <2>7. Goes(create(u, Timer("conversation_turn", ids, about)), u, X)
    BY <2>5, <2>6, CreateGoes
  <2> QED
    BY <2>2, <2>4, <2>7, GoesTwice
<1>2. ASSUME NEW speaker, NEW next
      PROVE  Goes(createIntervalTimer(w, c, speaker, next), w, X)
  <2> DEFINE ids == Members(w.conversations[c])
             about == About(c, speaker, next, w.conversations[c].current_turn)
  <2>1. createIntervalTimer(w, c, speaker, next)
          = create(w, Timer("conversation_interval", ids, about))
    BY DEF createIntervalTimer
  <2>2. about.conversation = c /\ "conversation_interval" \in TalkTypes
    BY DEF About, TalkTypes
  <2> HIDE DEF about, ids
  <2> QED
    BY <2>1, <2>2, CreateGoes
<1> QED
  BY <1>1, <1>2

\* The record of a conversation whose turn is not timed is taken away.
LEMMA RecordGoes ==
  ASSUME NEW w, NEW X, Sound(w, X), NEW c \in Conversations, IsRunning(w, c),
         Untimed(w, c), NEW Y, X \subseteq Y,
         Follows(NoConversation, w.conversations[c], Y)
  PROVE  /\ Sound([w EXCEPT !.conversations[c] = NoConversation], Y)
         /\ Fades([w EXCEPT !.conversations[c] = NoConversation], w)
         /\ [w EXCEPT !.conversations[c] = NoConversation].agents = w.agents
         /\ [w EXCEPT !.conversations[c] = NoConversation].conversations[c]
              = NoConversation
<1> DEFINE v == NoConversation
<1>1. MayPut(w, c, v)
  BY DEF MayPut
<1>2. Follows(v, w.conversations[c], Y)
  OBVIOUS
<1> HIDE DEF v
<1>3. /\ Sound([w EXCEPT !.conversations[c] = v], Y)
      /\ Fades([w EXCEPT !.conversations[c] = v], w)
      /\ [w EXCEPT !.conversations[c] = v].agents = w.agents
      /\ [w EXCEPT !.conversations[c] = v].conversations[c] = v
  BY <1>1, <1>2, ListsChange
<1> QED
  BY <1>3 DEF v

\* u is w with the record v of conversation c, and S cleaned up after.
Relisted(u, w, X, c, v, S) ==
  /\ Goes(u, w, X) /\ u.conversations[c] = v
  /\ \A a \in S : u.agents[a].current_conversation_id # c

\* Replacing a record and cleaning up after who is out of the lists by it.
LEMMA ListsGo ==
  ASSUME NEW w, NEW X, Sound(w, X), NEW c \in Conversations, IsRunning(w, c),
         NEW S \in SUBSET Agents, NEW v, Follows(v, w.conversations[c], X \cup S),
         Runs(v), S \cap Everyone(v) = {},
         \A a \in (X \cap S) \cup (S \ Everyone(w.conversations[c])) :
           w.agents[a].current_conversation_id = c \/ a \notin X,
         NEW reminded
  PROVE  Relisted(cleanupParticipants([w EXCEPT !.conversations[c] = v], c, S, reminded),
                  w, X, c, v, S)
<1> DEFINE S1 == S \cap (Everyone(w.conversations[c]) \cup X)
           w1 == [w EXCEPT !.conversations[c] = v]
           u == cleanupParticipants(w1, c, S, reminded)
<1>1. Lists(w, c) /\ Everyone(w.conversations[c]) \subseteq Agents
  BY EveryoneAgents DEF Sound
<1>2. Follows(v, w.conversations[c], X \cup S1)
  BY DEF Follows
<1>3. /\ Sound(w1, X \cup S1) /\ Fades(w1, w) /\ w1.agents = w.agents
      /\ w1.conversations[c] = v /\ SameRunning(w1, w)
  <2>1. MayPut(w, c, v)
    BY DEF MayPut
  <2> QED
    BY <1>2, <2>1, ListsChange
<1> HIDE DEF w1
<1>4. \A a \in (X \cup S1) \cap S : w1.agents[a].current_conversation_id = c
  BY <1>1, <1>3 DEF Lists
<1>5. w1.conversations[c].status # "pending"
  BY <1>3 DEF Follows
<1>6. S \cap Everyone(w1.conversations[c]) = {}
  BY <1>3
<1> DEFINE Y == X \cup S1
<1>7. /\ Goes(u, w1, Y \ S) /\ u.conversations = w1.conversations
      /\ \A a \in S : u.agents[a].current_conversation_id # c
  <2> HIDE DEF Y
  <2>1. Sound(w1, Y) /\ \A a \in Y \cap S : w1.agents[a].current_conversation_id = c
    BY <1>3, <1>4 DEF Y
  <2> QED
    BY <1>5, <1>6, <2>1, CleanupSound
<1> HIDE DEF u
<1>8. (X \cup S1) \ S \subseteq X
  OBVIOUS
<1>9. Sound(u, X)
  BY <1>7, <1>8, SoundMore DEF Goes
<1>10. Goes(u, w, X)
  BY <1>3, <1>7, <1>9, FadesTwice, RunningTwice DEF Goes
<1> QED
  BY <1>3, <1>7, <1>10 DEF u, w1, Relisted

\* Those that asked to join are sent away.
LEMMA DiscardGoes ==
  ASSUME NEW w, NEW X, Sound(w, X), NEW c \in Conversations, IsRunning(w, c)
  PROVE  /\ Goes(discardPendingJoiners(w, c), w, X)
         /\ discardPendingJoiners(w, c).conversations[c].participants
              = w.conversations[c].participants
         /\ discardPendingJoiners(w, c).conversations[c].joiners = <<>>
<1> DEFINE old == w.conversations[c]
           S == ToSet(old.joiners)
           v == [old EXCEPT !.joiners = <<>>]
<1>1. /\ Lists(w, c) /\ Everyone(old) \subseteq Agents /\ IsConversation(old)
      /\ S \subseteq Agents
  BY EveryoneAgents DEF Sound
<1>2. /\ v.status = old.status /\ v.participants = old.participants
      /\ v.joiners = <<>> /\ IsConversation(v)
  BY <1>1 DEF IsConversation
<1>3. /\ Len(old.participants) \in Nat /\ Len(old.joiners) \in Nat
      /\ Len(v.joiners) = 0 /\ ToSet(v.joiners) = {} /\ Distinct(v.joiners)
  BY <1>1, <1>2 DEF IsConversation, ToSet, Distinct
<1>4. discardPendingJoiners(w, c)
        = cleanupParticipants([w EXCEPT !.conversations[c] = v], c, S, TRUE)
  BY DEF discardPendingJoiners
<1> HIDE DEF v, S
<1>5. Fit(v)
  <2>1. Len(v.participants) + Len(v.joiners) <= MaxParticipants
    <3>1. Len(old.participants) + Len(old.joiners) <= MaxParticipants
      BY <1>1 DEF Lists
    <3> DEFINE n == Len(old.participants)
               m == Len(old.joiners)
    <3>2. Len(v.participants) = n /\ Len(v.joiners) = 0
      BY <1>2, <1>3
    <3>3. n \in Nat /\ m \in Nat /\ n + m <= MaxParticipants /\ MaxParticipants \in Nat
      BY <1>3, <3>1, ConversationAssumption
    <3> HIDE DEF n, m
    <3>4. n + 0 <= MaxParticipants
      BY <3>3
    <3> QED
      BY <3>2, <3>4
  <2> QED
    BY <1>1, <1>2, <1>3, <2>1 DEF Fit, Lists
<1>6. Everyone(v) = ToSet(old.participants)
  BY <1>2, <1>3 DEF Everyone
<1>7. Everyone(old) = ToSet(old.participants) \cup S
  BY DEF Everyone, S
<1>8. Runs(v) /\ v.status # "pending"
  BY <1>2 DEF Runs, IsRunning
<1>9. Follows(v, old, X \cup S)
  BY <1>2, <1>5, <1>6, <1>7, <1>8 DEF Follows
<1>10. S \cap Everyone(v) = {}
  BY <1>1, <1>6 DEF Lists, S
<1>11. \A a \in (X \cap S) \cup (S \ Everyone(old)) :
         w.agents[a].current_conversation_id = c \/ a \notin X
  BY <1>1, <1>7 DEF Lists
<1> HIDE DEF old
<1>12. Relisted(cleanupParticipants([w EXCEPT !.conversations[c] = v], c, S, TRUE),
                w, X, c, v, S)
  BY <1>1, <1>8, <1>9, <1>10, <1>11, ListsGo DEF old
<1> QED
  BY <1>2, <1>4, <1>12 DEF old, Relisted

\* A list without one of its elements.
LEMMA WithoutFacts ==
  ASSUME NEW seq \in Seq(Agents), NEW a
  PROVE  /\ Without(seq, a) \in Seq(Agents) /\ Len(Without(seq, a)) <= Len(seq)
         /\ ToSet(Without(seq, a)) = ToSet(seq) \ {a}
         /\ Distinct(seq) => Distinct(Without(seq, a))
BY KeptFacts DEF Without

\* removeParticipant takes an agent off both lists and leaves the status.
LEMMA RemovalFacts ==
  ASSUME NEW v, IsConversation(v), NEW a
  PROVE  /\ IsConversation(removeParticipant(v, a))
         /\ removeParticipant(v, a).status = v.status
         /\ removeParticipant(v, a).participants = Without(v.participants, a)
         /\ removeParticipant(v, a).joiners = Without(v.joiners, a)
<1> DEFINE v1 == [v EXCEPT !.participants = Without(@, a),
                      !.joiners = Without(@, a),
                      !.last_spoken_turns[a] = 0,
                      !.inactive = @ \ {a}]
           r == resolveResumeSpeakerAfterRemoval(v.participants, v1, a)
           v2 == IF v.resume_speaker # a THEN v1 ELSE [v1 EXCEPT !.resume_speaker = r]
           s == resolveResumeSpeaker(v2)
           u == IF v.current_speaker = a /\ s # None
                THEN [v2 EXCEPT !.current_speaker = s] ELSE v2
<1>1. removeParticipant(v, a) = u
  BY DEF removeParticipant
<1>2. /\ Without(v.participants, a) \in Seq(Agents)
      /\ Without(v.joiners, a) \in Seq(Agents)
  BY WithoutFacts DEF IsConversation
<1>3. /\ IsConversation(v1) /\ v1.status = v.status
      /\ v1.participants = Without(v.participants, a)
      /\ v1.joiners = Without(v.joiners, a)
  <2> DEFINE L == [v.last_spoken_turns EXCEPT ![a] = 0]
             I == v.inactive \ {a}
             P == Without(v.participants, a)
             J == Without(v.joiners, a)
  <2>1. v1 = [v EXCEPT !.participants = P, !.joiners = J, !.last_spoken_turns = L,
                       !.inactive = I]
    BY DEF IsConversation
  <2>2. P \in Seq(Agents) /\ J \in Seq(Agents)
    BY <1>2
  <2> HIDE DEF v1, L, I, P, J
  <2>3. IsConversation(v1) /\ v1.status = v.status /\ v1.participants = P /\ v1.joiners = J
    BY <2>1, <2>2 DEF IsConversation
  <2> QED
    BY <2>3 DEF P, J
<1> HIDE DEF v1, r
<1>4. /\ IsConversation(v2) /\ v2.status = v1.status
      /\ v2.participants = v1.participants /\ v2.joiners = v1.joiners
  <2>1. CASE v.resume_speaker # a
    BY <1>3, <2>1
  <2>2. CASE v.resume_speaker = a
    <3>1. v2 = [v1 EXCEPT !.resume_speaker = r]
      BY <2>2
    <3> QED
      BY <1>3, <3>1 DEF IsConversation
  <2> QED
    BY <2>1, <2>2
<1> HIDE DEF v2, s
<1>5. /\ IsConversation(u) /\ u.status = v2.status
      /\ u.participants = v2.participants /\ u.joiners = v2.joiners
  <2>1. CASE v.current_speaker = a /\ s # None
    <3>1. u = [v2 EXCEPT !.current_speaker = s]
      BY <2>1
    <3> QED
      BY <1>4, <3>1 DEF IsConversation
  <2>2. CASE ~(v.current_speaker = a /\ s # None)
    BY <1>4, <2>2
  <2> QED
    BY <2>1, <2>2
<1> HIDE DEF u
<1> QED
  BY <1>1, <1>3, <1>4, <1>5

\* v is what c is without a.
Removed(w, X, c, a, v) ==
  /\ Runs(v) /\ Follows(v, w.conversations[c], X \cup {a})
  /\ Everyone(v) = Everyone(w.conversations[c]) \ {a}

\* The record without an agent may take the place of the one with it.
LEMMA RemovalFollows ==
  ASSUME NEW w, NEW X, Sound(w, X), NEW c \in Conversations, IsRunning(w, c),
         NEW a \in Agents
  PROVE  Removed(w, X, c, a, removeParticipant(w.conversations[c], a))
<1> DEFINE old == w.conversations[c]
           v == removeParticipant(old, a)
<1>1. Lists(w, c) /\ Everyone(old) \subseteq Agents /\ IsConversation(old)
  BY EveryoneAgents DEF Sound
<1>2. /\ IsConversation(v) /\ v.status = old.status
      /\ v.participants = Without(old.participants, a)
      /\ v.joiners = Without(old.joiners, a)
  <2> HIDE DEF old
  <2> QED
    BY <1>1, RemovalFacts
<1> HIDE DEF v
<1>4. IsRunning(w, c) <=> Runs(old)
  BY DEF Runs, IsRunning
<1> HIDE DEF old
<1>5. /\ ToSet(v.participants) = ToSet(old.participants) \ {a}
      /\ ToSet(v.joiners) = ToSet(old.joiners) \ {a}
      /\ Len(v.participants) <= Len(old.participants)
      /\ Len(v.joiners) <= Len(old.joiners)
      /\ Distinct(old.participants) => Distinct(v.participants)
      /\ Distinct(old.joiners) => Distinct(v.joiners)
  BY <1>1, <1>2, WithoutFacts DEF IsConversation
<1>6. Distinct(old.participants) /\ Distinct(old.joiners)
      /\ ToSet(old.participants) \cap ToSet(old.joiners) = {}
      /\ Len(old.participants) + Len(old.joiners) <= MaxParticipants
  BY <1>1 DEF Lists, old
<1>7. Fit(v)
  <2>1. Len(v.participants) + Len(v.joiners) <= MaxParticipants
    <3> DEFINE n == Len(old.participants)
               m == Len(old.joiners)
               p == Len(v.participants)
               q == Len(v.joiners)
    <3>1. /\ n \in Nat /\ m \in Nat /\ p \in Nat /\ q \in Nat /\ p <= n /\ q <= m
          /\ n + m <= MaxParticipants /\ MaxParticipants \in Nat
      BY <1>1, <1>2, <1>5, <1>6, ConversationAssumption DEF IsConversation
    <3> HIDE DEF n, m, p, q
    <3>2. p + q <= MaxParticipants
      BY <3>1
    <3> QED
      BY <3>2 DEF p, q
  <2> QED
    BY <1>5, <1>6, <2>1 DEF Fit
<1>8. Everyone(v) = Everyone(old) \ {a}
  BY <1>5 DEF Everyone
<1>9. Runs(v) /\ v.status # "pending"
  BY <1>2, <1>4 DEF Runs
<1>10. Follows(v, old, X \cup {a})
  BY <1>2, <1>7, <1>8, <1>9 DEF Follows
<1> QED
  BY <1>8, <1>9, <1>10 DEF Removed, old, v

\* Of a running conversation, one agent is taken off the lists and cleaned up after.
LEMMA ExpelGoes ==
  ASSUME NEW w, NEW X, Sound(w, X), NEW c \in Conversations, IsRunning(w, c),
         NEW a \in Agents, a \in X => w.agents[a].current_conversation_id = c,
         NEW reminded
  PROVE  /\ Goes(expel(w, c, a, reminded), w, X)
         /\ expel(w, c, a, reminded).agents[a].current_conversation_id # c
<1> DEFINE old == w.conversations[c]
           v == removeParticipant(old, a)
           S == {a}
<1>1. expel(w, c, a, reminded)
        = cleanupParticipants([w EXCEPT !.conversations[c] = v], c, {a}, reminded)
  BY DEF expel, cleanupParticipant, Sound, Shape
<1>2. Removed(w, X, c, a, v)
  BY RemovalFollows
<1> HIDE DEF v
<1>9. Runs(v) /\ Everyone(v) = Everyone(old) \ {a}
  BY <1>2 DEF Removed
<1>10. Follows(v, old, X \cup {a})
  BY <1>2 DEF Removed
<1> HIDE DEF old
<1>11. /\ S \in SUBSET Agents /\ Follows(v, old, X \cup S) /\ S \cap Everyone(v) = {}
       /\ \A b \in (X \cap S) \cup (S \ Everyone(old)) :
            w.agents[b].current_conversation_id = c \/ b \notin X
  BY <1>9, <1>10
<1>12. a \in S
  OBVIOUS
<1> HIDE DEF S
<1>13. Relisted(cleanupParticipants([w EXCEPT !.conversations[c] = v], c, S, reminded),
                w, X, c, v, S)
  BY <1>9, <1>11, ListsGo DEF old
<1> QED
  BY <1>1, <1>12, <1>13 DEF S, Relisted

\* A joiner withdraws.
LEMMA DetachGoes ==
  ASSUME NEW w, NEW X, Sound(w, X), NEW c \in Conversations, IsRunning(w, c),
         NEW a \in Agents, a \in ToSet(w.conversations[c].joiners), NEW reminded
  PROVE  /\ Goes(detachPendingJoiner(w, c, a, reminded), w, X)
         /\ detachPendingJoiner(w, c, a, reminded).agents[a].current_conversation_id # c
<1> DEFINE old == w.conversations[c]
           J == Without(old.joiners, a)
           v == [old EXCEPT !.joiners = J]
<1>1. Lists(w, c) /\ Everyone(old) \subseteq Agents /\ IsConversation(old)
  BY EveryoneAgents DEF Sound
<1>2. /\ J \in Seq(Agents) /\ ToSet(J) = ToSet(old.joiners) \ {a}
      /\ Len(J) <= Len(old.joiners)
      /\ Distinct(old.joiners) => Distinct(J)
  BY <1>1, WithoutFacts DEF IsConversation
<1>3. detachPendingJoiner(w, c, a, reminded)
        = cleanupParticipants([w EXCEPT !.conversations[c] = v], c, {a}, reminded)
  BY <1>1 DEF detachPendingJoiner, cleanupParticipant, Sound, Shape
<1> HIDE DEF J
<1>4. /\ IsConversation(v) /\ v.status = old.status
      /\ v.participants = old.participants /\ v.joiners = J
  BY <1>1, <1>2 DEF IsConversation
<1>5. Runs(old) /\ a \in ToSet(old.joiners)
  BY DEF Runs, IsRunning
<1>6. Distinct(old.participants) /\ Distinct(old.joiners)
      /\ ToSet(old.participants) \cap ToSet(old.joiners) = {}
      /\ Len(old.participants) + Len(old.joiners) <= MaxParticipants
      /\ \A b \in Everyone(old) : w.agents[b].current_conversation_id = c
  BY <1>1 DEF Lists
<1> HIDE DEF v
<1>7. Fit(v)
  <2>1. Len(v.participants) + Len(v.joiners) <= MaxParticipants
    <3> DEFINE n == Len(old.participants)
               m == Len(old.joiners)
               q == Len(v.joiners)
    <3>0. n \in Nat /\ m \in Nat /\ q \in Nat
      BY <1>1, <1>4 DEF IsConversation
    <3>1. /\ n \in Nat /\ m \in Nat /\ q \in Nat /\ q <= m
          /\ n + m <= MaxParticipants /\ MaxParticipants \in Nat
      BY <1>2, <1>4, <1>6, <3>0, ConversationAssumption
    <3>2. Len(v.participants) = n
      BY <1>4
    <3> HIDE DEF n, m, q
    <3>3. n + q <= MaxParticipants
      BY <3>1
    <3> QED
      BY <3>2, <3>3 DEF q
  <2> QED
    BY <1>2, <1>4, <1>6, <2>1 DEF Fit
<1> HIDE DEF old
<1>8. Everyone(v) = Everyone(old) \ {a} /\ a \in Everyone(old)
  BY <1>2, <1>4, <1>5, <1>6 DEF Everyone
<1>9. Runs(v) /\ v.status # "pending"
  BY <1>4, <1>5 DEF Runs
<1> DEFINE S == {a}
<1>10. Follows(v, old, X \cup S)
  BY <1>4, <1>7, <1>8, <1>9 DEF Follows
<1>11. /\ S \in SUBSET Agents /\ S \cap Everyone(v) = {}
       /\ \A b \in (X \cap S) \cup (S \ Everyone(old)) :
            w.agents[b].current_conversation_id = c \/ b \notin X
  BY <1>6, <1>8
<1>12. a \in S
  OBVIOUS
<1> HIDE DEF S
<1>13. Relisted(cleanupParticipants([w EXCEPT !.conversations[c] = v], c, S, reminded),
                w, X, c, v, S)
  BY <1>9, <1>10, <1>11, ListsGo DEF old
<1> QED
  BY <1>3, <1>12, <1>13 DEF S, Relisted

\* Those that may join do, and the others are sent away.
LEMMA ApplyGoes ==
  ASSUME NEW w, NEW X, Sound(w, X), NEW c \in Conversations, IsRunning(w, c)
  PROVE  Goes(applyPendingJoiners(w, c), w, X)
<1> DEFINE old == w.conversations[c]
           admitted == {a \in Agents \ Members(old) :
                          /\ w.agents[a].current_conversation_id = c
                          /\ w.agents[a].state = "in_conversation"}
           applied == Kept(old.joiners, admitted)
           S == ToSet(old.joiners) \ ToSet(applied)
           L == [a \in Agents |-> IF a \in ToSet(applied) THEN old.current_turn
                                  ELSE old.last_spoken_turns[a]]
           P == old.participants \o applied
           v == [old EXCEPT !.joiners = <<>>, !.participants = P,
                            !.last_spoken_turns = L]
<1>1. Lists(w, c) /\ Everyone(old) \subseteq Agents /\ IsConversation(old)
      /\ ToSet(old.joiners) \subseteq Agents
  BY EveryoneAgents DEF Sound
<1>2. applyPendingJoiners(w, c)
        = cleanupParticipants([w EXCEPT !.conversations[c] = v], c, S, TRUE)
  <2>1. v = [old EXCEPT !.joiners = <<>>, !.participants = @ \o applied,
                     !.last_spoken_turns = [a \in Agents |->
                        IF a \in ToSet(applied) THEN old.current_turn ELSE @[a]]]
    BY <1>1 DEF IsConversation
  <2> QED
    BY <2>1, Zenon DEF applyPendingJoiners
<1>3. /\ applied \in Seq(Agents) /\ Len(applied) <= Len(old.joiners)
      /\ ToSet(applied) \subseteq ToSet(old.joiners)
      /\ Distinct(old.joiners) => Distinct(applied)
  <2> HIDE DEF admitted, old
  <2>1. old.joiners \in Seq(Agents)
    BY <1>1 DEF IsConversation
  <2> QED
    BY <2>1, KeptFacts
<1> HIDE DEF applied
<1>4. /\ P \in Seq(Agents) /\ Len(P) = Len(old.participants) + Len(applied)
      /\ ToSet(P) = ToSet(old.participants) \cup ToSet(applied)
      /\ Distinct(old.participants) /\ Distinct(applied)
           /\ ToSet(old.participants) \cap ToSet(applied) = {} => Distinct(P)
  <2>1. old.participants \in Seq(Agents)
    BY <1>1 DEF IsConversation
  <2> HIDE DEF old
  <2> QED
    BY <1>3, <2>1, ConcatFacts
<1> HIDE DEF P, L
<1>5. /\ IsConversation(v) /\ v.status = old.status
      /\ v.participants = P /\ v.joiners = <<>>
  <2> HIDE DEF old
  <2>1. P \in Seq(Agents) /\ <<>> \in Seq(Agents)
    BY <1>4
  <2> DEFINE E == <<>>
  <2>2. v = [old EXCEPT !.joiners = E, !.participants = P, !.last_spoken_turns = L]
        /\ E \in Seq(Agents)
    OBVIOUS
  <2> HIDE DEF v, E
  <2>3. /\ IsConversation(v) /\ v.status = old.status
        /\ v.participants = P /\ v.joiners = E
    BY <1>1, <2>1, <2>2 DEF IsConversation
  <2> QED
    BY <2>3 DEF E
<1>6. Runs(old)
  BY DEF Runs, IsRunning
<1>7. Distinct(old.participants) /\ Distinct(old.joiners)
      /\ ToSet(old.participants) \cap ToSet(old.joiners) = {}
      /\ Len(old.participants) + Len(old.joiners) <= MaxParticipants
      /\ \A b \in Everyone(old) : w.agents[b].current_conversation_id = c
  BY <1>1 DEF Lists
<1> HIDE DEF v
<1>8. Len(v.joiners) = 0 /\ ToSet(v.joiners) = {} /\ Distinct(v.joiners)
  BY <1>5 DEF ToSet, Distinct
<1>9. Fit(v)
  <2>1. Len(v.participants) + Len(v.joiners) <= MaxParticipants
    <3> DEFINE n == Len(old.participants)
               m == Len(old.joiners)
               q == Len(applied)
    <3>1. n \in Nat /\ m \in Nat /\ q \in Nat
      BY <1>1, <1>3 DEF IsConversation
    <3>2. q <= m /\ n + m <= MaxParticipants /\ MaxParticipants \in Nat
      BY <1>3, <1>7, ConversationAssumption
    <3>3. Len(v.participants) = n + q
      BY <1>4, <1>5
    <3> HIDE DEF n, m, q
    <3>4. n + q + 0 <= MaxParticipants
      BY <3>1, <3>2
    <3> QED
      BY <1>8, <3>3, <3>4
  <2>2. Distinct(v.participants)
    BY <1>3, <1>4, <1>5, <1>7
  <2> QED
    BY <1>8, <2>1, <2>2 DEF Fit
<1>10. Everyone(v) = ToSet(old.participants) \cup ToSet(applied)
  BY <1>4, <1>5, <1>8 DEF Everyone
<1>11. Everyone(old) = ToSet(old.participants) \cup ToSet(old.joiners)
  BY DEF Everyone
<1>12. Runs(v) /\ v.status # "pending"
  BY <1>5, <1>6 DEF Runs
<1> HIDE DEF old
<1>13. Follows(v, old, X \cup S)
  BY <1>3, <1>5, <1>9, <1>10, <1>11, <1>12 DEF Follows
<1>14. S \in SUBSET Agents /\ S \cap Everyone(v) = {}
  BY <1>1, <1>7, <1>10
<1>15. \A b \in (X \cap S) \cup (S \ Everyone(old)) :
         w.agents[b].current_conversation_id = c \/ b \notin X
  BY <1>7, <1>11
<1> HIDE DEF S
<1>16. Relisted(cleanupParticipants([w EXCEPT !.conversations[c] = v], c, S, TRUE),
                w, X, c, v, S)
  BY <1>12, <1>13, <1>14, <1>15, ListsGo DEF old
<1> QED
  BY <1>2, <1>16 DEF Relisted

\* A conversation ends: sound as before, and whoever was in it is free.
LEMMA EndGoes ==
  ASSUME NEW w, NEW X, Sound(w, X), NEW c \in Conversations, IsRunning(w, c)
  PROVE  /\ Sound(endConversation(w, c), X) /\ Fades(endConversation(w, c), w)
         /\ ~IsRunning(endConversation(w, c), c)
<1> DEFINE w1 == discardPendingJoiners(w, c)
           w2 == cancelConversationTimers(w1, c)
           w3 == cancelInConversationTransfersForConversation(w2, c)
           w4 == [w3 EXCEPT !.conversations[c] = NoConversation]
           S == Members(w.conversations[c])
           u == cleanupParticipants(w4, c, S, TRUE)
<1>1. endConversation(w, c) = u
  BY DEF endConversation
<1>2. /\ Goes(w1, w, X) /\ w1.conversations[c].joiners = <<>>
      /\ w1.conversations[c].participants = w.conversations[c].participants
  BY DiscardGoes
<1> HIDE DEF w1
<1>3. /\ Goes(w2, w1, X) /\ SameLists(w2.conversations[c], w1.conversations[c])
      /\ Untimed(w2, c)
  <2>1. Sound(w1, X) /\ Shape(w1)
    BY <1>2 DEF Goes, Sound
  <2>2. Quiet(w2, w1)
    BY <2>1, QuietCancel
  <2>3. w2.timers = w1.timers \ ConversationTimers(w1, c, ConversationTimerTypes)
    BY <2>1 DEF cancelConversationTimers, cancelTimersOf, Shape
  <2>4. Untimed(w2, c)
    BY <2>3 DEF Untimed, ConversationTimers, ConversationTimerTypes, TalkTypes
  <2> QED
    BY <2>1, <2>2, <2>4, QuietGoes DEF Quiet
<1> HIDE DEF w2
<1>4. /\ Goes(w3, w2, X) /\ SameLists(w3.conversations[c], w2.conversations[c])
      /\ Untimed(w3, c)
  <2>1. Sound(w2, X) /\ Shape(w2)
    BY <1>3 DEF Goes, Sound
  <2>2. Quiet(w3, w2)
    BY <2>1, QuietOffers
  <2>3. Untimed(w3, c)
    BY <1>3, <2>2 DEF Untimed, Quiet, SameTimers
  <2> QED
    BY <2>1, <2>2, <2>3, QuietGoes DEF Quiet
<1> HIDE DEF w3
<1>5. Goes(w3, w, X)
  BY <1>2, <1>3, <1>4, GoesTwice
<1>6. Sound(w3, X) /\ IsRunning(w3, c)
  BY <1>5 DEF Goes, SameRunning
<1> DEFINE old == w3.conversations[c]
           Y == X \cup Everyone(old)
<1>7. Lists(w3, c) /\ Everyone(old) \subseteq Agents /\ IsConversation(old)
  BY <1>6, EveryoneAgents DEF Sound
<1>8. IsConversation(NoConversation) /\ NoConversation.status = "absent"
  BY DEF IsConversation, NoConversation
<1>9. Follows(NoConversation, old, Y)
  BY <1>8 DEF Follows, Runs
<1> HIDE DEF Y
<1>10. X \subseteq Y
  BY DEF Y
<1>11. Sound(w4, Y) /\ Fades(w4, w3) /\ w4.agents = w3.agents
       /\ w4.conversations[c] = NoConversation
  BY <1>4, <1>6, <1>9, <1>10, RecordGoes
<1> HIDE DEF w4
<1>12. S \subseteq Agents
  BY EveryoneAgents DEF Sound
<1>13. Everyone(old) = S
  <2>1. ToSet(old.joiners) = {}
    BY <1>2, <1>3, <1>4 DEF SameLists, ToSet
  <2> QED
    BY <1>2, <1>3, <1>4, <2>1 DEF SameLists, Everyone, Members
<1>14. Y \ S \subseteq X
  BY <1>13 DEF Y
<1>15. \A a \in Y \cap S : w4.agents[a].current_conversation_id = c
  BY <1>7, <1>11, <1>13 DEF Lists
<1>16. w4.conversations[c].status # "pending" /\ ~IsRunning(w4, c)
  BY <1>8, <1>11 DEF IsRunning
<1> HIDE DEF S, old
<1>17. Goes(u, w4, Y \ S)
  BY <1>11, <1>12, <1>15, <1>16, CleanupSound
<1> HIDE DEF u
<1>18. Sound(u, X) /\ Fades(u, w4) /\ ~IsRunning(u, c)
  BY <1>14, <1>16, <1>17, SoundMore DEF Goes, SameRunning
<1>19. Fades(u, w)
  BY <1>5, <1>11, <1>18, FadesTwice DEF Goes
<1> QED
  BY <1>1, <1>18, <1>19

(***************************************************************************)
(* What the members do, and what they fail to do in time.                  *)
(***************************************************************************)
Keeps(u, w, X) == Sound(u, X) /\ Fades(u, w)

\* Steps that may end conversations, one after the other.
LEMMA KeepsTwice ==
  ASSUME NEW w, NEW v, NEW X, Keeps(v, w, X), NEW u, Keeps(u, v, X)
  PROVE  Keeps(u, w, X)
BY FadesTwice DEF Keeps

\* A step that ends none is one that may.
LEMMA GoesKeeps ==
  ASSUME NEW w, NEW v, NEW X, Goes(v, w, X)
  PROVE  Keeps(v, w, X)
BY DEF Goes, Keeps

\* So is a quiet one.
LEMMA QuietKeeps ==
  ASSUME NEW w, NEW X, Sound(w, X), NEW u, Quiet(u, w)
  PROVE  Keeps(u, w, X)
BY QuietGoes, GoesKeeps

\* So is none.
LEMMA SelfKeeps ==
  ASSUME NEW w, NEW X, Sound(w, X)
  PROVE  Keeps(w, w, X)
BY QuietSelf, QuietKeeps DEF Sound

\* An inactive check ends.
LEMMA ClearCheckQuiet ==
  ASSUME NEW w, Shape(w), NEW c \in Conversations
  PROVE  Quiet(clearInactiveCheckState(w, c), w)
<1> DEFINE w1 == cancelTimersOf(w, c, {"conversation_inactive_check"})
           v == [w1.conversations[c] EXCEPT !.inactive = {}, !.resume_speaker = None]
           u == [w1 EXCEPT !.conversations[c] = v]
<1>1. Quiet(w1, w)
  BY QuietCancel
<1>2. clearInactiveCheckState(w, c)
        = [w1 EXCEPT !.conversations[c].inactive = {},
                     !.conversations[c].resume_speaker = None]
  BY DEF clearInactiveCheckState
<1> HIDE DEF w1
<1>3. Shape(w1)
  BY <1>1 DEF Quiet
<1>4. IsConversation(w1.conversations[c])
  BY <1>3 DEF Shape
<1>5. IsConversation(v) /\ SameLists(v, w1.conversations[c])
  <2> DEFINE old == w1.conversations[c]
  <2>1. v = [old EXCEPT !.inactive = {}, !.resume_speaker = None]
    OBVIOUS
  <2> HIDE DEF v, old
  <2>2. IsConversation(old)
    BY <1>4 DEF old
  <2>3. IsConversation(v) /\ SameLists(v, old)
    BY <2>1, <2>2 DEF IsConversation, SameLists
  <2> QED
    BY <2>3 DEF old
<1>6. [w1 EXCEPT !.conversations[c].inactive = {},
                 !.conversations[c].resume_speaker = None] = u
  BY <1>3 DEF Shape
<1> HIDE DEF v
<1>7. Quiet(u, w1)
  BY <1>3, <1>5, SetConversation
<1> QED
  BY <1>1, <1>2, <1>6, <1>7, QuietTwice

\* Once nobody is left to answer, the one it was for goes on.
LEMMA ResumeKeeps ==
  ASSUME NEW w, NEW X, Sound(w, X), NEW c \in Conversations, IsRunning(w, c)
  PROVE  Keeps(resumeAfterInactiveCheck(w, c), w, X)
<1> DEFINE w0 == cancelTimersOf(w, c, {"conversation_inactive_check"})
           w1 == applyPendingJoiners(w0, c)
           next == resolveResumeSpeaker(w1.conversations[c])
           v == [w1.conversations[c] EXCEPT !.resume_speaker = None]
           w2 == [w1 EXCEPT !.conversations[c] = v]
           u == resumeAfterInactiveCheck(w, c)
<1>1. Goes(w0, w, X)
  BY QuietCancel, QuietGoes DEF Sound
<1>2. \/ u = w \/ u = endConversation([w1 EXCEPT !.conversations[c].resume_speaker = None], c)
      \/ u = scheduleTurnTimer([w1 EXCEPT !.conversations[c].resume_speaker = None],
                               c, next)
  BY DEF resumeAfterInactiveCheck
<1> HIDE DEF u, next, w0
<1>3. Sound(w0, X) /\ IsRunning(w0, c)
  BY <1>1 DEF Goes, SameRunning
<1>4. Goes(w1, w0, X)
  BY <1>3, ApplyGoes
<1> HIDE DEF w1
<1>5. Sound(w1, X) /\ Shape(w1) /\ IsRunning(w1, c)
  BY <1>3, <1>4 DEF Goes, SameRunning, Sound
<1>6. IsConversation(w1.conversations[c])
  BY <1>5 DEF Shape
<1>7. IsConversation(v) /\ SameLists(v, w1.conversations[c])
  BY <1>6 DEF IsConversation, SameLists
<1>8. [w1 EXCEPT !.conversations[c].resume_speaker = None] = w2
  BY <1>5 DEF Shape
<1> HIDE DEF v
<1>9. Quiet(w2, w1)
  BY <1>5, <1>7, SetConversation
<1> HIDE DEF w2
<1>10. Goes(w2, w1, X)
  BY <1>5, <1>9, QuietGoes
<1>11. Sound(w2, X) /\ Shape(w2) /\ IsRunning(w2, c)
  BY <1>5, <1>10 DEF Goes, SameRunning, Sound
<1>12. Keeps(w2, w, X)
  BY <1>1, <1>4, <1>10, GoesKeeps, KeepsTwice
<1>13. Keeps(endConversation(w2, c), w2, X)
  BY <1>11, EndGoes DEF Keeps
<1>14. Keeps(scheduleTurnTimer(w2, c, next), w2, X)
  BY <1>11, ScheduleGoes, GoesKeeps
<1>15. Keeps(endConversation(w2, c), w, X)
  BY <1>12, <1>13, KeepsTwice
<1>16. Keeps(scheduleTurnTimer(w2, c, next), w, X)
  BY <1>12, <1>14, KeepsTwice
<1>17. Keeps(w, w, X)
  BY SelfKeeps
<1> QED
  BY <1>2, <1>8, <1>15, <1>16, <1>17 DEF u

\* After a leave the conversation goes on, or is over for the last member.
LEMMA ConcludeKeeps ==
  ASSUME NEW w, NEW X, Sound(w, X), NEW c \in Conversations, IsRunning(w, c)
  PROVE  Keeps(concludeOrContinueAfterLeave(w, c), w, X)
<1> DEFINE w1 == applyPendingJoiners(w, c)
           s == resolveResumeSpeaker(w1.conversations[c])
           u == concludeOrContinueAfterLeave(w, c)
<1>1. Goes(w1, w, X)
  BY ApplyGoes
<1>2. \/ u = endConversation(w1, c) \/ u = resumeAfterInactiveCheck(w1, c)
      \/ u = scheduleTurnTimer(w1, c, s)
  BY DEF concludeOrContinueAfterLeave
<1> HIDE DEF w1, s, u
<1>3. Sound(w1, X) /\ Shape(w1) /\ IsRunning(w1, c) /\ Keeps(w1, w, X)
  BY <1>1, GoesKeeps DEF Goes, SameRunning, Sound
<1>4. Keeps(endConversation(w1, c), w1, X)
  BY <1>3, EndGoes DEF Keeps
<1>5. Keeps(resumeAfterInactiveCheck(w1, c), w1, X)
  BY <1>3, ResumeKeeps
<1>6. Keeps(scheduleTurnTimer(w1, c, s), w1, X)
  BY <1>3, ScheduleGoes, GoesKeeps
<1>7. Keeps(endConversation(w1, c), w, X)
  BY <1>3, <1>4, KeepsTwice
<1>8. Keeps(resumeAfterInactiveCheck(w1, c), w, X)
  BY <1>3, <1>5, KeepsTwice
<1>9. Keeps(scheduleTurnTimer(w1, c, s), w, X)
  BY <1>3, <1>6, KeepsTwice
<1> QED
  BY <1>2, <1>7, <1>8, <1>9 DEF u

\* Two part: one says good-bye and the other is promised the last word.
LEMMA GoodbyeKeeps ==
  ASSUME NEW w, NEW X, Sound(w, X), NEW c \in Conversations, IsRunning(w, c),
         NEW a, NEW other, TurnTimerOf(w, c, a).type = "conversation_turn"
  PROVE  Keeps(sayGoodbye(w, c, a, other), w, X)
<1> DEFINE w0 == cancel(w, TurnTimerOf(w, c, a))
           w1 == clearInactiveCheckState(w0, c)
           w2 == discardPendingJoiners(w1, c)
           old == w2.conversations[c]
           L == [old.last_spoken_turns EXCEPT ![a] = old.current_turn + 1,
                                              ![other] = old.current_turn + 1]
           n == old.current_turn + 1
           v == [old EXCEPT !.current_turn = n, !.last_spoken_turns = L,
                            !.status = "closing", !.closing_reason = "ended_by_agent",
                            !.current_speaker = other]
           z == [updateLastSpokenTurns(old, a, other, n) EXCEPT
                   !.status = "closing", !.closing_reason = "ended_by_agent",
                   !.current_speaker = other]
           w3 == [w2 EXCEPT !.conversations[c] = v]
           u == createIntervalTimer(w3, c, a, other)
<1>1. sayGoodbye(w, c, a, other)
        = createIntervalTimer([w2 EXCEPT !.conversations[c] = z], c, a, other)
  BY DEF sayGoodbye
<1>2. Quiet(w0, w)
  BY QuietCancel DEF Sound
<1> HIDE DEF w0
<1>3. Quiet(w1, w0)
  BY <1>2, ClearCheckQuiet DEF Quiet
<1> HIDE DEF w1
<1>4. Goes(w1, w, X)
  BY <1>2, <1>3, QuietTwice, QuietGoes
<1>5. Sound(w1, X) /\ IsRunning(w1, c)
  BY <1>4 DEF Goes, SameRunning
<1>6. Goes(w2, w1, X)
  BY <1>5, DiscardGoes
<1> HIDE DEF w2
<1>7. Sound(w2, X) /\ Shape(w2) /\ IsRunning(w2, c)
  BY <1>5, <1>6 DEF Goes, SameRunning, Sound
<1>8. IsConversation(old) /\ Runs(old)
  BY <1>7 DEF Shape, IsRunning, Runs
<1>9. z = v
  <2> HIDE DEF old
  <2> QED
    BY <1>8 DEF updateLastSpokenTurns, IsConversation
<1> HIDE DEF L, n, old
<1>10. IsConversation(v) /\ SameLists(v, old)
  <2>1. v = [old EXCEPT !.current_turn = n, !.last_spoken_turns = L,
                        !.status = "closing", !.closing_reason = "ended_by_agent",
                        !.current_speaker = other]
    OBVIOUS
  <2> HIDE DEF v
  <2> QED
    BY <1>8, <2>1 DEF IsConversation, SameLists, Runs
<1> HIDE DEF v, z
<1>11. Quiet(w3, w2)
  BY <1>7, <1>10, SetConversation DEF old
<1> HIDE DEF w3
<1>12. Goes(w3, w2, X)
  BY <1>7, <1>11, QuietGoes
<1>13. Keeps(u, w2, X)
  <2>1. Sound(w3, X) /\ IsRunning(w3, c)
    BY <1>7, <1>12 DEF Goes, SameRunning
  <2>2. Goes(u, w3, X)
    BY <2>1, ScheduleGoes
  <2> QED
    BY <1>12, <2>2, GoesTwice, GoesKeeps
<1> HIDE DEF u
<1>14. Keeps(u, w, X)
  BY <1>4, <1>6, <1>13, GoesKeeps, KeepsTwice
<1> QED
  BY <1>1, <1>9, <1>14 DEF u, w3

(***************************************************************************)
(* An answer to an offer leaves the timers of the conversations alone.     *)
(***************************************************************************)
Ticking(w) == {x \in w.timers : x.type \in ConversationTimerTypes}

\* The timer of an offer is none of a conversation.
LEMMA TransferTicks ==
  ASSUME NEW w, Shape(w), NEW t
  PROVE  Ticking(cancelTransferTimer(w, t)) = Ticking(w)
<1>1. cancelTransferTimer(w, t).timers
        = {x \in w.timers : ~(x.type = "transfer" /\ x.about = t)}
  BY DEF cancelTransferTimer, Shape
<1> HIDE DEF cancelTransferTimer
<1>2. \A x \in w.timers : x.type \in ConversationTimerTypes => x.type # "transfer"
  BY DEF ConversationTimerTypes
<1> QED
  BY <1>1, <1>2 DEF Ticking

\* Closing a window touches no timer.
LEMMA WindowTicks ==
  ASSUME NEW w, Shape(w), NEW a \in Agents
  PROVE  /\ closeWindow(w, a).timers = w.timers
         /\ clearExcludedInfoCommands(w, a).timers = w.timers
         /\ clearActiveServerAnnouncement(w, a).timers = w.timers
<1>1. ASSUME NEW u, Shape(u)
      PROVE  /\ clearExcludedInfoCommands(u, a).timers = u.timers
             /\ clearActiveServerAnnouncement(u, a).timers = u.timers
  BY <1>1 DEF clearExcludedInfoCommands, clearActiveServerAnnouncement, Shape
<1>2. Shape(clearExcludedInfoCommands(w, a))
  BY QuietWindow DEF Quiet
<1> QED
  BY <1>1, <1>2 DEF closeWindow

\* Crediting touches no timer.
LEMMA CreditTicks ==
  ASSUME NEW w, Shape(w), NEW a, NEW gained
  PROVE  /\ creditAgent(w, a, gained).timers = w.timers
         /\ mergePersistedAgentInventory(w, a, gained).timers = w.timers
<1>1. mergePersistedAgentInventory(w, a, gained).timers = w.timers
  BY DEF mergePersistedAgentInventory, Shape
<1>2. creditAgent(w, a, gained).timers = w.timers
  <2> DEFINE u == [w EXCEPT !.purses[a] = credit(@, gained)]
  <2>1. u.timers = w.timers /\ Shape(u)
    BY DEF Shape
  <2> HIDE DEF u
  <2>2. persistLoggedInAgentState(u, a).timers = u.timers
    BY <2>1 DEF persistLoggedInAgentState, Shape
  <2> QED
    BY <2>1, <2>2 DEF creditAgent, u
<1> QED
  BY <1>1, <1>2

\* Answering an offer touches no timer of a conversation.
LEMMA AnswerTicks ==
  ASSUME NEW w, Shape(w), NEW a \in Agents, NEW response
  PROVE  Ticking(resolveConversationTransferResponse(w, a, response)) = Ticking(w)
<1> DEFINE t == w.agents[a].pending_transfer_id
           r == resolveConversationTransferResponse(w, a, response)
<1>1. t \in Transfers \cup {None}
  BY DEF Shape, AgentRecord
<1>2. CASE t = None \/ ~canAcceptTransfer(w, t, a)
  BY <1>2 DEF resolveConversationTransferResponse
<1>3. CASE t # None /\ canAcceptTransfer(w, t, a)
  <2>1. t \in Transfers /\ w.transfers[t].status # "absent"
    BY <1>1, <1>3 DEF canAcceptTransfer, canRejectTransfer, Live
  <2>2. r = w \/ r = settleAccept(w, t, a) \/ r = finalizeRefund(w, t, NoFaults)
    BY DEF resolveConversationTransferResponse
  <2> HIDE DEF r, t
  <2> DEFINE offer == w.transfers[t]
  <2>3. offer.from_agent_id \in Agents /\ offer.to_agent_id \in Agents
    BY <2>1, OffersOf
  <2>4. Ticking(settleAccept(w, t, a)) = Ticking(w)
    <3> DEFINE w1 == creditAgent(w, a, offer.escrow)
               w2 == cancelTransferTimer(w1, t)
               w3 == clearTransferState(w2, t, offer)
               w4 == [w3 EXCEPT !.transfers[t] = NoOffer]
    <3>0. settleAccept(w, t, a) = clearExcludedInfoCommands(w4, a)
      BY DEF settleAccept
    <3> HIDE DEF offer
    <3>1. w1.timers = w.timers /\ Shape(w1)
      BY CreditTicks, QuietPersist DEF Quiet
    <3> HIDE DEF w1
    <3>2. Ticking(w2) = Ticking(w1) /\ Shape(w2)
      BY <3>1, TransferTicks, QuietCancel DEF Quiet
    <3> HIDE DEF w2
    <3>3. w3.timers = w2.timers /\ Shape(w3)
      BY <2>3, <3>2, QuietClear DEF Quiet
    <3> HIDE DEF w3
    <3>4. w4.timers = w3.timers /\ Shape(w4)
      <4>1. w4.timers = w3.timers
        BY <3>3 DEF Shape
      <4>2. Shape(w4)
        BY <3>3, QuietOffer DEF Quiet, IsOffer, NoOffer
      <4> QED
        BY <4>1, <4>2
    <3> HIDE DEF w4
    <3>5. clearExcludedInfoCommands(w4, a).timers = w4.timers
      BY <3>4, WindowTicks
    <3> QED
      BY <3>0, <3>1, <3>2, <3>3, <3>4, <3>5 DEF Ticking
  <2>5. Ticking(finalizeRefund(w, t, NoFaults)) = Ticking(w)
    <3> DEFINE u == cancelTransferTimer(w, t)
               v == clearTransferState(u, t, offer)
               x == refundEscrow(v, offer)
    <3>1. finalizeRefund(w, t, NoFaults)
            = IF refundThrows(w, t, NoFaults)
              THEN [v EXCEPT !.transfers[t].status = "refund_failed"]
              ELSE [x EXCEPT !.transfers[t] = NoOffer]
      BY DEF finalizeRefund
    <3>2. Ticking(u) = Ticking(w) /\ Shape(u)
      BY TransferTicks, QuietCancel DEF Quiet
    <3> HIDE DEF u, offer
    <3>3. v.timers = u.timers /\ Shape(v)
      BY <2>3, <3>2, QuietClear DEF Quiet
    <3> HIDE DEF v
    <3>4. x.timers = v.timers /\ Shape(x)
      <4>1. x = creditAgent(v, offer.from_agent_id, offer.escrow)
              \/ x = mergePersistedAgentInventory(v, offer.from_agent_id, offer.escrow)
        BY DEF refundEscrow, x
      <4> HIDE DEF x
      <4>2. ASSUME NEW e
            PROVE  /\ creditAgent(v, offer.from_agent_id, e).timers = v.timers
                   /\ mergePersistedAgentInventory(v, offer.from_agent_id, e).timers
                        = v.timers
        BY <3>3, CreditTicks
      <4>3. ASSUME NEW e
            PROVE  /\ Shape(creditAgent(v, offer.from_agent_id, e))
                   /\ Shape(mergePersistedAgentInventory(v, offer.from_agent_id, e))
        BY <3>3, QuietPersist DEF Quiet
      <4> QED
        BY <4>1, <4>2, <4>3
    <3> HIDE DEF x
    <3>5. /\ [v EXCEPT !.transfers[t].status = "refund_failed"].timers = v.timers
          /\ [x EXCEPT !.transfers[t] = NoOffer].timers = x.timers
      BY <3>3, <3>4 DEF Shape
    <3> QED
      BY <3>1, <3>2, <3>3, <3>4, <3>5 DEF Ticking
  <2> QED
    BY <2>2, <2>4, <2>5 DEF r
<1> QED
  BY <1>2, <1>3

\* The turn of the speaker is timed still when it has answered an offer.
LEMMA TurnTimerIs ==
  ASSUME NEW w, NEW c, NEW a, isMyTurn(w, c, a), NEW u, Ticking(u) = Ticking(w)
  PROVE  TurnTimerOf(u, c, a).type = "conversation_turn"
<1> DEFINE T == ConversationTimers(u, c, {"conversation_turn"})
           P(x) == x.about.speaker = a
<1>1. PICK x \in ConversationTimers(w, c, {"conversation_turn"}) : P(x)
  BY DEF isMyTurn
<1>2. x \in Ticking(u) /\ x.type = "conversation_turn" /\ x.about.conversation = c
  BY <1>1 DEF Ticking, ConversationTimers, ConversationTimerTypes
<1>3. x \in T
  BY <1>2 DEF Ticking, ConversationTimers
<1>4. \A y \in T : y.type = "conversation_turn"
  BY DEF ConversationTimers
<1>5. TurnTimerOf(u, c, a) = CHOOSE y \in T : P(y)
  BY DEF TurnTimerOf
<1> HIDE DEF T, P
<1>6. (CHOOSE y \in T : P(y)) \in T
  BY <1>1, <1>3
<1> QED
  BY <1>4, <1>5, <1>6

\* Of more than two, the one with the turn leaves and the others go on.
LEMMA FloorKeeps ==
  ASSUME NEW w, NEW X, Sound(w, X), NEW c \in Conversations, IsRunning(w, c),
         NEW a \in Agents, a \notin X, NEW next,
         TurnTimerOf(w, c, a).type = "conversation_turn"
  PROVE  Keeps(leaveTheFloor(w, c, a, next), w, X)
<1> DEFINE turn == w.conversations[c].current_turn + 1
           w0 == cancel(w, TurnTimerOf(w, c, a))
           n == w0.conversations[c].current_turn + 1
           v0 == [w0.conversations[c] EXCEPT !.current_turn = n]
           w1 == [w0 EXCEPT !.conversations[c] = v0]
           w2 == expel(w1, c, a, TRUE)
           L == [w2.conversations[c].last_spoken_turns EXCEPT ![next] = turn]
           v2 == [w2.conversations[c] EXCEPT !.last_spoken_turns = L]
           w3 == [w2 EXCEPT !.conversations[c] = v2]
           u == createIntervalTimer(w3, c, a, next)
<1>0. Shape(w)
  BY DEF Sound
<1>1. Quiet(w0, w)
  BY <1>0, QuietCancel
<1>2. leaveTheFloor(w, c, a, next)
        = createIntervalTimer(
            [expel([w0 EXCEPT !.conversations[c].current_turn = @ + 1], c, a, TRUE)
               EXCEPT !.conversations[c].last_spoken_turns[next] = turn], c, a, next)
  BY DEF leaveTheFloor
<1> HIDE DEF w0, turn
<1>3. [w0 EXCEPT !.conversations[c].current_turn = @ + 1] = w1
  BY <1>1 DEF Quiet, Shape
<1>4. Quiet(w1, w0)
  <2> DEFINE old == w0.conversations[c]
  <2>1. IsConversation(old) /\ Shape(w0)
    BY <1>1 DEF Quiet, Shape
  <2>2. v0 = [old EXCEPT !.current_turn = n]
    OBVIOUS
  <2> HIDE DEF v0, old, n
  <2>3. IsConversation(v0) /\ SameLists(v0, old)
    BY <2>1, <2>2 DEF IsConversation, SameLists
  <2> QED
    BY <2>1, <2>3, SetConversation DEF old
<1> HIDE DEF w1
<1>5. Goes(w1, w, X)
  BY <1>1, <1>4, QuietTwice, QuietGoes
<1>6. Sound(w1, X) /\ IsRunning(w1, c)
  BY <1>5 DEF Goes, SameRunning
<1>7. Goes(w2, w1, X)
  BY <1>6, ExpelGoes
<1> HIDE DEF w2
<1>8. Sound(w2, X) /\ Shape(w2)
  BY <1>7 DEF Goes, Sound
<1>9. [w2 EXCEPT !.conversations[c].last_spoken_turns[next] = turn] = w3
  BY <1>8 DEF Shape
<1>10. Quiet(w3, w2)
  <2> DEFINE old == w2.conversations[c]
  <2>1. IsConversation(old)
    BY <1>8 DEF Shape
  <2>2. v2 = [old EXCEPT !.last_spoken_turns = L]
    OBVIOUS
  <2> HIDE DEF v2, old, L
  <2>3. IsConversation(v2) /\ SameLists(v2, old)
    BY <2>1, <2>2 DEF IsConversation, SameLists
  <2> QED
    BY <1>8, <2>3, SetConversation DEF old
<1> HIDE DEF w3
<1>11. Goes(w3, w2, X)
  BY <1>8, <1>10, QuietGoes
<1>12. Keeps(u, w2, X)
  <2>1. Sound(w3, X) /\ IsRunning(w3, c)
    BY <1>6, <1>7, <1>11 DEF Goes, SameRunning
  <2>2. Goes(u, w3, X)
    BY <2>1, ScheduleGoes
  <2> QED
    BY <1>11, <2>2, GoesTwice, GoesKeeps
<1> HIDE DEF u
<1>13. Keeps(w2, w, X)
  BY <1>5, <1>7, GoesKeeps, KeepsTwice
<1>14. Keeps(u, w, X)
  BY <1>12, <1>13, KeepsTwice
<1>15. leaveTheFloor(w, c, a, next) = u
  BY <1>2, <1>3, <1>9 DEF u, w2
<1> QED
  BY <1>14, <1>15

\* However it goes, and whether or not an offer was answered before.
LEMMA EndByAgentKeeps ==
  ASSUME NEW w, Sound(w, {}), NEW c \in Conversations, IsRunning(w, c),
         NEW a \in Agents, NEW next, NEW response, isMyTurn(w, c, a)
  PROVE  Keeps(endConversationByAgent(w, c, a, next, response), w, {})
<1> DEFINE w1 == IF response = None THEN w
                 ELSE resolveConversationTransferResponse(w, a, response)
           w2 == closeWindow(w1, a)
           v == w.conversations[c]
           other == CHOOSE b \in Others(v, a) : TRUE
           p1 == sayGoodbye(w2, c, a, other)
           p2 == leaveTheFloor(w2, c, a, next)
           u == endConversationByAgent(w, c, a, next, response)
<1>0. Shape(w)
  BY DEF Sound
<1>1. Quiet(w1, w) /\ Ticking(w1) = Ticking(w)
  BY <1>0, QuietSelf, QuietAnswer, AnswerTicks
<1>2. \/ u = w2 \/ u = cancelPendingTransfersForAgent(p1, a, NoFaults)
      \/ u = cancelPendingTransfersForAgent(p2, a, NoFaults)
  BY DEF endConversationByAgent
<1> HIDE DEF w1, u
<1>3. Quiet(w2, w1) /\ Ticking(w2) = Ticking(w1)
  BY <1>1, QuietWindow, WindowTicks DEF Quiet, Ticking
<1> HIDE DEF w2, other
<1>4. Goes(w2, w, {}) /\ Ticking(w2) = Ticking(w)
  BY <1>1, <1>3, QuietTwice, QuietGoes
<1>5. Sound(w2, {}) /\ IsRunning(w2, c) /\ Keeps(w2, w, {})
  BY <1>4, GoesKeeps DEF Goes, SameRunning
<1>6. TurnTimerOf(w2, c, a).type = "conversation_turn"
  BY <1>4, TurnTimerIs
<1>7. ASSUME NEW p, Keeps(p, w2, {})
      PROVE  Keeps(cancelPendingTransfersForAgent(p, a, NoFaults), w, {})
  <2>1. Keeps(p, w, {}) /\ Sound(p, {}) /\ Shape(p)
    BY <1>5, <1>7, KeepsTwice DEF Keeps, Sound
  <2>2. Keeps(cancelPendingTransfersForAgent(p, a, NoFaults), p, {})
    BY <2>1, QuietPending, QuietKeeps
  <2> QED
    BY <2>1, <2>2, KeepsTwice
<1>8. Keeps(p1, w2, {})
  BY <1>5, <1>6, GoodbyeKeeps
<1>9. Keeps(p2, w2, {})
  BY <1>5, <1>6, FloorKeeps
<1> HIDE DEF p1, p2
<1>10. /\ Keeps(cancelPendingTransfersForAgent(p1, a, NoFaults), w, {})
       /\ Keeps(cancelPendingTransfersForAgent(p2, a, NoFaults), w, {})
  BY <1>7, <1>8, <1>9
<1> QED
  BY <1>2, <1>5, <1>10 DEF u

\* A speech moves nobody.
LEMMA SpeakGoes ==
  ASSUME NEW w, NEW X, Sound(w, X), NEW c \in Conversations, IsRunning(w, c),
         NEW a \in Agents, NEW next, isMyTurn(w, c, a)
  PROVE  Goes(speak(w, c, a, next), w, X)
<1> DEFINE old == w.conversations[c]
           n == old.current_turn + 1
           L == [old.last_spoken_turns EXCEPT ![a] = n, ![next] = n]
           v == [old EXCEPT !.current_turn = n, !.last_spoken_turns = L]
           spoken == updateLastSpokenTurns(old, a, next, n)
           w1 == closeWindow(w, a)
           w2 == cancel(w1, TurnTimerOf(w, c, a))
           w3 == [w2 EXCEPT !.conversations[c] = v]
<1>1. speak(w, c, a, next)
        = createIntervalTimer([w2 EXCEPT !.conversations[c] = spoken], c, a, next)
  BY DEF speak
<1>2. Shape(w) /\ IsConversation(old)
  BY DEF Sound, Shape
<1>3. spoken = v
  <2> HIDE DEF old
  <2> QED
    BY <1>2 DEF updateLastSpokenTurns, IsConversation
<1>4. IsConversation(v) /\ SameLists(v, old)
  <2>1. v = [old EXCEPT !.current_turn = n, !.last_spoken_turns = L]
    OBVIOUS
  <2> HIDE DEF v, n, L, old
  <2> QED
    BY <1>2, <2>1 DEF IsConversation, SameLists
<1> HIDE DEF v, spoken
<1>5. Quiet(w1, w)
  BY <1>2, QuietWindow
<1> HIDE DEF w1
<1>6. TurnTimerOf(w, c, a).type = "conversation_turn"
  BY TurnTimerIs
<1>7. Quiet(w2, w1)
  BY <1>5, <1>6, QuietCancel DEF Quiet
<1> HIDE DEF w2
<1>8. Shape(w2) /\ SameLists(v, w2.conversations[c])
  <2>1. SameLists(w2.conversations[c], w.conversations[c]) /\ Shape(w2)
    BY <1>5, <1>7, QuietTwice DEF Quiet
  <2> QED
    BY <1>4, <2>1 DEF SameLists
<1>9. Quiet(w3, w2)
  BY <1>4, <1>8, SetConversation
<1> HIDE DEF w3
<1>10. Goes(w3, w, X)
  BY <1>5, <1>7, <1>9, QuietTwice, QuietGoes
<1>11. [w2 EXCEPT !.conversations[c] = spoken] = w3
  BY <1>3 DEF w3
<1>12. Sound(w3, X) /\ IsRunning(w3, c)
  BY <1>10 DEF Goes, SameRunning
<1>13. Goes(createIntervalTimer(w3, c, a, next), w3, X)
  BY <1>12, ScheduleGoes
<1> QED
  BY <1>1, <1>10, <1>11, <1>13, GoesTwice

\* A member answers an inactive check: it stays.
LEMMA StayKeeps ==
  ASSUME NEW w, NEW X, Sound(w, X), NEW c \in Conversations, IsRunning(w, c),
         NEW a \in Agents
  PROVE  Keeps(stayInConversation(w, c, a), w, X)
<1> DEFINE w0 == closeWindow(w, a)
           old == w0.conversations[c]
           turn == w.conversations[c].current_turn
           I == old.inactive \ {a}
           L == [old.last_spoken_turns EXCEPT ![a] = turn]
           v == [old EXCEPT !.inactive = I, !.last_spoken_turns = L]
           w1 == [w0 EXCEPT !.conversations[c] = v]
<1>1. stayInConversation(w, c, a)
        = resumeAfterInactiveCheck(
            [w0 EXCEPT !.conversations[c].inactive = @ \ {a},
                       !.conversations[c].last_spoken_turns[a] = turn], c)
  BY DEF stayInConversation
<1>2. Quiet(w0, w)
  BY QuietWindow DEF Sound
<1> HIDE DEF w0, turn
<1>3. Shape(w0) /\ IsConversation(old)
  BY <1>2 DEF Quiet, Shape
<1>4. [w0 EXCEPT !.conversations[c].inactive = @ \ {a},
                 !.conversations[c].last_spoken_turns[a] = turn] = w1
  BY <1>3 DEF Shape, IsConversation
<1>5. IsConversation(v) /\ SameLists(v, old)
  <2>1. v = [old EXCEPT !.inactive = I, !.last_spoken_turns = L]
    OBVIOUS
  <2> HIDE DEF v, I, L, old
  <2> QED
    BY <1>3, <2>1 DEF IsConversation, SameLists
<1> HIDE DEF v
<1>6. Quiet(w1, w0)
  BY <1>3, <1>5, SetConversation
<1> HIDE DEF w1
<1>7. Goes(w1, w, X)
  BY <1>2, <1>6, QuietTwice, QuietGoes
<1>8. Sound(w1, X) /\ IsRunning(w1, c) /\ Keeps(w1, w, X)
  BY <1>7, GoesKeeps DEF Goes, SameRunning
<1>9. Keeps(resumeAfterInactiveCheck(w1, c), w1, X)
  BY <1>8, ResumeKeeps
<1> QED
  BY <1>1, <1>4, <1>8, <1>9, KeepsTwice, SMTT(30)

\* Taking one member out, with what it offered or was offered.
Dropped(w, c, a) == cancelPendingTransfersForAgent(expel(w, c, a, TRUE), a, NoFaults)

\* One member is taken out.
LEMMA DroppedGoes ==
  ASSUME NEW w, NEW X, Sound(w, X), NEW c \in Conversations, IsRunning(w, c),
         NEW a \in Agents, a \notin X
  PROVE  Goes(Dropped(w, c, a), w, X)
<1> DEFINE w1 == expel(w, c, a, TRUE)
<1>1. Goes(w1, w, X)
  BY ExpelGoes
<1> HIDE DEF w1
<1>2. Sound(w1, X) /\ Shape(w1)
  BY <1>1 DEF Goes, Sound
<1>3. Goes(cancelPendingTransfersForAgent(w1, a, NoFaults), w1, X)
  BY <1>2, QuietPending, QuietGoes
<1> QED
  BY <1>1, <1>3, GoesTwice DEF Dropped, w1

\* A member leaves, and the conversation goes on or is over.
LEMMA LeaveKeeps ==
  ASSUME NEW w, Sound(w, {}), NEW c \in Conversations, IsRunning(w, c),
         NEW a \in Agents
  PROVE  Keeps(leaveConversation(w, c, a), w, {})
<1> DEFINE w0 == closeWindow(w, a)
           w1 == Dropped(w0, c, a)
<1>1. leaveConversation(w, c, a) = concludeOrContinueAfterLeave(w1, c)
  BY DEF leaveConversation, Dropped
<1>2. Goes(w0, w, {})
  BY QuietWindow, QuietGoes DEF Sound
<1> HIDE DEF w0
<1>3. Sound(w0, {}) /\ IsRunning(w0, c)
  BY <1>2 DEF Goes, SameRunning
<1>4. Goes(w1, w0, {})
  BY <1>3, DroppedGoes
<1> HIDE DEF w1
<1>5. Goes(w1, w, {})
  BY <1>2, <1>4, GoesTwice
<1>6. Sound(w1, {}) /\ IsRunning(w1, c) /\ Keeps(w1, w, {})
  BY <1>5, GoesKeeps DEF Goes, SameRunning
<1>7. Keeps(concludeOrContinueAfterLeave(w1, c), w1, {})
  BY <1>6, ConcludeKeeps
<1> QED
  BY <1>1, <1>6, <1>7, KeepsTwice

\* The loop over the members that did not answer the check.
DropsUpTo(f, w, c, list, n) ==
  f = [m \in 0 .. n |-> IF m = 0 THEN w ELSE Dropped(f[m - 1], c, list[m])]

\* The loop over the silent can be run.
LEMMA DropsDefined ==
  ASSUME NEW w, NEW c, NEW list, NEW n \in Nat
  PROVE  \E f : DropsUpTo(f, w, c, list, n)
<1> DEFINE bad == {k \in Nat : ~ \E f : DropsUpTo(f, w, c, list, k)}
<1>1. bad = {}
  <2> SUFFICES ASSUME bad # {} PROVE FALSE
    OBVIOUS
  <2>1. PICK k \in bad : \A j \in bad : k <= j
    <3>1. bad \in SUBSET Nat
      OBVIOUS
    <3> HIDE DEF bad
    <3> QED
      BY <3>1, LeastOf
  <2>2. k \in Nat /\ ~ \E f : DropsUpTo(f, w, c, list, k)
    OBVIOUS
  <2>3. CASE k = 0
    <3>1. DropsUpTo([m \in 0 .. 0 |-> w], w, c, list, 0)
      BY DEF DropsUpTo
    <3> QED
      BY <2>2, <2>3, <3>1
  <2>4. CASE k # 0
    <3>1. k - 1 \in Nat /\ k - 1 \notin bad
      BY <2>1, <2>2, <2>4
    <3>2. PICK f : DropsUpTo(f, w, c, list, k - 1)
      BY <3>1
    <3> DEFINE last == Dropped(f[k - 1], c, list[k])
               g == [m \in 0 .. k |-> IF m = k THEN last ELSE f[m]]
    <3>3. \A m \in 0 .. k - 1 : g[m] = f[m]
          /\ f[m] = IF m = 0 THEN w ELSE Dropped(f[m - 1], c, list[m])
      <4> TAKE m \in 0 .. k - 1
      <4>1. m \in 0 .. k /\ m # k
        BY <2>2
      <4>2. g[m] = f[m]
        BY <4>1
      <4>3. f[m] = IF m = 0 THEN w ELSE Dropped(f[m - 1], c, list[m])
        BY <3>2, Zenon DEF DropsUpTo
      <4> QED
        BY <4>2, <4>3
    <3>4. \A m \in 0 .. k :
            g[m] = IF m = 0 THEN w ELSE Dropped(g[m - 1], c, list[m])
      <4> TAKE m \in 0 .. k
      <4>1. CASE m = k
        <5>1. g[k] = last /\ k - 1 \in 0 .. k - 1
          BY <2>2, <2>4
        <5>2. g[k - 1] = f[k - 1]
          BY <3>3, <5>1
        <5> QED
          BY <2>4, <4>1, <5>1, <5>2
      <4>2. CASE m # k
        <5>1. m \in 0 .. k - 1 /\ (m # 0 => m - 1 \in 0 .. k - 1)
          BY <2>2, <4>2
        <5>2. m # 0 => g[m - 1] = f[m - 1]
          BY <3>3, <5>1
        <5> HIDE DEF g
        <5> QED
          BY <3>3, <5>1, <5>2
      <4> QED
        BY <4>1, <4>2
    <3>5. DropsUpTo(g, w, c, list, k)
      <4> DEFINE h == [m \in 0 .. k |->
                 IF m = 0 THEN w ELSE Dropped(g[m - 1], c, list[m])]
      <4>1. g = h
        BY <3>4
      <4> QED
        BY <4>1 DEF DropsUpTo
    <3> QED
      BY <2>2, <3>5
  <2> QED
    BY <2>3, <2>4
<1> QED
  BY <1>1

\* Those that did not answer the check are taken out, all of them.
LEMMA SilentKeeps ==
  ASSUME NEW w, Sound(w, {}), NEW timer, timer.type = "conversation_inactive_check",
         timer.about.conversation \in Conversations
  PROVE  Keeps(handleInactiveCheckTimeout(w, timer), w, {})
<1> DEFINE c == timer.about.conversation
           fired == cancel(w, timer)
           v == fired.conversations[c]
           list == Kept(v.participants, v.inactive)
           F == CHOOSE f : DropsUpTo(f, fired, c, list, Len(list))
           u == handleInactiveCheckTimeout(w, timer)
<1>1. Goes(fired, w, {})
  BY QuietCancel, QuietGoes DEF Sound
<1>2. v.status # "active" => u = fired
  BY DEF handleInactiveCheckTimeout
<1>3. v.status = "active" => u = concludeOrContinueAfterLeave(F[Len(list)], c)
  BY Zenon DEF handleInactiveCheckTimeout, DropsUpTo, Dropped
<1> HIDE DEF fired, u
<1>4. Sound(fired, {}) /\ Keeps(fired, w, {})
  BY <1>1, GoesKeeps DEF Goes
<1>5. CASE v.status # "active"
  BY <1>2, <1>4, <1>5 DEF u
<1>6. CASE v.status = "active"
  <2>1. IsRunning(fired, c) /\ c \in Conversations
    BY <1>6 DEF IsRunning
  <2>2. Len(list) \in Nat /\ \A i \in 1 .. Len(list) : list[i] \in Agents
    <3>1. v.participants \in Seq(Agents)
      BY <1>4, <2>1 DEF Sound, Shape, IsConversation
    <3> HIDE DEF v
    <3>2. list \in Seq(Agents)
      BY <3>1, KeptFacts
    <3> HIDE DEF list
    <3> QED
      BY <3>2
  <2> HIDE DEF list
  <2>3. DropsUpTo(F, fired, c, list, Len(list))
    BY <2>2, DropsDefined, Zenon
  <2> HIDE DEF F
  <2> HIDE DEF c
  <2> DEFINE bad == {n \in 0 .. Len(list) : ~Goes(F[n], fired, {})}
  <2>4. bad = {}
    <3> SUFFICES ASSUME bad # {} PROVE FALSE
      OBVIOUS
    <3>1. PICK n \in bad : \A k \in bad : n <= k
      <4>1. bad \in SUBSET Nat
        OBVIOUS
      <4> HIDE DEF bad
      <4> QED
        BY <4>1, LeastOf
    <3>2. n \in Nat /\ n <= Len(list) /\ n \in 0 .. Len(list) /\ ~Goes(F[n], fired, {})
      BY <2>2
    <3>3. F[n] = IF n = 0 THEN fired ELSE Dropped(F[n - 1], c, list[n])
      BY <2>3, <3>2, Zenon DEF DropsUpTo
    <3>4. CASE n = 0
      <4>1. Goes(fired, fired, {})
        BY <1>4, QuietSelf, QuietGoes DEF Sound
      <4> QED
        BY <3>2, <3>3, <3>4, <4>1
    <3>5. CASE n # 0
      <4>1. n - 1 \in 0 .. Len(list) /\ n - 1 \notin bad /\ list[n] \in Agents
        BY <2>2, <3>1, <3>2, <3>5
      <4>2. Goes(F[n - 1], fired, {})
        BY <4>1
      <4>3. Sound(F[n - 1], {}) /\ IsRunning(F[n - 1], c)
        BY <2>1, <4>2 DEF Goes, SameRunning
      <4>4. Goes(Dropped(F[n - 1], c, list[n]), F[n - 1], {})
        BY <2>1, <4>1, <4>3, DroppedGoes
      <4> QED
        BY <3>2, <3>3, <3>5, <4>2, <4>4, GoesTwice
    <3> QED
      BY <3>4, <3>5
  <2>5. Len(list) \in 0 .. Len(list)
    BY <2>2
  <2>6. Goes(F[Len(list)], fired, {})
    BY <2>4, <2>5
  <2> DEFINE z == F[Len(list)]
  <2>7. u = concludeOrContinueAfterLeave(z, c)
    BY <1>3, <1>6 DEF c, list, F
  <2>8. Goes(z, fired, {})
    BY <2>6
  <2> HIDE DEF z
  <2>9. Sound(z, {}) /\ IsRunning(z, c) /\ Keeps(z, w, {})
    BY <1>4, <2>1, <2>8, GoesKeeps, KeepsTwice DEF Goes, SameRunning
  <2>10. Keeps(concludeOrContinueAfterLeave(z, c), z, {})
    BY <2>1, <2>9, ConcludeKeeps
  <2>11. Keeps(u, w, {})
    BY <2>7, <2>9, <2>10, KeepsTwice
  <2> QED
    BY <2>11 DEF u
<1> QED
  BY <1>5, <1>6

(***************************************************************************)
(* The end of an interval, and of a turn nobody took.                      *)
(***************************************************************************)
\* While more than two are closing, the one that spoke departs.
LEMMA CloseAfterKeeps ==
  ASSUME NEW w, Sound(w, {}), NEW c \in Conversations, IsRunning(w, c),
         NEW speaker, NEW next
  PROVE  Keeps(closeAfterSpeech(w, c, speaker, next), w, {})
<1> DEFINE v == w.conversations[c]
           w1 == IF speaker \in Members(v) THEN expel(w, c, speaker, TRUE) ELSE w
           v1 == w1.conversations[c]
           s == IF next \in Members(v1) THEN next ELSE resolveResumeSpeaker(v1)
           u == closeAfterSpeech(w, c, speaker, next)
<1>1. u = endConversation(w1, c) \/ u = scheduleTurnTimer(w1, c, s)
  BY DEF closeAfterSpeech
<1> HIDE DEF s, u
<1>2. Goes(w1, w, {})
  <2>1. CASE speaker \in Members(v)
    <3>1. speaker \in Agents
      BY <2>1, EveryoneAgents DEF Sound
    <3>2. Goes(expel(w, c, speaker, TRUE), w, {})
      BY <3>1, ExpelGoes
    <3> QED
      BY <2>1, <3>2
  <2>2. CASE speaker \notin Members(v)
    BY <2>2, QuietSelf, QuietGoes DEF Sound
  <2> QED
    BY <2>1, <2>2
<1> HIDE DEF w1
<1>3. Sound(w1, {}) /\ Shape(w1) /\ IsRunning(w1, c) /\ Keeps(w1, w, {})
  BY <1>2, GoesKeeps DEF Goes, SameRunning, Sound
<1>4. Keeps(endConversation(w1, c), w1, {})
  BY <1>3, EndGoes DEF Keeps
<1>5. Keeps(scheduleTurnTimer(w1, c, s), w1, {})
  BY <1>3, ScheduleGoes, GoesKeeps
<1>6. Keeps(endConversation(w1, c), w, {})
  BY <1>3, <1>4, KeepsTwice
<1>7. Keeps(scheduleTurnTimer(w1, c, s), w, {})
  BY <1>3, <1>5, KeepsTwice
<1> QED
  BY <1>1, <1>6, <1>7 DEF u

\* Between two that are closing, one more turn is timed or it is over.
LEMMA CloseBetweenKeeps ==
  ASSUME NEW w, NEW X, Sound(w, X), NEW c \in Conversations, IsRunning(w, c), NEW next
  PROVE  Keeps(closeBetweenTwo(w, c, next), w, X)
<1>1. Keeps(endConversation(w, c), w, X)
  BY EndGoes DEF Keeps
<1>2. Keeps(scheduleTurnTimer(w, c, next), w, X)
  BY ScheduleGoes, GoesKeeps
<1> QED
  BY <1>1, <1>2 DEF closeBetweenTwo

\* Closing, for whatever reason, keeps the lists as they are.
LEMMA QuietClosing ==
  ASSUME NEW w, Shape(w), NEW c \in Conversations, IsRunning(w, c), NEW reason
  PROVE  Quiet([w EXCEPT !.conversations[c].status = "closing",
                         !.conversations[c].closing_reason = reason], w)
<1> DEFINE old == w.conversations[c]
           v == [old EXCEPT !.status = "closing", !.closing_reason = reason]
<1>1. IsConversation(old) /\ Runs(old)
  BY DEF Shape, IsRunning, Runs
<1>2. IsConversation(v) /\ SameLists(v, old)
  <2>1. v = [old EXCEPT !.status = "closing", !.closing_reason = reason]
    OBVIOUS
  <2> HIDE DEF v, old
  <2> QED
    BY <1>1, <2>1 DEF IsConversation, SameLists, Runs
<1>3. [w EXCEPT !.conversations[c].status = "closing",
                !.conversations[c].closing_reason = reason]
        = [w EXCEPT !.conversations[c] = v]
  BY DEF Shape
<1> HIDE DEF v
<1> QED
  BY <1>2, <1>3, SetConversation

\* It closes for its number of turns.
LEMMA MaxTurnsKeeps ==
  ASSUME NEW w, NEW X, Sound(w, X), NEW c \in Conversations, IsRunning(w, c), NEW next
  PROVE  Keeps(closeForMaxTurns(w, c, next), w, X)
<1> DEFINE w1 == clearInactiveCheckState(w, c)
           w2 == [w1 EXCEPT !.conversations[c].status = "closing",
                            !.conversations[c].closing_reason = "max_turns"]
<1>1. closeForMaxTurns(w, c, next) = scheduleTurnTimer(w2, c, next)
  BY DEF closeForMaxTurns
<1>2. Quiet(w1, w)
  BY ClearCheckQuiet DEF Sound
<1> HIDE DEF w1
<1>3. Shape(w1) /\ IsRunning(w1, c)
  BY <1>2, QuietFades DEF SameRunning, Quiet
<1>4. Quiet(w2, w1)
  BY <1>3, QuietClosing
<1> HIDE DEF w2
<1>5. Goes(w2, w, X)
  BY <1>2, <1>4, QuietTwice, QuietGoes
<1>6. Sound(w2, X) /\ IsRunning(w2, c)
  BY <1>5 DEF Goes, SameRunning
<1>7. Goes(scheduleTurnTimer(w2, c, next), w2, X)
  BY <1>6, ScheduleGoes
<1> QED
  BY <1>1, <1>5, <1>7, GoesTwice, GoesKeeps

\* A check of the inactive starts, if there are any.
LEMMA CheckKeeps ==
  ASSUME NEW w, NEW X, Sound(w, X), NEW c \in Conversations, NEW next
  PROVE  Keeps(startInactiveCheck(w, c, next), w, X)
<1> DEFINE old == w.conversations[c]
           I == InactiveMembers(old)
           v == [old EXCEPT !.inactive = I, !.resume_speaker = next]
           w1 == [w EXCEPT !.conversations[c] = v]
<1>1. Shape(w) /\ IsConversation(old)
  BY DEF Sound, Shape
<1>2. startInactiveCheck(w, c, next)
        = createInactiveCheckTimer([w EXCEPT !.conversations[c].inactive = I,
                                             !.conversations[c].resume_speaker = next], c)
  BY DEF startInactiveCheck
<1> HIDE DEF I
<1>3. [w EXCEPT !.conversations[c].inactive = I,
                !.conversations[c].resume_speaker = next] = w1
  BY <1>1 DEF Shape
<1>4. IsConversation(v) /\ SameLists(v, old)
  <2>1. v = [old EXCEPT !.inactive = I, !.resume_speaker = next]
    OBVIOUS
  <2> HIDE DEF v, old
  <2> QED
    BY <1>1, <2>1 DEF IsConversation, SameLists
<1> HIDE DEF v
<1>5. Quiet(w1, w)
  BY <1>1, <1>4, SetConversation
<1> HIDE DEF w1
<1>6. Quiet(createInactiveCheckTimer(w1, c), w1)
  BY <1>5, QuietCheck DEF Quiet
<1>7. Quiet(createInactiveCheckTimer(w1, c), w)
  BY <1>5, <1>6, QuietTwice
<1> QED
  BY <1>2, <1>3, <1>7, QuietKeeps

\* The pause after a speech ends: a turn, a check, or the closing.
LEMMA IntervalKeeps ==
  ASSUME NEW w, Sound(w, {}), NEW timer, timer.type = "conversation_interval",
         timer.about.conversation \in Conversations,
         w.conversations[timer.about.conversation].status # "pending"
  PROVE  Keeps(handleConversationInterval(w, timer), w, {})
<1> DEFINE c == timer.about.conversation
           fired == cancel(w, timer)
           w1 == IF w.conversations[c].status = "active"
                 THEN applyPendingJoiners(fired, c) ELSE fired
           v == w1.conversations[c]
           next == IF timer.about.next \in Members(v) THEN timer.about.next
                   ELSE resolveResumeSpeaker(v)
           u == handleConversationInterval(w, timer)
<1>1. Goes(fired, w, {})
  BY QuietCancel, QuietGoes DEF Sound
<1>2. \/ v.status = "absent" /\ u = fired
      \/ v.status # "absent" /\ u \in {endConversation(w1, c),
           closeBetweenTwo(w1, c, next),
           closeAfterSpeech(w1, c, timer.about.speaker, next),
           closeForMaxTurns(w1, c, next), startInactiveCheck(w1, c, next),
           scheduleTurnTimer(w1, c, next)}
  BY DEF handleConversationInterval
<1> HIDE DEF next, u, fired
<1>3. Sound(fired, {}) /\ Keeps(fired, w, {})
  BY <1>1, GoesKeeps DEF Goes
<1>4. Goes(w1, w, {})
  <2>1. CASE w.conversations[c].status = "active"
    <3>1. IsRunning(fired, c)
      BY <1>1, <2>1 DEF Goes, SameRunning, IsRunning
    <3>2. Goes(applyPendingJoiners(fired, c), fired, {})
      BY <1>3, <3>1, ApplyGoes
    <3> QED
      BY <1>1, <2>1, <3>2, GoesTwice
  <2>2. CASE w.conversations[c].status # "active"
    BY <1>1, <2>2
  <2> QED
    BY <2>1, <2>2
<1>5. w1 = fired \/ w.conversations[c].status = "active"
  OBVIOUS
<1>6. SameLists(fired.conversations[c], w.conversations[c])
  <2>1. Quiet(fired, w)
    BY QuietCancel DEF fired, Sound
  <2> QED
    BY <2>1 DEF Quiet
<1> HIDE DEF w1
<1>7. Sound(w1, {}) /\ Shape(w1) /\ Keeps(w1, w, {})
  BY <1>4, GoesKeeps DEF Goes, Sound
<1>8. CASE v.status = "absent" /\ u = fired
  BY <1>3, <1>8 DEF u
<1>9. CASE v.status # "absent" /\ u \in {endConversation(w1, c),
           closeBetweenTwo(w1, c, next),
           closeAfterSpeech(w1, c, timer.about.speaker, next),
           closeForMaxTurns(w1, c, next), startInactiveCheck(w1, c, next),
           scheduleTurnTimer(w1, c, next)}
  <2>1. IsRunning(w1, c)
    <3>1. CASE w.conversations[c].status = "active"
      BY <1>4, <3>1 DEF Goes, SameRunning, IsRunning
    <3>2. CASE w1 = fired
      <4>1. v.status # "pending" /\ IsConversation(v)
        BY <1>6, <1>7, <3>2 DEF SameLists, Shape
      <4> QED
        BY <1>9, <4>1 DEF IsConversation, IsRunning
    <3> QED
      BY <1>5, <3>1, <3>2
  <2> DEFINE speaker == timer.about.speaker
  <2> HIDE DEF speaker
  <2>2. Keeps(endConversation(w1, c), w1, {})
    BY <1>7, <2>1, EndGoes DEF Keeps
  <2>3. Keeps(closeBetweenTwo(w1, c, next), w1, {})
    BY <1>7, <2>1, CloseBetweenKeeps
  <2>4. Keeps(closeAfterSpeech(w1, c, speaker, next), w1, {})
    BY <1>7, <2>1, CloseAfterKeeps
  <2>5. Keeps(closeForMaxTurns(w1, c, next), w1, {})
    BY <1>7, <2>1, MaxTurnsKeeps
  <2>6. Keeps(startInactiveCheck(w1, c, next), w1, {})
    BY <1>7, CheckKeeps
  <2>7. Keeps(scheduleTurnTimer(w1, c, next), w1, {})
    BY <1>7, <2>1, ScheduleGoes, GoesKeeps
  <2>8. Keeps(u, w1, {})
    BY <1>9, <2>2, <2>3, <2>4, <2>5, <2>6, <2>7 DEF speaker
  <2>9. Keeps(u, w, {})
    BY <1>7, <2>8, KeepsTwice
  <2> QED
    BY <2>9 DEF u
<1> QED
  BY <1>2, <1>8, <1>9

\* A speaker says nothing in time.
LEMMA TurnKeeps ==
  ASSUME NEW w, NEW X, Sound(w, X), NEW timer, timer.type = "conversation_turn",
         timer.about.conversation \in Conversations,
         w.conversations[timer.about.conversation].status # "pending"
  PROVE  Keeps(handleTurnTimeout(w, timer), w, X)
<1> DEFINE c == timer.about.conversation
           fired == cancel(w, timer)
<1>1. Goes(fired, w, X)
  BY QuietCancel, QuietGoes DEF Sound
<1>2. \/ w.conversations[c].status = "absent" /\ handleTurnTimeout(w, timer) = fired
      \/ /\ w.conversations[c].status # "absent"
         /\ handleTurnTimeout(w, timer) = endConversation(fired, c)
  BY DEF handleTurnTimeout
<1> HIDE DEF fired
<1>3. CASE w.conversations[c].status # "absent"
  <2>1. IsConversation(w.conversations[c])
    BY DEF Sound, Shape
  <2>2. IsRunning(w, c)
    BY <1>3, <2>1 DEF IsConversation, IsRunning
  <2>3. Sound(fired, X) /\ IsRunning(fired, c)
    BY <1>1, <2>2 DEF Goes, SameRunning
  <2>4. Keeps(endConversation(fired, c), fired, X)
    BY <2>3, EndGoes DEF Keeps
  <2>5. Keeps(endConversation(fired, c), w, X)
    BY <1>1, <2>4, GoesKeeps, KeepsTwice
  <2> QED
    BY <1>2, <1>3, <2>5
<1> QED
  BY <1>1, <1>2, <1>3, GoesKeeps

\* Only a running conversation has a turn or an interval.
LEMMA TimedRuns ==
  ASSUME NEW w, NEW X, Sound(w, X), NEW c \in Conversations,
         NEW timer \in w.timers, timer.type \in TalkTypes,
         timer.about.conversation = c
  PROVE  IsRunning(w, c)
<1>1. ~Untimed(w, c)
  BY DEF Untimed
<1> QED
  BY <1>1 DEF Sound

(***************************************************************************)
(* A member that is called away by an announcement.                        *)
(***************************************************************************)

\* Whoever is out of a conversation does not come back by what keeps it sound.
LEMMA StaysOut ==
  ASSUME NEW w, NEW u, Fades(u, w), NEW a \in Agents, NEW c \in Conversations,
         w.agents[a].current_conversation_id # c
  PROVE  u.agents[a].current_conversation_id # c
BY ConversationAssumption DEF Fades

\* What a conversation is left with when it closes.
Prepared(w, c) ==
  discardPendingJoiners(
    clearInactiveCheckState(
      cancelInConversationTransfersForConversation(
        cancelConversationTimers(w, c), c), c), c)

\* What is settled before a conversation ends leaves it sound.
LEMMA PreparedGoes ==
  ASSUME NEW w, NEW X, Sound(w, X), NEW c \in Conversations, IsRunning(w, c)
  PROVE  Goes(Prepared(w, c), w, X)
<1> DEFINE w1 == cancelConversationTimers(w, c)
           w2 == cancelInConversationTransfersForConversation(w1, c)
           w3 == clearInactiveCheckState(w2, c)
<1>1. Quiet(w1, w)
  BY QuietCancel DEF Sound
<1> HIDE DEF w1
<1>2. Quiet(w2, w1)
  BY <1>1, QuietOffers DEF Quiet
<1> HIDE DEF w2
<1>3. Quiet(w3, w2)
  BY <1>2, ClearCheckQuiet DEF Quiet
<1> HIDE DEF w3
<1>4. Goes(w3, w, X)
  BY <1>1, <1>2, <1>3, QuietTwice, QuietGoes
<1>5. Sound(w3, X) /\ IsRunning(w3, c)
  BY <1>4 DEF Goes, SameRunning
<1>6. Goes(discardPendingJoiners(w3, c), w3, X)
  BY <1>5, DiscardGoes
<1>7. Goes(discardPendingJoiners(w3, c), w, X)
  BY <1>4, <1>6, GoesTwice
<1> QED
  BY <1>7 DEF Prepared, w3, w2, w1

\* The one called away is out, and the others are given a turn to part.
LEMMA BeginClosingKeeps ==
  ASSUME NEW w, NEW X, Sound(w, X), NEW c \in Conversations, IsRunning(w, c),
         NEW speaker, NEW a \in Agents, a \notin X
  PROVE  /\ Keeps(beginClosingConversation(w, c, speaker, a), w, X)
         /\ beginClosingConversation(w, c, speaker, a).agents[a]
              .current_conversation_id # c
<1> DEFINE w1 == Prepared(w, c)
           w2 == [w1 EXCEPT !.conversations[c].status = "closing",
                            !.conversations[c].closing_reason = "server_announcement"]
           w3 == expel(w2, c, a, FALSE)
           v == w3.conversations[c]
           next == IF speaker \in Members(v) THEN speaker ELSE FirstOf(v)
           u == beginClosingConversation(w, c, speaker, a)
<1>1. u \in {endConversation(w3, c), scheduleTurnTimer(w3, c, next)}
  BY DEF beginClosingConversation, Prepared
<1>2. Goes(w1, w, X)
  BY PreparedGoes
<1> HIDE DEF w1, next, v
<1>3. Sound(w1, X) /\ IsRunning(w1, c) /\ Shape(w1)
  BY <1>2 DEF Goes, SameRunning, Sound
<1>4. Quiet(w2, w1)
  BY <1>3, QuietClosing
<1>5. Goes(w2, w, X)
  BY <1>2, <1>3, <1>4, QuietGoes, GoesTwice
<1> HIDE DEF w2
<1>6. Sound(w2, X) /\ IsRunning(w2, c)
  BY <1>3, <1>5 DEF Goes, SameRunning
<1>7. Goes(w3, w2, X) /\ w3.agents[a].current_conversation_id # c
  BY <1>6, ExpelGoes
<1> HIDE DEF w3
<1>8. Keeps(w3, w, X)
  BY <1>5, <1>7, GoesTwice, GoesKeeps
<1>9. Sound(w3, X) /\ IsRunning(w3, c)
  BY <1>6, <1>7 DEF Goes, SameRunning
<1>10. Keeps(endConversation(w3, c), w3, X)
  BY <1>9, EndGoes DEF Keeps
<1>11. Keeps(scheduleTurnTimer(w3, c, next), w3, X)
  BY <1>9, ScheduleGoes, GoesKeeps
<1>12. Keeps(u, w3, X)
  BY <1>1, <1>10, <1>11
<1> HIDE DEF u
<1>13. Keeps(u, w, X)
  BY <1>8, <1>12, KeepsTwice
<1>14. u.agents[a].current_conversation_id # c
  BY <1>7, <1>12, StaysOut DEF Keeps
<1> QED
  BY <1>13, <1>14 DEF u

\* Another one leaves while the conversation closes.
LEMMA DetachClosingKeeps ==
  ASSUME NEW w, NEW X, Sound(w, X), NEW c \in Conversations, IsRunning(w, c),
         NEW a \in Agents, a \notin X
  PROVE  /\ Keeps(detachParticipantFromClosingConversation(w, c, a), w, X)
         /\ detachParticipantFromClosingConversation(w, c, a).agents[a]
              .current_conversation_id # c
<1> DEFINE w1 == cancelPendingTransfersForAgent(w, a, NoFaults)
           w2 == expel(w1, c, a, FALSE)
           w3 == cancelConversationTimers(w2, c)
           s == resolveResumeSpeaker(w2.conversations[c])
           u == detachParticipantFromClosingConversation(w, c, a)
<1>1. u \in {endConversation(w2, c), w2, scheduleTurnTimer(w3, c, s)}
  BY DEF detachParticipantFromClosingConversation
<1>2. Goes(w1, w, X)
  BY QuietPending, QuietGoes DEF Sound
<1> HIDE DEF w1, s
<1>3. Sound(w1, X) /\ IsRunning(w1, c)
  BY <1>2 DEF Goes, SameRunning
<1>4. Goes(w2, w1, X) /\ w2.agents[a].current_conversation_id # c
  BY <1>3, ExpelGoes
<1> HIDE DEF w2
<1>5. Keeps(w2, w, X) /\ Sound(w2, X) /\ IsRunning(w2, c) /\ Shape(w2)
  BY <1>2, <1>3, <1>4, GoesTwice, GoesKeeps DEF Goes, SameRunning, Sound
<1>6. Quiet(w3, w2)
  BY <1>5, QuietCancel
<1> HIDE DEF w3
<1>7. Goes(w3, w2, X)
  BY <1>5, <1>6, QuietGoes
<1>8. Sound(w3, X) /\ IsRunning(w3, c)
  BY <1>5, <1>7 DEF Goes, SameRunning
<1>9. Goes(scheduleTurnTimer(w3, c, s), w3, X)
  BY <1>8, ScheduleGoes
<1>10. Keeps(scheduleTurnTimer(w3, c, s), w2, X)
  BY <1>7, <1>9, GoesTwice, GoesKeeps
<1>11. Keeps(endConversation(w2, c), w2, X)
  BY <1>5, EndGoes DEF Keeps
<1>12. Keeps(w2, w2, X)
  BY <1>5, SelfKeeps
<1>13. Keeps(u, w2, X)
  BY <1>1, <1>10, <1>11, <1>12
<1> HIDE DEF u
<1>14. Keeps(u, w, X)
  BY <1>5, <1>13, KeepsTwice
<1>15. u.agents[a].current_conversation_id # c
  BY <1>4, <1>13, StaysOut DEF Keeps
<1> QED
  BY <1>14, <1>15 DEF u

\* A conversation that is found for an agent has it, in one of the statuses.
LEMMA Found ==
  ASSUME NEW w, NEW a, NEW statuses
  PROVE  \/ findConversationByAgent(w, a, statuses) = None
         \/ /\ findConversationByAgent(w, a, statuses) \in Conversations
            /\ w.conversations[findConversationByAgent(w, a, statuses)].status
                 \in statuses
            /\ a \in Everyone(w.conversations[findConversationByAgent(w, a, statuses)])
<1> DEFINE S == {c \in Conversations :
                   /\ w.conversations[c].status \in statuses
                   /\ a \in Members(w.conversations[c])
                              \cup ToSet(w.conversations[c].joiners)}
           cur == w.agents[a].current_conversation_id
           f == findConversationByAgent(w, a, statuses)
<1>1. f = IF cur \in S THEN cur ELSE IF S = {} THEN None ELSE CHOOSE c \in S : TRUE
  BY DEF findConversationByAgent
<1>2. S # {} => (CHOOSE c \in S : TRUE) \in S
  OBVIOUS
<1> HIDE DEF S, cur
<1>3. f = None \/ f \in S
  BY <1>1, <1>2
<1> HIDE DEF f
<1>4. f \in S => f \in Conversations /\ w.conversations[f].status \in statuses
                 /\ a \in Everyone(w.conversations[f])
  BY DEF S, Everyone, Members
<1> QED
  BY <1>3, <1>4 DEF f

\* The conversation its record names is the one that is found first.
LEMMA FoundFirst ==
  ASSUME NEW w, NEW X, Sound(w, X), NEW a \in Agents, a \notin X,
         w.agents[a].current_conversation_id # None
  PROVE  /\ findConversationByAgent(w, a, {"active", "closing"})
              = w.agents[a].current_conversation_id
         /\ w.agents[a].current_conversation_id \in Conversations
         /\ IsRunning(w, w.agents[a].current_conversation_id)
         /\ a \in Everyone(w.conversations[w.agents[a].current_conversation_id])
<1> DEFINE cur == w.agents[a].current_conversation_id
<1>1. cur \in Conversations
  BY DEF Sound, Shape, AgentRecord
<1>2. IsRunning(w, cur) /\ a \in Everyone(w.conversations[cur])
  BY DEF Sound, Placed
<1>3. findConversationByAgent(w, a, {"active", "closing"}) = cur
  BY <1>1, <1>2 DEF findConversationByAgent, IsRunning, Everyone, Members
<1> QED
  BY <1>1, <1>2, <1>3

\* The lists of a pending conversation.
LEMMA InvitedAre ==
  ASSUME NEW w, NEW X, Sound(w, X), NEW c \in Conversations,
         w.conversations[c].status = "pending"
  PROVE  \E i, t \in Agents :
           /\ w.conversations[c].initiator = i
           /\ Members(w.conversations[c]) = {i, t}
           /\ Everyone(w.conversations[c]) = {i, t}
           /\ w.conversations[c].participants[2] = t
           /\ w.agents[i].pending_conversation_id = c
           /\ w.agents[t].pending_conversation_id = c
           /\ w.agents[i].state = "idle"
<1>1. PICK i, t \in Agents :
        /\ w.conversations[c].initiator = i
        /\ w.conversations[c].participants = <<i, t>>
        /\ w.conversations[c].joiners = <<>>
        /\ w.agents[i].pending_conversation_id = c
        /\ w.agents[t].pending_conversation_id = c
        /\ w.agents[i].state = "idle"
  BY DEF Sound, Invites
<1>2. ToSet(<<i, t>>) = {i, t} /\ ToSet(<<>>) = {} /\ <<i, t>>[2] = t
  BY DEF ToSet
<1> QED
  BY <1>1, <1>2 DEF Members, Everyone

\* a is invited nowhere.
Uninvited(w, a) ==
  \A c \in Conversations :
    w.conversations[c].status = "pending" => a \notin Members(w.conversations[c])

\* Who carries no mark is invited nowhere.
LEMMA UnmarkedUninvited ==
  ASSUME NEW w, NEW X, Sound(w, X), NEW a \in Agents,
         w.agents[a].pending_conversation_id = None
  PROVE  Uninvited(w, a)
<1> SUFFICES ASSUME NEW c \in Conversations, w.conversations[c].status = "pending",
                    a \in Members(w.conversations[c])
             PROVE  FALSE
  BY DEF Uninvited
<1>1. PICK i, t \in Agents :
        /\ Members(w.conversations[c]) = {i, t}
        /\ w.agents[i].pending_conversation_id = c
        /\ w.agents[t].pending_conversation_id = c
  BY InvitedAre
<1> QED
  BY <1>1, ConversationAssumption

\* The one called away is idle.
LEMMA LeaveForKeeps ==
  ASSUME NEW w, Sound(w, {}), NEW a \in Agents,
         w.agents[a].state = "in_conversation"
  PROVE  /\ Keeps(leaveForAnnouncement(w, a), w, {})
         /\ leaveForAnnouncement(w, a).agents[a].state = "idle"
<1> DEFINE c == findConversationByAgent(w, a, {"active", "closing"})
           v == w.conversations[c]
           s == getConversationActionableSpeaker(v)
           others == Without(v.participants, a)
           partner == IF s \notin {None, a} THEN s
                      ELSE IF others # <<>> THEN Head(others) ELSE v.current_speaker
           u == leaveForAnnouncement(w, a)
<1>1. w.agents[a].current_conversation_id # None
  BY DEF Sound, InState
<1>2. /\ c = w.agents[a].current_conversation_id
      /\ c \in Conversations /\ IsRunning(w, c)
  BY <1>1, FoundFirst
<1>3. \/ a \in ToSet(v.joiners) /\ u = detachPendingJoiner(w, c, a, FALSE)
      \/ u \in {detachParticipantFromClosingConversation(w, c, a),
                beginClosingConversation(w, c, partner, a)}
  BY <1>1, <1>2 DEF leaveForAnnouncement
<1> HIDE DEF c, partner, s, others
<1>4. ASSUME a \in ToSet(w.conversations[c].joiners)
      PROVE  /\ Keeps(detachPendingJoiner(w, c, a, FALSE), w, {})
             /\ detachPendingJoiner(w, c, a, FALSE).agents[a].current_conversation_id # c
  <2>1. /\ Goes(detachPendingJoiner(w, c, a, FALSE), w, {})
        /\ detachPendingJoiner(w, c, a, FALSE).agents[a].current_conversation_id # c
    BY <1>2, <1>4, DetachGoes
  <2> QED
    BY <2>1, GoesKeeps
<1>5. /\ Keeps(detachParticipantFromClosingConversation(w, c, a), w, {})
      /\ detachParticipantFromClosingConversation(w, c, a).agents[a]
           .current_conversation_id # c
  BY <1>2, DetachClosingKeeps
<1>6. /\ Keeps(beginClosingConversation(w, c, partner, a), w, {})
      /\ beginClosingConversation(w, c, partner, a).agents[a]
           .current_conversation_id # c
  BY <1>2, BeginClosingKeeps
<1>7. Keeps(u, w, {}) /\ u.agents[a].current_conversation_id # c
  BY <1>3, <1>4, <1>5, <1>6
<1> HIDE DEF u
<1>8. u.agents[a].state = "idle"
  BY <1>2, <1>7 DEF Keeps, Fades
<1> QED
  BY <1>7, <1>8 DEF u

\* An idle agent becomes idle.
LEMMA QuietIdle ==
  ASSUME NEW w, Shape(w), NEW a \in Agents, w.agents[a].state = "idle"
  PROVE  Quiet(setState(w, a, "idle"), w)
<1> DEFINE g == [w.agents[a] EXCEPT !.state = "idle"]
<1>1. w.agents[a] \in AgentRecord
  BY DEF Shape
<1>2. g = w.agents[a]
  BY <1>1 DEF AgentRecord
<1>3. setState(w, a, "idle") = [w EXCEPT !.agents[a] = g]
  BY DEF setState, Shape
<1> HIDE DEF g
<1>4. g \in AgentRecord /\ SameAgent(g, w.agents[a])
  BY <1>1, <1>2 DEF SameAgent
<1> QED
  BY <1>3, <1>4, SetAgent

(***************************************************************************)
(* What one agent does alone.                                              *)
(***************************************************************************)
Alone == {"idle", "in_action"}

\* One agent's state becomes s, and its timers with it.
Acts(u, w, a, s) ==
  /\ Shape(u) /\ u.conversations = w.conversations
  /\ \A b \in Agents \ {a} : u.agents[b] = w.agents[b]
  /\ LET g == u.agents[a]
         h == w.agents[a]
     IN  /\ g.state = s
         /\ g.pending_conversation_id = h.pending_conversation_id
         /\ g.current_conversation_id = h.current_conversation_id
         /\ h.announced = FALSE => g.announced = FALSE
  /\ WT(a) \in u.timers <=> s = "in_action"
  /\ IR(a) \in u.timers => s = "idle"
  /\ \A b \in Agents \ {a} : /\ WT(b) \in u.timers <=> WT(b) \in w.timers
                             /\ IR(b) \in u.timers <=> IR(b) \in w.timers
  /\ \A x \in u.timers : x.type \in TalkTypes => x \in w.timers

\* An agent that is in no conversation, and is idle if it invites, may do so.
LEMMA ActsSound ==
  ASSUME NEW w, NEW X, Sound(w, X), NEW a \in Agents,
         w.agents[a].state # "in_conversation",
         NEW s \in Alone, s = "idle" \/ Uninvited(w, a),
         NEW u, Acts(u, w, a, s)
  PROVE  Sound(u, X)
<1>1. /\ Shape(u) /\ Shape(w) /\ u.conversations = w.conversations
      /\ \A b \in Agents :
           /\ u.agents[b].pending_conversation_id = w.agents[b].pending_conversation_id
           /\ u.agents[b].current_conversation_id = w.agents[b].current_conversation_id
           /\ w.agents[b].announced = FALSE => u.agents[b].announced = FALSE
           /\ b # a => u.agents[b].state = w.agents[b].state
  BY DEF Acts, Sound
<1>2. u.agents[a].state = s
  BY DEF Acts
<1>3. ASSUME NEW b \in Agents PROVE InState(u, b)
  <2>1. InState(w, b)
    BY DEF Sound
  <2>2. CASE b # a
    <3>1. WT(b) \in u.timers <=> WT(b) \in w.timers
      BY <2>2 DEF Acts
    <3>2. IR(b) \in u.timers <=> IR(b) \in w.timers
      BY <2>2 DEF Acts
    <3> QED
      BY <1>1, <2>1, <2>2, <3>1, <3>2 DEF InState
  <2>3. CASE b = a
    <3>1. WT(a) \in u.timers <=> s = "in_action"
      BY DEF Acts
    <3>2. IR(a) \in u.timers => s = "idle"
      BY DEF Acts
    <3>3. w.agents[a].current_conversation_id = None
      BY <2>1, <2>3 DEF InState
    <3>4. u.agents[a].current_conversation_id = None
      BY <1>1, <3>3
    <3> QED
      BY <1>2, <2>3, <3>1, <3>2, <3>4 DEF InState, Alone
  <2> QED
    BY <2>2, <2>3
<1>4. ASSUME NEW d \in Conversations
      PROVE  /\ u.conversations[d].status = "pending" => Invites(u, d)
             /\ IsRunning(u, d) => Lists(u, d)
             /\ IsRunning(u, d) \/ Untimed(u, d)
  <2>1. ASSUME u.conversations[d].status = "pending" PROVE Invites(u, d)
    <3>1. PICK i, t \in Agents :
            /\ w.conversations[d].initiator = i
            /\ w.conversations[d].participants = <<i, t>>
            /\ w.conversations[d].joiners = <<>>
            /\ w.agents[i].pending_conversation_id = d
            /\ w.agents[t].pending_conversation_id = d
            /\ w.agents[i].state = "idle"
      BY <1>1, <2>1 DEF Sound, Invites
    <3>2. i \in Members(w.conversations[d])
      BY <3>1 DEF Members, ToSet
    <3>3. u.agents[i].state = "idle"
      BY <1>1, <1>2, <2>1, <3>1, <3>2 DEF Uninvited
    <3> QED
      BY <1>1, <3>1, <3>3 DEF Invites
  <2>2. IsRunning(u, d) => Lists(u, d)
    <3>1. IsRunning(w, d) => Lists(w, d)
      BY DEF Sound
    <3>2. Everyone(w.conversations[d]) \subseteq Agents
      BY <1>1, EveryoneAgents
    <3> QED
      BY <1>1, <3>1, <3>2 DEF IsRunning, Lists
  <2>3. IsRunning(u, d) \/ Untimed(u, d)
    <3>1. IsRunning(w, d) \/ Untimed(w, d)
      BY DEF Sound
    <3>2. \A x \in u.timers : x.type \in TalkTypes => x \in w.timers
      BY DEF Acts
    <3> QED
      BY <1>1, <3>1, <3>2 DEF IsRunning, Untimed
  <2> QED
    BY <2>1, <2>2, <2>3
<1>5. ASSUME NEW b \in Agents \ X
      PROVE  Placed(u, b) /\ (Announcements = {} => Marked(u, b))
  BY <1>1 DEF Sound, Placed, Marked, IsRunning
<1>6. Announcements = {} => \A b \in Agents : u.agents[b].announced = FALSE
  BY <1>1 DEF Sound
<1> QED
  BY <1>1, <1>3, <1>4, <1>5, <1>6 DEF Sound

\* Reminding agents that are idle.
LEMMA RemindersSound ==
  ASSUME NEW w, NEW X, Sound(w, X), NEW S \in SUBSET Agents,
         \A a \in S : w.agents[a].state = "idle"
  PROVE  /\ Sound(startIdleReminders(w, S), X)
         /\ startIdleReminders(w, S).agents = w.agents
         /\ startIdleReminders(w, S).conversations = w.conversations
<1> DEFINE u == startIdleReminders(w, S)
<1>1. /\ Shape(u) /\ u.agents = w.agents /\ u.conversations = w.conversations
      /\ \A a \in Agents : /\ WT(a) \in u.timers <=> WT(a) \in w.timers
                           /\ IR(a) \in u.timers <=> IR(a) \in w.timers \/ a \in S
      /\ \A x \in u.timers : x.type \in TalkTypes => x \in w.timers
  BY RemindersOfS DEF Sound
<1> HIDE DEF u
<1>2. \A a \in Agents : InState(u, a)
  BY <1>1 DEF Sound, InState
<1>3. ASSUME NEW d \in Conversations
      PROVE  /\ u.conversations[d].status = "pending" => Invites(u, d)
             /\ IsRunning(u, d) => Lists(u, d)
             /\ IsRunning(u, d) \/ Untimed(u, d)
  <2>1. /\ w.conversations[d].status = "pending" => Invites(w, d)
        /\ IsRunning(w, d) => Lists(w, d)
        /\ IsRunning(w, d) \/ Untimed(w, d)
    BY DEF Sound
  <2>2. w.conversations[d].status = "pending" => Invites(u, d)
    BY <1>1, <2>1 DEF Invites
  <2>3. IsRunning(w, d) => Lists(u, d)
    BY <1>1, <2>1 DEF Lists
  <2>4. Untimed(w, d) => Untimed(u, d)
    BY <1>1 DEF Untimed
  <2> QED
    BY <1>1, <2>1, <2>2, <2>3, <2>4 DEF IsRunning
<1>4. \A b \in Agents \ X : Placed(u, b) /\ (Announcements = {} => Marked(u, b))
  BY <1>1 DEF Sound, Placed, Marked, IsRunning
<1>5. Sound(u, X)
  BY <1>1, <1>2, <1>3, <1>4 DEF Sound
<1> QED
  BY <1>1, <1>5 DEF u

\* A timer that is not pending yet is created as it is.
LEMMA FreshTimer ==
  ASSUME NEW type, NEW ids, NEW about, NEW T, Timer(type, ids, about) \notin T
  PROVE  [Timer(type, ids, about) EXCEPT !.twin = Timer(type, ids, about) \in T]
           = Timer(type, ids, about)
<1> DEFINE r == Timer(type, ids, about)
           R == [type : {type}, agent_ids : {ids}, about : {about}, twin : BOOLEAN]
<1>1. r \in R /\ r.twin = FALSE /\ r \notin T
  BY DEF Timer
<1> HIDE DEF r
<1>2. [r EXCEPT !.twin = r \in T] = r
  BY <1>1
<1> QED
  BY <1>2 DEF r

\* The reminder of one is the loop over one.
LEMMA ReminderIs ==
  ASSUME NEW w, Shape(w), NEW a \in Agents
  PROVE  startIdleReminder(w, a) = startIdleReminders(w, {a})
<1> DEFINE T == {x \in w.timers : ~(a \in x.agent_ids /\ x.type = "idle_reminder")}
           S == {x \in w.timers : ~(x.type = "idle_reminder" /\ x.agent_ids \cap {a} # {})}
           r == Timer("idle_reminder", {a}, None)
           w1 == [w EXCEPT !.timers = T]
<1>1. cancelIdleReminder(w, a) = w1
  BY DEF cancelIdleReminder, cancelByType
<1>2. w1.timers = T
  BY DEF Shape
<1>3. r \notin T
  <2>1. r.type = "idle_reminder" /\ r.agent_ids = {a}
    BY DEF Timer
  <2> HIDE DEF r
  <2> QED
    BY <2>1
<1>4. [r EXCEPT !.twin = r \in T] = r
  BY <1>3, FreshTimer
<1>6. startIdleReminder(w, a) = create(w1, r)
  BY <1>1 DEF startIdleReminder
<1>7. create(w1, r) = [w1 EXCEPT !.timers = T \cup {r}]
  BY <1>2, <1>4 DEF create
<1>8. [w1 EXCEPT !.timers = T \cup {r}] = [w EXCEPT !.timers = T \cup {r}]
  BY DEF Shape
<1>9. T = S
  OBVIOUS
<1>10. {Timer("idle_reminder", {b}, None) : b \in {a}} = {r}
  OBVIOUS
<1>11. startIdleReminders(w, {a}) = [w EXCEPT !.timers = S \cup {r}]
  BY <1>10 DEF startIdleReminders
<1> QED
  BY <1>6, <1>7, <1>8, <1>9, <1>11

\* An idle agent is reminded.
LEMMA RemindSound ==
  ASSUME NEW w, NEW X, Sound(w, X), NEW a \in Agents, w.agents[a].state = "idle"
  PROVE  /\ Sound(remind(w, a), X)
         /\ remind(w, a).agents = w.agents
         /\ remind(w, a).conversations = w.conversations
<1>1. remind(w, a) = startIdleReminders(w, {a})
  BY ReminderIs DEF remind, LoggedIn, Sound
<1> QED
  BY <1>1, RemindersSound

(***************************************************************************)
(* Invitations.                                                            *)
(***************************************************************************)

\* An agent that is invited no more, and as it was otherwise.
Freed(g, h) ==
  /\ g.state = h.state /\ g.pending_conversation_id = None
  /\ g.current_conversation_id = h.current_conversation_id
  /\ h.announced = FALSE => g.announced = FALSE

\* The agents of S are freed in A, and the others as they were.
Unmarks(A, w, S) ==
  /\ \A a \in S : /\ Freed(A[a], w.agents[a]) /\ Uninvited(w, a)
                  /\ w.agents[a].current_conversation_id = None
  /\ \A a \in Agents \ S : A[a] = w.agents[a]

\* The marks of agents that are invited nowhere may go.
LEMMA MarksGo ==
  ASSUME NEW w, NEW X, NEW S \in SUBSET Agents, Sound(w, X \cup S),
         NEW A \in [Agents -> AgentRecord], Unmarks(A, w, S)
  PROVE  /\ Sound([w EXCEPT !.agents = A], X)
         /\ [w EXCEPT !.agents = A].agents = A
         /\ [w EXCEPT !.agents = A].conversations = w.conversations
<1> DEFINE u == [w EXCEPT !.agents = A]
<1>1. /\ Shape(u) /\ u.agents = A /\ u.conversations = w.conversations
      /\ u.timers = w.timers
  BY DEF Sound, Shape
<1> HIDE DEF u
<1>2. \A b \in Agents :
        /\ u.agents[b].state = w.agents[b].state
        /\ u.agents[b].current_conversation_id = w.agents[b].current_conversation_id
        /\ u.agents[b].pending_conversation_id
             \in {None, w.agents[b].pending_conversation_id}
        /\ w.agents[b].announced = FALSE => u.agents[b].announced = FALSE
  BY <1>1 DEF Freed, Unmarks
<1>3. \A b \in Agents : InState(u, b)
  BY <1>1, <1>2 DEF Sound, InState
<1>4. ASSUME NEW d \in Conversations
      PROVE  /\ u.conversations[d].status = "pending" => Invites(u, d)
             /\ IsRunning(u, d) => Lists(u, d)
             /\ IsRunning(u, d) \/ Untimed(u, d)
  <2>1. /\ w.conversations[d].status = "pending" => Invites(w, d)
        /\ IsRunning(w, d) => Lists(w, d)
        /\ IsRunning(w, d) \/ Untimed(w, d)
    BY DEF Sound
  <2>2. ASSUME w.conversations[d].status = "pending" PROVE Invites(u, d)
    <3>1. PICK i, t \in Agents :
            /\ w.conversations[d].initiator = i
            /\ w.conversations[d].participants = <<i, t>>
            /\ w.conversations[d].joiners = <<>>
            /\ w.agents[i].pending_conversation_id = d
            /\ w.agents[t].pending_conversation_id = d
            /\ w.agents[i].state = "idle"
      BY <2>1, <2>2 DEF Invites
    <3>2. i \in Members(w.conversations[d]) /\ t \in Members(w.conversations[d])
      BY <3>1 DEF Members, ToSet
    <3>3. i \notin S /\ t \notin S
      BY <2>2, <3>2 DEF Uninvited, Unmarks
    <3>4. u.agents[i] = w.agents[i] /\ u.agents[t] = w.agents[t]
      BY <1>1, <3>3 DEF Unmarks
    <3> QED
      BY <1>1, <3>1, <3>4 DEF Invites
  <2>3. Everyone(w.conversations[d]) \subseteq Agents
    BY EveryoneAgents DEF Sound
  <2>4. IsRunning(w, d) => Lists(u, d)
    BY <1>1, <1>2, <2>1, <2>3 DEF Lists
  <2> QED
    BY <1>1, <2>1, <2>2, <2>4 DEF IsRunning, Untimed
<1>5. ASSUME NEW b \in Agents \ X
      PROVE  Placed(u, b) /\ (Announcements = {} => Marked(u, b))
  <2>1. CASE b \in S
    <3>1. /\ u.agents[b].current_conversation_id = None
          /\ u.agents[b].pending_conversation_id = None
      BY <1>1, <1>2, <2>1 DEF Freed, Unmarks
    <3> QED
      BY <3>1 DEF Placed, Marked
  <2>2. CASE b \notin S
    <3>1. Placed(w, b) /\ (Announcements = {} => Marked(w, b))
      BY <2>2 DEF Sound
    <3>2. u.agents[b] = w.agents[b]
      BY <1>1, <2>2 DEF Unmarks
    <3> QED
      BY <1>1, <3>1, <3>2 DEF Placed, Marked, IsRunning
  <2> QED
    BY <2>1, <2>2
<1>6. Announcements = {} => \A b \in Agents : u.agents[b].announced = FALSE
  BY <1>2 DEF Sound
<1>7. Sound(u, X)
  BY <1>1, <1>3, <1>4, <1>5, <1>6 DEF Sound
<1> QED
  BY <1>1, <1>7 DEF u

\* The invitation c is deleted, with its timer.
Deleted(w, c) ==
  [cancelConversationTimers(w, c) EXCEPT !.conversations[c] = NoConversation]

\* With announcements nobody asks for the marks; without them both stay behind.
DeletedFrom(u, w, X, c) ==
  /\ Sound(u, X \cup Members(w.conversations[c]))
  /\ Announcements # {} => Sound(u, X)
  /\ u.agents = w.agents
  /\ \A a \in Agents : WT(a) \in u.timers <=> WT(a) \in w.timers
  /\ \A a \in Members(w.conversations[c]) :
       /\ Uninvited(u, a)
       /\ u.agents[a].pending_conversation_id = c
       /\ u.agents[a].current_conversation_id = None
       /\ u.agents[a].state \in {"idle", "in_action"}

\* An invitation is deleted; its two agents are still marked.
LEMMA DeletedSound ==
  ASSUME NEW w, NEW X, Sound(w, X), NEW c \in Conversations,
         w.conversations[c].status = "pending"
  PROVE  DeletedFrom(Deleted(w, c), w, X, c)
<1> DEFINE w1 == cancelConversationTimers(w, c)
           u == [w1 EXCEPT !.conversations[c] = NoConversation]
           M == Members(w.conversations[c])
<1>1. Shape(w) /\ Quiet(w1, w) /\ w1.agents = w.agents /\ w1.conversations = w.conversations
  BY QuietCancel DEF Sound, cancelConversationTimers, cancelTimersOf, Shape
<1> HIDE DEF w1
<1>2. Sound(w1, X)
  BY <1>1, QuietSound
<1>3. IsConversation(NoConversation)
  BY DEF IsConversation, NoConversation
<1>4. /\ Shape(u) /\ u.agents = w1.agents /\ u.timers = w1.timers
      /\ u.conversations[c] = NoConversation
      /\ \A d \in Conversations \ {c} : u.conversations[d] = w1.conversations[d]
  BY <1>1, <1>3, PutConversation DEF Quiet
<1> HIDE DEF u
<1>5. M \subseteq Agents
      /\ \A a \in M : w1.agents[a].pending_conversation_id = c
  BY <1>1, InvitedAre
<1>6. \A a \in Agents : InState(w1, a)
  BY <1>2 DEF Sound
<1>7. ASSUME NEW a \in M
      PROVE  /\ u.agents[a].pending_conversation_id = c
             /\ u.agents[a].current_conversation_id = None
             /\ u.agents[a].state \in {"idle", "in_action"}
  <2>1. w1.agents[a].pending_conversation_id = c /\ a \in Agents /\ c # None
    BY <1>5, ConversationAssumption
  <2>2. w1.agents[a].state \in {"idle", "in_action"}
    BY <1>6, <2>1 DEF InState
  <2>3. w1.agents[a].current_conversation_id = None
    BY <1>6, <2>1, <2>2 DEF InState
  <2> QED
    BY <1>4, <2>1, <2>2, <2>3
<1>8. NoConversation.status = "absent"
  BY DEF NoConversation
<1>9. ASSUME NEW d \in Conversations
      PROVE  /\ u.conversations[d].status = "pending" => Invites(u, d)
             /\ IsRunning(u, d) => Lists(u, d)
             /\ IsRunning(u, d) \/ Untimed(u, d)
  <2>1. /\ w1.conversations[d].status = "pending" => Invites(w1, d)
        /\ IsRunning(w1, d) => Lists(w1, d)
        /\ IsRunning(w1, d) \/ Untimed(w1, d)
    BY <1>2 DEF Sound
  <2>2. CASE d = c
    <3>1. ~IsRunning(w1, c)
      BY <1>1 DEF IsRunning
    <3> QED
      BY <1>4, <1>8, <2>1, <2>2, <3>1 DEF IsRunning, Untimed
  <2>3. CASE d # c
    <3>1. u.conversations[d] = w1.conversations[d]
      BY <1>4, <2>3
    <3>2. Invites(w1, d) => Invites(u, d)
      BY <1>4, <3>1 DEF Invites
    <3>3. Lists(w1, d) => Lists(u, d)
      BY <1>4, <3>1 DEF Lists
    <3> QED
      BY <1>4, <2>1, <3>1, <3>2, <3>3 DEF IsRunning, Untimed
  <2> QED
    BY <2>2, <2>3
<1>10. \A b \in Agents : InState(u, b)
  BY <1>4, <1>6 DEF InState
<1>11. Announcements = {} => \A b \in Agents : u.agents[b].announced = FALSE
  BY <1>2, <1>4 DEF Sound
<1>12. ASSUME NEW b \in Agents \ X
       PROVE  /\ Placed(u, b)
              /\ Announcements = {} /\ b \notin M => Marked(u, b)
  <2>1. Placed(w1, b) /\ (Announcements = {} => Marked(w1, b))
    BY <1>2 DEF Sound
  <2>2. ~IsRunning(w1, c) /\ Members(w1.conversations[c]) = M
    BY <1>1 DEF IsRunning
  <2>3. w1.agents[b].current_conversation_id \in Conversations \cup {None}
        /\ w1.agents[b].pending_conversation_id \in Conversations \cup {None}
    BY <1>1 DEF Quiet, Shape, AgentRecord
  <2>4. Placed(u, b)
    BY <1>4, <2>1, <2>2, <2>3 DEF Placed, IsRunning
  <2>5. ASSUME Announcements = {}, b \notin M PROVE Marked(u, b)
    <3>1. w1.agents[b].pending_conversation_id # c
      BY <2>1, <2>2, <2>5, ConversationAssumption DEF Marked
    <3> QED
      BY <1>4, <2>1, <2>3, <2>5, <3>1 DEF Marked
  <2> QED
    BY <2>4, <2>5
<1>13. Sound(u, X \cup M)
  BY <1>4, <1>9, <1>10, <1>11, <1>12 DEF Sound
<1>14. Announcements # {} => Sound(u, X)
  BY <1>4, <1>9, <1>10, <1>11, <1>12 DEF Sound
<1>15. ASSUME NEW a \in M PROVE Uninvited(u, a)
  <2> SUFFICES ASSUME NEW d \in Conversations, u.conversations[d].status = "pending",
                      a \in Members(u.conversations[d])
               PROVE  FALSE
    BY DEF Uninvited
  <2>1. d # c /\ w1.conversations[d] = u.conversations[d]
    BY <1>4, <1>8
  <2>2. w1.agents[a].pending_conversation_id = d
    BY <1>2, <2>1, InvitedAre
  <2> QED
    BY <1>5, <2>1, <2>2
<1>16. u.agents = w.agents
       /\ \A a \in Agents : WT(a) \in u.timers <=> WT(a) \in w.timers
  BY <1>1, <1>4 DEF Quiet, SameTimers
<1> HIDE DEF M
<1>17. DeletedFrom(u, w, X, c)
  BY <1>7, <1>13, <1>14, <1>15, <1>16 DEF DeletedFrom, M
<1> QED
  BY <1>17 DEF u, w1, Deleted

\* The invitation is gone, and so are its two marks.
LEMMA WithdrawSound ==
  ASSUME NEW w, NEW X, Sound(w, X), NEW c \in Conversations,
         w.conversations[c].status = "pending"
  PROVE  /\ Sound(withdraw(w, c), X) /\ Fades(withdraw(w, c), w)
         /\ \A a \in Members(w.conversations[c]) :
              withdraw(w, c).agents[a].pending_conversation_id = None
         /\ \A a \in Agents :
              withdraw(w, c).agents[a].announced = w.agents[a].announced
<1> DEFINE M == Members(w.conversations[c])
           w1 == Deleted(w, c)
           A == [a \in Agents |->
                   IF a \in M /\ LoggedIn(w, a)
                   THEN [w.agents[a] EXCEPT !.pending_conversation_id = None]
                   ELSE w.agents[a]]
           u == [w1 EXCEPT !.agents = A]
<1>1. DeletedFrom(w1, w, X, c)
  BY DeletedSound
<1>2. withdraw(w, c) = u
  BY DEF withdraw, Deleted
<1> HIDE DEF w1
<1>3. M \subseteq Agents /\ Shape(w) /\ \A a \in Agents : w.agents[a] \in AgentRecord
  BY EveryoneAgents DEF Sound, Shape
<1>4. \A a \in M : LoggedIn(w, a)
  BY <1>1 DEF DeletedFrom, LoggedIn
<1> HIDE DEF M
<1>5. ASSUME NEW a \in M
      PROVE  /\ A[a] \in AgentRecord /\ Freed(A[a], w.agents[a])
             /\ A[a].announced = w.agents[a].announced
  <2> DEFINE h == w.agents[a]
             g == [h EXCEPT !.pending_conversation_id = None]
  <2>1. h \in AgentRecord /\ A[a] = g
    BY <1>3, <1>4
  <2> HIDE DEF h, A
  <2>2. g \in AgentRecord /\ Freed(g, h)
    BY <2>1 DEF AgentRecord, Freed
  <2>3. g.announced = h.announced
    BY <2>1 DEF AgentRecord
  <2> QED
    BY <2>1, <2>2, <2>3 DEF h
<1>6. \A a \in Agents \ M : A[a] = w.agents[a]
  OBVIOUS
<1>7. A \in [Agents -> AgentRecord]
  <2>1. \A a \in Agents : A[a] \in AgentRecord
    BY <1>3, <1>5, <1>6
  <2>2. A = [a \in Agents |-> A[a]]
    OBVIOUS
  <2> HIDE DEF A
  <2> QED
    BY <2>1, <2>2
<1> HIDE DEF A
<1>8. /\ Sound(u, X) /\ u.agents = A
  <2>1. Sound(w1, X \cup M) /\ w1.agents = w.agents
    BY <1>1 DEF DeletedFrom, M
  <2>2. \A a \in M : /\ Freed(A[a], w1.agents[a]) /\ Uninvited(w1, a)
                     /\ w1.agents[a].current_conversation_id = None
    BY <1>1, <1>5, <2>1 DEF DeletedFrom, M
  <2>3. \A a \in Agents \ M : A[a] = w1.agents[a]
    BY <1>6, <2>1
  <2> QED
    <3>1. M \in SUBSET Agents /\ Sound(w1, X \cup M)
      BY <1>3, <2>1
    <3>2. Unmarks(A, w1, M)
      BY <2>2, <2>3 DEF Unmarks
    <3>3. Sound([w1 EXCEPT !.agents = A], X) /\ [w1 EXCEPT !.agents = A].agents = A
      BY <1>7, <3>1, <3>2, MarksGo
    <3> QED
      BY <3>3
<1> HIDE DEF u
<1>9. Fades(u, w)
  BY <1>5, <1>6, <1>8 DEF Fades, Freed
<1>10. \A a \in M : u.agents[a].pending_conversation_id = None
  BY <1>5, <1>8 DEF Freed
<1>11. \A a \in Agents : u.agents[a].announced = w.agents[a].announced
  BY <1>5, <1>6, <1>8
<1> QED
  BY <1>2, <1>8, <1>9, <1>10, <1>11 DEF M

\* The one that invited is told, and reminded that it is idle.
LEMMA RejectSound ==
  ASSUME NEW w, NEW X, Sound(w, X), NEW c \in Conversations,
         w.conversations[c].status = "pending", NEW a \in Agents
  PROVE  Sound(rejectConversation(w, c, a), X)
<1> DEFINE i == w.conversations[c].initiator
           w1 == withdraw(w, c)
           w2 == closeWindow(w1, i)
           w3 == closeWindow(w2, a)
<1>1. i \in Agents /\ w.agents[i].state = "idle"
  BY InvitedAre
<1>2. Sound(w1, X) /\ Fades(w1, w)
  BY WithdrawSound
<1>3. rejectConversation(w, c, a) = remind(w3, i)
  BY DEF rejectConversation
<1> HIDE DEF i, w1
<1>4. Quiet(w2, w1)
  BY <1>1, <1>2, QuietWindow DEF Sound
<1> HIDE DEF w2
<1>5. Quiet(w3, w2)
  BY <1>4, QuietWindow DEF Quiet
<1> HIDE DEF w3
<1>6. Quiet(w3, w1)
  BY <1>4, <1>5, QuietTwice
<1>7. Sound(w3, X)
  BY <1>2, <1>6, QuietSound
<1>8. w3.agents[i].state = "idle"
  BY <1>1, <1>2, <1>6 DEF Fades, Quiet, SameAgent
<1> QED
  BY <1>1, <1>3, <1>7, <1>8, RemindSound

\* An invitation is not answered in time.
LEMMA AcceptTimeoutSound ==
  ASSUME NEW w, NEW X, Sound(w, X), NEW timer, timer.type = "conversation_accept",
         timer.about.conversation \in Conversations
  PROVE  Sound(handleAcceptTimeout(w, timer), X)
<1> DEFINE c == timer.about.conversation
           fired == cancel(w, timer)
           t == w.conversations[c].participants[2]
<1>1. handleAcceptTimeout(w, timer)
        = IF w.conversations[c].status # "pending" THEN fired
          ELSE rejectConversation(fired, c, t)
  BY DEF handleAcceptTimeout
<1>2. Quiet(fired, w)
  BY QuietCancel DEF Sound
<1> HIDE DEF fired
<1>3. Sound(fired, X)
  BY <1>2, QuietSound
<1>4. ASSUME w.conversations[c].status = "pending"
      PROVE  Sound(rejectConversation(fired, c, t), X)
  <2>1. t \in Agents
    BY <1>4, InvitedAre
  <2>2. fired.conversations[c].status = "pending"
    BY <1>2, <1>4 DEF Quiet, SameLists
  <2> HIDE DEF t, c
  <2> QED
    BY <1>3, <2>1, <2>2, RejectSound DEF c
<1> QED
  BY <1>1, <1>3, <1>4

\* Where no conversation is found there is none.
LEMMA NotFound ==
  ASSUME NEW w, NEW a, NEW statuses,
         findConversationByAgent(w, a, statuses) = None,
         NEW c \in Conversations, w.conversations[c].status \in statuses
  PROVE  a \notin Everyone(w.conversations[c])
<1> DEFINE S == {d \in Conversations :
                   /\ w.conversations[d].status \in statuses
                   /\ a \in Members(w.conversations[d])
                              \cup ToSet(w.conversations[d].joiners)}
           cur == w.agents[a].current_conversation_id
<1>1. None = IF cur \in S THEN cur ELSE IF S = {} THEN None ELSE CHOOSE d \in S : TRUE
  BY DEF findConversationByAgent
<1>2. S # {} => (CHOOSE d \in S : TRUE) \in S
  OBVIOUS
<1>3. None \notin S
  BY ConversationAssumption
<1> HIDE DEF S, cur
<1>4. S = {}
  BY <1>1, <1>2, <1>3
<1> QED
  BY <1>4 DEF S, Everyone, Members

\* An announcement dissolves the invitation of the one it interrupts.
LEMMA DissolveSound ==
  ASSUME NEW w, Sound(w, {}), Announcements # {}, NEW a \in Agents
  PROVE  /\ Sound(cancelPendingConversationForServerAnnouncement(w, a), {})
         /\ Fades(cancelPendingConversationForServerAnnouncement(w, a), w)
         /\ Uninvited(cancelPendingConversationForServerAnnouncement(w, a), a)
         /\ cancelPendingConversationForServerAnnouncement(w, a).agents[a].announced
              = w.agents[a].announced
<1> DEFINE c == findConversationByAgent(w, a, {"pending"})
           v == w.conversations[c]
           idle == {b \in Members(v) : w.agents[b].state = "idle"}
           w1 == withdraw(w, c)
           u == cancelPendingConversationForServerAnnouncement(w, a)
<1>1. \/ (w.agents[a].pending_conversation_id = None \/ c = None) /\ u = w
      \/ c # None /\ u \in {Deleted(w, c), startIdleReminders(w1, idle)}
  BY DEF cancelPendingConversationForServerAnnouncement, Deleted
<1>2. c = None \/ /\ c \in Conversations /\ w.conversations[c].status = "pending"
                  /\ a \in Everyone(w.conversations[c])
  BY Found
<1>3. CASE (w.agents[a].pending_conversation_id = None \/ c = None) /\ u = w
  <2>1. ASSUME c = None PROVE Uninvited(w, a)
    BY <2>1, NotFound DEF Uninvited, Everyone, Members
  <2>2. Uninvited(w, a)
    BY <1>3, <2>1, UnmarkedUninvited
  <2>3. Fades(w, w)
    BY QuietSelf, QuietFades DEF Sound
  <2> QED
    BY <1>3, <2>2, <2>3
<1>4. CASE c # None /\ u \in {Deleted(w, c), startIdleReminders(w1, idle)}
  <2>1. c \in Conversations /\ w.conversations[c].status = "pending"
    BY <1>2, <1>4
  <2>2. a \in Members(v) /\ Members(v) \subseteq Agents
    BY <1>2, <1>4, <2>1, InvitedAre
  <2>3. CASE u = Deleted(w, c)
    <3>1. DeletedFrom(u, w, {}, c)
      BY <2>1, <2>3, DeletedSound
    <3> HIDE DEF u
    <3>2. Sound(u, {}) /\ u.agents = w.agents /\ Uninvited(u, a)
      BY <2>2, <3>1 DEF DeletedFrom
    <3>3. Fades(u, w)
      BY <3>2 DEF Fades
    <3> QED
      BY <3>2, <3>3 DEF u
  <2>4. CASE u = startIdleReminders(w1, idle)
    <3>1. /\ Sound(w1, {}) /\ Fades(w1, w)
          /\ w1.agents[a].pending_conversation_id = None
          /\ w1.agents[a].announced = w.agents[a].announced
      BY <2>1, <2>2, WithdrawSound
    <3> HIDE DEF w1, u
    <3>2. idle \in SUBSET Agents /\ \A b \in idle : w1.agents[b].state = "idle"
      BY <2>2, <3>1 DEF Fades
    <3> HIDE DEF idle
    <3>3. Sound(u, {}) /\ u.agents = w1.agents /\ u.conversations = w1.conversations
      BY <2>4, <3>1, <3>2, RemindersSound
    <3>4. Uninvited(u, a)
      BY <3>1, <3>3, UnmarkedUninvited
    <3>5. Fades(u, w)
      BY <3>1, <3>3 DEF Fades
    <3> QED
      BY <3>1, <3>3, <3>4, <3>5 DEF u
  <2> QED
    BY <1>4, <2>3, <2>4
<1> QED
  BY <1>1, <1>3, <1>4

(***************************************************************************)
(* Activities.                                                             *)
(***************************************************************************)

\* There are no actions and no item uses here to be cancelled.
LEMMA CancelNone ==
  ASSUME NEW w, Shape(w), NEW a
  PROVE  cancelActive(w, a, "action") = w /\ cancelActive(w, a, "item_use") = w
<1>1. TimersOf(w, a, {"action"}) = {} /\ TimersOf(w, a, {"item_use"}) = {}
  BY DEF Shape, OwnTimers, TimersOf
<1> QED
  BY <1>1 DEF cancelActive

Stopped(w, a) == setState(cancel(w, WT(a)), a, "idle")

\* An agent stops waiting, and nothing else changes.
LEMMA StoppedActs ==
  ASSUME NEW w, Shape(w), NEW a \in Agents
  PROVE  Acts(Stopped(w, a), w, a, "idle") /\ Shape(Stopped(w, a))
<1> DEFINE w1 == cancel(w, WT(a))
           g == [w.agents[a] EXCEPT !.state = "idle"]
           u == [w1 EXCEPT !.agents[a] = g]
           T == w.timers \ {WT(a)}
<1>1. w1 = [w EXCEPT !.timers = T]
  BY DEF cancel
<1>2. w1.agents = w.agents /\ w1.conversations = w.conversations /\ w1.timers = T
  BY <1>1 DEF Shape
<1>3. OwnTimers(T)
  BY DEF Shape, OwnTimers
<1> HIDE DEF T
<1>4. Shape(w1)
  BY <1>1, <1>3 DEF Shape
<1>5. Stopped(w, a) = u
  BY <1>2, <1>4 DEF Stopped, setState, Shape
<1> HIDE DEF w1
<1>6. w.agents[a] \in AgentRecord
  BY DEF Shape
<1>7. /\ g \in AgentRecord /\ g.state = "idle"
      /\ g.pending_conversation_id = w.agents[a].pending_conversation_id
      /\ g.current_conversation_id = w.agents[a].current_conversation_id
      /\ w.agents[a].announced = FALSE => g.announced = FALSE
  BY <1>6 DEF AgentRecord
<1> HIDE DEF g
<1>8. /\ Shape(u) /\ u.conversations = w.conversations /\ u.timers = T
      /\ u.agents[a] = g /\ \A b \in Agents \ {a} : u.agents[b] = w.agents[b]
  <2> DEFINE A == [w.agents EXCEPT ![a] = g]
  <2>1. /\ A \in [Agents -> AgentRecord] /\ A[a] = g
        /\ \A b \in Agents \ {a} : A[b] = w.agents[b]
    BY <1>7 DEF Shape
  <2>2. u = [w1 EXCEPT !.agents = A]
    BY <1>2, <1>4 DEF Shape
  <2> HIDE DEF A, u
  <2>3. u.agents = A /\ u.conversations = w.conversations /\ u.timers = T
    BY <1>2, <1>4, <2>2 DEF Shape
  <2>4. Shape(u)
    BY <1>2, <1>4, <2>1, <2>2 DEF Shape
  <2> QED
    BY <2>1, <2>3, <2>4
<1> HIDE DEF u
<1>9. /\ WT(a) \notin T
      /\ \A b \in Agents \ {a} : WT(b) \in T <=> WT(b) \in w.timers
      /\ \A b \in Agents \ {a} : IR(b) \in T <=> IR(b) \in w.timers
      /\ \A x \in T : x \in w.timers
  BY OwnFacts DEF T
<1>10. Acts(u, w, a, "idle")
  BY <1>7, <1>8, <1>9 DEF Acts
<1> QED
  BY <1>5, <1>8, <1>10

\* What an interrupted agent was doing is stopped.
LEMMA InterruptIs ==
  ASSUME NEW w, Shape(w), NEW a \in Agents, InState(w, a)
  PROVE  /\ interruptActivityOf(w, a)
              = IF w.agents[a].state = "in_action" THEN Stopped(w, a) ELSE w
         /\ interruptActivity(w, a)
              = IF w.agents[a].state = "in_action" THEN Stopped(w, a) ELSE w
<1>1. CASE w.agents[a].state # "in_action"
  BY <1>1 DEF interruptActivityOf, interruptActivity
<1>2. CASE w.agents[a].state = "in_action"
  <2>1. WT(a) \in w.timers
    BY <1>2 DEF InState
  <2>2. TimersOf(w, a, {"wait"}) = {WT(a)}
    BY <2>1, OwnFacts DEF TimersOf, Shape, OwnTimers
  <2>3. (CHOOSE x \in TimersOf(w, a, {"wait"}) : TRUE) = WT(a)
    BY <2>2
  <2>4. cancelActive(w, a, "wait") = Stopped(w, a)
    BY <1>2, <2>2, <2>3 DEF cancelActive, Stopped
  <2>5. cancelActive(w, a, "action") = w
    BY CancelNone
  <2>6. Shape(Stopped(w, a))
    BY StoppedActs
  <2>7. /\ cancelActive(Stopped(w, a), a, "action") = Stopped(w, a)
        /\ cancelActive(Stopped(w, a), a, "item_use") = Stopped(w, a)
    BY <2>6, CancelNone
  <2>8. cancelActiveActivities(w, a) = Stopped(w, a)
    BY <2>4, <2>7 DEF cancelActiveActivities
  <2>9. interruptActivityOf(w, a) = Stopped(w, a)
    BY <1>2, <2>8 DEF interruptActivityOf
  <2>10. interruptActivity(w, a) = Stopped(w, a)
    BY <1>2, <2>4, <2>5, <2>7 DEF interruptActivity
  <2> QED
    BY <1>2, <2>9, <2>10
<1> QED
  BY <1>1, <1>2

\* An agent stops waiting and is idle.
LEMMA StoppedSound ==
  ASSUME NEW w, NEW X, Sound(w, X), NEW a \in Agents,
         w.agents[a].state # "in_conversation"
  PROVE  /\ Sound(Stopped(w, a), X) /\ Stopped(w, a).agents[a].state = "idle"
         /\ Stopped(w, a).conversations = w.conversations
<1> DEFINE u == Stopped(w, a)
           s == "idle"
<1>1. Acts(u, w, a, "idle")
  BY StoppedActs DEF Sound
<1> HIDE DEF u
<1>2. s \in Alone /\ (s = "idle" \/ Uninvited(w, a)) /\ Acts(u, w, a, s)
  BY <1>1 DEF Alone
<1> HIDE DEF s
<1>3. Sound(u, X)
  BY <1>2, ActsSound
<1>4. u.agents[a].state = "idle" /\ u.conversations = w.conversations
  BY <1>1 DEF Acts
<1> QED
  BY <1>3, <1>4 DEF u

\* After an interruption an agent that may act is idle, and invited nowhere.
LEMMA InterruptionSound ==
  ASSUME NEW w, Sound(w, {}), NEW a \in Agents, requireActionableAgent(w, a)
  PROVE  /\ Sound(handleInterruption(w, a), {})
         /\ handleInterruption(w, a).agents[a].state = "idle"
         /\ Uninvited(handleInterruption(w, a), a)
<1> DEFINE u == handleInterruption(w, a)
<1>1. CASE ~w.agents[a].announced
  <2>1. u = w
    BY <1>1 DEF handleInterruption
  <2>2. w.agents[a].state = "idle" /\ w.agents[a].pending_conversation_id = None
    BY <1>1 DEF requireActionableAgent
  <2> QED
    BY <2>1, <2>2, UnmarkedUninvited
<1>2. CASE w.agents[a].announced /\ w.agents[a].state = "in_conversation"
  <2> DEFINE w1 == leaveForAnnouncement(w, a)
             w2 == setState(w1, a, "idle")
  <2>1. u = clearActiveServerAnnouncement(w2, a)
    BY <1>2 DEF handleInterruption
  <2>2. Keeps(w1, w, {}) /\ w1.agents[a].state = "idle"
    BY <1>2, LeaveForKeeps
  <2> HIDE DEF w1
  <2>3. Quiet(w2, w1)
    BY <2>2, QuietIdle DEF Keeps, Sound
  <2> HIDE DEF w2
  <2>4. Quiet(u, w2)
    BY <2>1, <2>3, QuietWindow DEF Quiet
  <2> HIDE DEF u
  <2>5. Quiet(u, w1)
    BY <2>3, <2>4, QuietTwice
  <2>6. Sound(u, {})
    BY <2>2, <2>5, QuietSound DEF Keeps
  <2>7. w.agents[a].pending_conversation_id = None
    BY <1>2 DEF Sound, InState
  <2>8. u.agents[a].state = "idle" /\ u.agents[a].pending_conversation_id = None
    BY <2>2, <2>5, <2>7 DEF Keeps, Fades, Quiet, SameAgent
  <2>9. Uninvited(u, a)
    BY <2>6, <2>8, UnmarkedUninvited
  <2> QED
    BY <2>6, <2>8, <2>9 DEF u
<1>3. CASE w.agents[a].announced /\ w.agents[a].state # "in_conversation"
  <2> DEFINE w1 == cancelPendingConversationForServerAnnouncement(w, a)
             w2 == interruptActivity(w1, a)
             w3 == setState(w2, a, "idle")
  <2>1. u = handleServerAnnouncementInterruption(w1, a, NoFaults)
    BY <1>3 DEF handleInterruption
  <2>2. Announcements # {}
    BY <1>3 DEF Sound
  <2>3. /\ Sound(w1, {}) /\ Fades(w1, w) /\ Uninvited(w1, a)
        /\ w1.agents[a].announced = w.agents[a].announced
    BY <2>2, DissolveSound
  <2> HIDE DEF w1
  <2>4. w.agents[a].state \in {"idle", "in_action"}
    BY <1>3 DEF Sound, Shape, AgentRecord, requireActionableAgent, LoggedIn
  <2>5. w1.agents[a].state \in {"idle", "in_action"}
    BY <2>3, <2>4 DEF Fades
  <2>6. u = clearActiveServerAnnouncement(w3, a)
    BY <1>3, <2>1, <2>3, <2>5
       DEF handleServerAnnouncementInterruption, LoggedIn
  <2>7. w2 = IF w1.agents[a].state = "in_action" THEN Stopped(w1, a) ELSE w1
    BY <2>3, InterruptIs DEF Sound
  <2>8. Sound(Stopped(w1, a), {}) /\ Stopped(w1, a).agents[a].state = "idle"
        /\ Stopped(w1, a).conversations = w1.conversations
    BY <2>3, <2>5, StoppedSound
  <2>9. Sound(w2, {}) /\ w2.agents[a].state = "idle" /\ Uninvited(w2, a)
    BY <2>3, <2>5, <2>7, <2>8 DEF Uninvited
  <2> HIDE DEF w2
  <2>10. Quiet(w3, w2)
    BY <2>9, QuietIdle DEF Sound
  <2> HIDE DEF w3
  <2>11. Quiet(u, w3)
    BY <2>6, <2>10, QuietWindow DEF Quiet
  <2> HIDE DEF u
  <2>12. Quiet(u, w2)
    BY <2>10, <2>11, QuietTwice
  <2>13. Sound(u, {})
    BY <2>9, <2>12, QuietSound
  <2>14. u.agents[a].state = "idle" /\ Uninvited(u, a)
    BY <2>9, <2>12 DEF Quiet, SameAgent, SameLists, Uninvited, Members
  <2> QED
    BY <2>13, <2>14 DEF u
<1> QED
  BY <1>1, <1>2, <1>3

\* Beginning to wait: the reminder and an older wait are gone.
LEMMA WaitActs ==
  ASSUME NEW w, Shape(w), NEW a \in Agents
  PROVE  \E u : /\ Acts(u, w, a, "in_action")
                /\ executeValidatedWait(w, a) = clearExcludedInfoCommands(u, a)
<1> DEFINE T1 == {x \in w.timers : ~(a \in x.agent_ids /\ x.type = "idle_reminder")}
           T2 == {x \in T1 : ~(a \in x.agent_ids /\ x.type = "wait")}
           T3 == T2 \cup {WT(a)}
           w1 == [w EXCEPT !.timers = T1]
           w2 == [w1 EXCEPT !.timers = T2]
           g == [w.agents[a] EXCEPT !.state = "in_action"]
           A == [w.agents EXCEPT ![a] = g]
           w3 == [w2 EXCEPT !.agents = A]
           u == [w3 EXCEPT !.timers = T3]
<1>1. w1 = cancelIdleReminder(w, a)
  BY DEF cancelIdleReminder, cancelByType
<1>2. w1.timers = T1 /\ w1.agents = w.agents
  BY DEF Shape
<1>3. w2 = cancelByType(w1, a, "wait")
  BY <1>2 DEF cancelByType
<1>4. w2.timers = T2 /\ w2.agents = w.agents
  BY <1>2 DEF Shape
<1>5. w3 = setState(w2, a, "in_action")
  BY <1>4 DEF setState
<1>6. w3.timers = T2
  BY <1>4 DEF Shape
<1>7. WT(a) \notin T2
  BY OwnFacts
<1>8. create(w3, WT(a)) = u
  <2>1. [WT(a) EXCEPT !.twin = WT(a) \in T2] = WT(a)
    BY <1>7, FreshTimer DEF WT
  <2> HIDE DEF T2, w3
  <2> QED
    BY <1>6, <2>1 DEF create
<1>9. executeValidatedWait(w, a) = clearExcludedInfoCommands(u, a)
  BY <1>1, <1>3, <1>5, <1>8 DEF executeValidatedWait, startActivity, WT
<1>10. u = [w EXCEPT !.agents = A, !.timers = T3]
  BY DEF Shape
<1>11. /\ OwnTimers(T3) /\ WT(a) \in T3 /\ IR(a) \notin T3
       /\ \A b \in Agents \ {a} : WT(b) \in T3 <=> WT(b) \in w.timers
       /\ \A b \in Agents \ {a} : IR(b) \in T3 <=> IR(b) \in w.timers
       /\ \A x \in T3 : x.type \in TalkTypes => x \in w.timers
  <2>1. OwnTimers(T3)
    BY OwnFacts DEF OwnTimers, Shape
  <2>2. \A b \in Agents \ {a} : a \notin {b} /\ WT(b) # WT(a) /\ IR(b) # WT(a)
    BY OwnFacts
  <2>3. \A b \in Agents \ {a} : WT(b) \in T3 <=> WT(b) \in w.timers
    BY <2>2, OwnFacts
  <2>4. \A b \in Agents \ {a} : IR(b) \in T3 <=> IR(b) \in w.timers
    BY <2>2, OwnFacts
  <2>5. IR(a) \notin T3
    BY OwnFacts
  <2>6. \A x \in T3 : x.type \in TalkTypes => x \in w.timers
    BY OwnFacts DEF TalkTypes
  <2> QED
    BY <2>1, <2>3, <2>4, <2>5, <2>6
<1> HIDE DEF T3, u
<1>12. /\ A \in [Agents -> AgentRecord] /\ A[a].state = "in_action"
       /\ A[a].pending_conversation_id = w.agents[a].pending_conversation_id
       /\ A[a].current_conversation_id = w.agents[a].current_conversation_id
       /\ w.agents[a].announced = FALSE => A[a].announced = FALSE
       /\ \A b \in Agents \ {a} : A[b] = w.agents[b]
  <2> DEFINE h == w.agents[a]
  <2>1. h \in AgentRecord /\ g = [h EXCEPT !.state = "in_action"]
    BY DEF Shape
  <2> HIDE DEF h, g
  <2>2. /\ g \in AgentRecord /\ g.state = "in_action"
        /\ g.pending_conversation_id = h.pending_conversation_id
        /\ g.current_conversation_id = h.current_conversation_id
        /\ h.announced = FALSE => g.announced = FALSE
    BY <2>1 DEF AgentRecord
  <2> QED
    BY <2>2 DEF h, Shape
<1> HIDE DEF A
<1>13. u.agents = A /\ u.conversations = w.conversations /\ u.timers = T3
  BY <1>10 DEF Shape
<1>14. Shape(u)
  BY <1>10, <1>11, <1>12, <1>13 DEF Shape
<1>15. Acts(u, w, a, "in_action")
  BY <1>11, <1>12, <1>13, <1>14 DEF Acts
<1> QED
  BY <1>9, <1>15

\* An idle agent that is not invited waits.
LEMMA WaitSound ==
  ASSUME NEW w, NEW X, Sound(w, X), NEW a \in Agents,
         w.agents[a].state = "idle", Uninvited(w, a)
  PROVE  Sound(executeValidatedWait(w, a), X)
<1> DEFINE s == "in_action"
<1>1. PICK u : /\ Acts(u, w, a, "in_action")
               /\ executeValidatedWait(w, a) = clearExcludedInfoCommands(u, a)
  BY WaitActs DEF Sound
<1>2. s \in Alone /\ Acts(u, w, a, s)
  BY <1>1 DEF Alone
<1> HIDE DEF s
<1>3. Sound(u, X)
  BY <1>2, ActsSound
<1>4. Quiet(clearExcludedInfoCommands(u, a), u)
  BY <1>3, QuietWindow DEF Sound
<1> QED
  BY <1>1, <1>3, <1>4, QuietSound

\* The end of a wait.
LEMMA WaitedSound ==
  ASSUME NEW w, NEW X, Sound(w, X), NEW a \in Agents, NEW timer \in w.timers,
         timer.type = "wait", a \in timer.agent_ids
  PROVE  Sound(handleWaitCompleted(w, timer, a), X)
<1>1. timer = WT(a)
  BY OwnFacts DEF Sound, Shape, OwnTimers
<1>2. w.agents[a].state = "in_action"
  BY <1>1 DEF Sound, InState
<1>3. Sound(Stopped(w, a), X) /\ Stopped(w, a).agents[a].state = "idle"
  BY <1>2, StoppedSound
<1>4. handleWaitCompleted(w, timer, a) = startIdleReminder(Stopped(w, a), a)
  BY <1>1, <1>2 DEF handleWaitCompleted, LoggedIn, becomeIdle, Stopped
<1>5. startIdleReminder(Stopped(w, a), a) = startIdleReminders(Stopped(w, a), {a})
  BY <1>3, ReminderIs DEF Sound
<1> QED
  BY <1>3, <1>4, <1>5, RemindersSound

\* An agent logs in.
LEMMA LoginSound ==
  ASSUME NEW w, NEW X, Sound(w, X), NEW a \in Agents, ~LoggedIn(w, a)
  PROVE  Sound(startIdleReminder(login(w, a), a), X)
<1> DEFINE u == login(w, a)
           s == "idle"
           g == [LoggedOut EXCEPT !.state = "idle"]
           A == [w.agents EXCEPT ![a] = g]
<1>1. /\ w.agents[a].state = "logged_out"
      /\ w.agents[a].pending_conversation_id = None
      /\ w.agents[a].current_conversation_id = None
      /\ WT(a) \notin w.timers /\ Shape(w)
  BY DEF LoggedIn, Sound, InState
<1>2. /\ g \in AgentRecord /\ g.state = "idle" /\ g.announced = FALSE
      /\ g.pending_conversation_id = None /\ g.current_conversation_id = None
  BY DEF LoggedOut, AgentRecord
<1>3. u = [w EXCEPT !.agents = A, !.purses[a] = w.registrations[a]]
  BY DEF login
<1> HIDE DEF g, u
<1>4. /\ A \in [Agents -> AgentRecord] /\ A[a] = g
      /\ \A b \in Agents \ {a} : A[b] = w.agents[b]
  BY <1>1, <1>2 DEF Shape
<1> HIDE DEF A
<1>5. u.agents = A /\ u.conversations = w.conversations /\ u.timers = w.timers
  BY <1>1, <1>3 DEF Shape
<1>6. Shape(u)
  BY <1>1, <1>3, <1>4, <1>5 DEF Shape
<1>7. Acts(u, w, a, s)
  BY <1>1, <1>2, <1>4, <1>5, <1>6 DEF Acts
<1>8. s \in Alone /\ s = "idle"
  BY DEF Alone
<1> HIDE DEF s
<1>9. w.agents[a].state # "in_conversation"
  BY <1>1
<1>10. Sound(u, X)
  BY <1>7, <1>8, <1>9, ActsSound
<1>11. u.agents[a].state = "idle"
  BY <1>2, <1>4, <1>5
<1>12. startIdleReminder(u, a) = startIdleReminders(u, {a})
  BY <1>6, ReminderIs
<1>13. Sound(startIdleReminders(u, {a}), X)
  BY <1>10, <1>11, RemindersSound
<1> QED
  BY <1>12, <1>13 DEF u

(***************************************************************************)
(* Entering a conversation.                                                *)
(***************************************************************************)

\* The agents S have entered conversation c, whose record is now v.
Entered(u, w, c, v, S) ==
  /\ Shape(u) /\ u.conversations[c] = v
  /\ \A d \in Conversations \ {c} : u.conversations[d] = w.conversations[d]
  /\ \A a \in S : LET g == u.agents[a]
                  IN  /\ g.state = "in_conversation"
                      /\ g.pending_conversation_id = None
                      /\ g.current_conversation_id = c
                      /\ g.announced = FALSE
  /\ \A a \in Agents \ S : u.agents[a] = w.agents[a]
  /\ \A a \in Agents : WT(a) \in u.timers <=> WT(a) \in w.timers
  /\ \A a \in Agents : IR(a) \in u.timers => IR(a) \in w.timers /\ a \notin S
  /\ \A x \in u.timers : x.type \in TalkTypes => x \in w.timers

\* They may: v is of those that are there and of S, and nobody else waits for S.
MayEnter(w, c, v, S) ==
  /\ IsConversation(v) /\ Fit(v) /\ Runs(v) /\ S \subseteq Everyone(v)
  /\ \A a \in Everyone(v) \ S : w.agents[a].current_conversation_id = c
  /\ \A a \in Agents \ S :
       w.agents[a].current_conversation_id = c => a \in Everyone(v)
  /\ \A a \in S : w.agents[a].state = "idle"
  /\ \A d \in Conversations \ {c} :
       w.conversations[d].status = "pending"
         => S \cap Members(w.conversations[d]) = {}
  /\ w.conversations[c].status = "pending" => Members(w.conversations[c]) \subseteq S

\* Agents that may enter a conversation do.
LEMMA EnterSound ==
  ASSUME NEW w, NEW X, Sound(w, X), NEW c \in Conversations, NEW v,
         NEW S \in SUBSET Agents, MayEnter(w, c, v, S),
         NEW u, Entered(u, w, c, v, S)
  PROVE  Sound(u, X)
<1>1. /\ Shape(u) /\ Shape(w) /\ u.conversations[c] = v /\ Runs(v) /\ Fit(v)
      /\ \A d \in Conversations \ {c} : u.conversations[d] = w.conversations[d]
      /\ \A a \in Agents \ S : u.agents[a] = w.agents[a]
  BY DEF Entered, MayEnter, Sound
<1>2. \A a \in S : /\ u.agents[a].state = "in_conversation"
                   /\ u.agents[a].pending_conversation_id = None
                   /\ u.agents[a].current_conversation_id = c
                   /\ u.agents[a].announced = FALSE
  BY DEF Entered
<1>3. \A a \in Agents : InState(w, a)
  BY DEF Sound
<1>4. \A a \in S : /\ w.agents[a].state = "idle"
                   /\ w.agents[a].current_conversation_id = None
                   /\ WT(a) \notin w.timers
  BY <1>3 DEF MayEnter, InState
<1>5. ASSUME NEW a \in Agents PROVE InState(u, a)
  <2>1. WT(a) \in u.timers <=> WT(a) \in w.timers
    BY DEF Entered
  <2>2. IR(a) \in u.timers => IR(a) \in w.timers /\ a \notin S
    BY DEF Entered
  <2>3. CASE a \in S
    BY <1>2, <1>4, <2>1, <2>2, <2>3, ConversationAssumption DEF InState
  <2>4. CASE a \notin S
    BY <1>1, <1>3, <2>1, <2>2, <2>4 DEF InState
  <2> QED
    BY <2>3, <2>4
<1>6. ASSUME NEW d \in Conversations
      PROVE  /\ u.conversations[d].status = "pending" => Invites(u, d)
             /\ IsRunning(u, d) => Lists(u, d)
             /\ IsRunning(u, d) \/ Untimed(u, d)
  <2>1. CASE d = c
    <3>1. IsRunning(u, c) /\ u.conversations[c].status # "pending"
      BY <1>1 DEF Runs, IsRunning
    <3>2. Everyone(v) \subseteq Agents
      BY <1>1, EveryoneAgents
    <3>3. \A a \in Everyone(v) : u.agents[a].current_conversation_id = c
      BY <1>1, <1>2, <3>2 DEF MayEnter
    <3>4. Lists(u, c)
      BY <1>1, <3>3 DEF Lists, Fit
    <3> QED
      BY <2>1, <3>1, <3>4
  <2>2. CASE d # c
    <3>1. u.conversations[d] = w.conversations[d]
      BY <1>1, <2>2
    <3>2. /\ w.conversations[d].status = "pending" => Invites(w, d)
          /\ IsRunning(w, d) => Lists(w, d)
          /\ IsRunning(w, d) \/ Untimed(w, d)
      BY DEF Sound
    <3>3. ASSUME w.conversations[d].status = "pending" PROVE Invites(u, d)
      <4>1. PICK i, t \in Agents :
              /\ w.conversations[d].initiator = i
              /\ w.conversations[d].participants = <<i, t>>
              /\ w.conversations[d].joiners = <<>>
              /\ w.agents[i].pending_conversation_id = d
              /\ w.agents[t].pending_conversation_id = d
              /\ w.agents[i].state = "idle"
        BY <3>2, <3>3 DEF Invites
      <4>2. i \in Members(w.conversations[d]) /\ t \in Members(w.conversations[d])
        BY <4>1 DEF Members, ToSet
      <4>3. i \notin S /\ t \notin S
        BY <2>2, <3>3, <4>2 DEF MayEnter
      <4>4. u.agents[i] = w.agents[i] /\ u.agents[t] = w.agents[t]
        BY <1>1, <4>3
      <4> QED
        BY <3>1, <4>1, <4>4 DEF Invites
    <3>4. ASSUME IsRunning(w, d) PROVE Lists(u, d)
      <4>1. Lists(w, d) /\ Everyone(w.conversations[d]) \subseteq Agents
        BY <1>1, <3>2, <3>4, EveryoneAgents
      <4>2. \A a \in Everyone(w.conversations[d]) : a \notin S
        BY <1>4, <4>1, ConversationAssumption DEF Lists
      <4>3. \A a \in Everyone(w.conversations[d]) : u.agents[a] = w.agents[a]
        BY <1>1, <4>1, <4>2
      <4> QED
        BY <3>1, <4>1, <4>3 DEF Lists
    <3>5. Untimed(w, d) => Untimed(u, d)
      BY DEF Untimed, Entered
    <3> QED
      BY <3>1, <3>2, <3>3, <3>4, <3>5 DEF IsRunning
  <2> QED
    BY <2>1, <2>2
<1>7. ASSUME NEW b \in Agents \ X
      PROVE  Placed(u, b) /\ (Announcements = {} => Marked(u, b))
  <2>1. CASE b \in S
    <3>1. b \in Everyone(v)
      BY <2>1 DEF MayEnter
    <3> QED
      BY <1>1, <1>2, <2>1, <3>1 DEF Placed, Marked, IsRunning, Runs
  <2>2. CASE b \notin S
    <3>1. Placed(w, b) /\ (Announcements = {} => Marked(w, b))
      BY DEF Sound
    <3>2. u.agents[b] = w.agents[b] /\ w.agents[b] \in AgentRecord
      BY <1>1, <2>2 DEF Shape
    <3>3. w.agents[b].current_conversation_id = c => b \in Everyone(v)
      BY <2>2 DEF MayEnter
    <3>4. Placed(u, b)
      BY <1>1, <3>1, <3>2, <3>3 DEF Placed, IsRunning, Runs, AgentRecord
    <3>5. ASSUME Announcements = {} PROVE Marked(u, b)
      <4>1. w.agents[b].pending_conversation_id # c
        BY <2>2, <3>1, <3>5, ConversationAssumption DEF Marked, MayEnter
      <4> QED
        BY <1>1, <3>1, <3>2, <3>5, <4>1 DEF Marked, AgentRecord
    <3> QED
      BY <3>4, <3>5
  <2> QED
    BY <2>1, <2>2
<1>8. Announcements = {} => \A b \in Agents : u.agents[b].announced = FALSE
  BY <1>1, <1>2 DEF Sound
<1> QED
  BY <1>1, <1>5, <1>6, <1>7, <1>8 DEF Sound

\* One agent's record and reminder, as it enters.
OneEntered(u, w, c, a) ==
  /\ Shape(u) /\ u.conversations = w.conversations
  /\ LET g == u.agents[a]
     IN  /\ g.state = "in_conversation" /\ g.pending_conversation_id = None
         /\ g.current_conversation_id = c /\ g.announced = FALSE
  /\ \A b \in Agents \ {a} : u.agents[b] = w.agents[b]
  /\ \A b \in Agents : WT(b) \in u.timers <=> WT(b) \in w.timers
  /\ \A b \in Agents : IR(b) \in u.timers => IR(b) \in w.timers /\ b # a
  /\ \A x \in u.timers : x \in w.timers

\* enterConversation changes one agent.
LEMMA EnterOne ==
  ASSUME NEW w, Shape(w), NEW c \in Conversations, NEW a \in Agents
  PROVE  OneEntered(enterConversation(w, c, a), w, c, a)
<1> DEFINE T == {x \in w.timers : ~(a \in x.agent_ids /\ x.type = "idle_reminder")}
           w1 == [w EXCEPT !.timers = T]
           h == w.agents[a]
           g == [h EXCEPT !.pending_conversation_id = None,
                          !.current_conversation_id = c,
                          !.state = "in_conversation",
                          !.excluded = {}, !.announced = FALSE]
           A == [w.agents EXCEPT ![a] = g]
           u == [w1 EXCEPT !.agents = A]
<1>1. w1 = cancelIdleReminder(w, a) /\ w1.agents = w.agents
  BY DEF cancelIdleReminder, cancelByType, Shape
<1>2. enterConversation(w, c, a) = u
  <2> DEFINE g1 == [h EXCEPT !.pending_conversation_id = None,
                             !.current_conversation_id = c,
                             !.state = "in_conversation"]
             g2 == [g1 EXCEPT !.excluded = {}]
             A1 == [w.agents EXCEPT ![a] = g1]
             A2 == [w.agents EXCEPT ![a] = g2]
             x1 == [w1 EXCEPT !.agents = A1]
             x2 == [w1 EXCEPT !.agents = A2]
  <2>1. enterConversation(w, c, a)
          = clearActiveServerAnnouncement(clearExcludedInfoCommands(x1, a), a)
    <3> DEFINE y == [w1 EXCEPT !.agents[a].pending_conversation_id = None,
                               !.agents[a].current_conversation_id = c,
                               !.agents[a].state = "in_conversation"]
    <3>1. enterConversation(w, c, a)
            = clearActiveServerAnnouncement(clearExcludedInfoCommands(y, a), a)
      BY <1>1 DEF enterConversation
    <3>2. w.agents = [b \in Agents |-> w.agents[b]] /\ w1.agents = w.agents
      BY <1>1 DEF Shape
    <3> HIDE DEF w1
    <3>3. [w1.agents EXCEPT ![a].pending_conversation_id = None,
                            ![a].current_conversation_id = c,
                            ![a].state = "in_conversation"] = A1
      BY <3>2
    <3>4. y = [w1 EXCEPT !.agents = A1]
      BY <3>3
    <3> HIDE DEF y
    <3> QED
      BY <3>1, <3>4
  <2>2. g = [g2 EXCEPT !.announced = FALSE]
    OBVIOUS
  <2> HIDE DEF g1, w1
  <2>3. clearExcludedInfoCommands(x1, a) = x2
    <3>1. x1.agents = A1 /\ A1[a] = g1
      BY <1>1 DEF Shape, w1
    <3>2. clearExcludedInfoCommands(x1, a)
            = [x1 EXCEPT !.agents = [A1 EXCEPT ![a] = g2]]
      BY <3>1 DEF clearExcludedInfoCommands
    <3>3. [A1 EXCEPT ![a] = g2] = A2
      OBVIOUS
    <3> HIDE DEF A1, A2
    <3>4. [x1 EXCEPT !.agents = A2] = [w1 EXCEPT !.agents = A2]
      OBVIOUS
    <3> QED
      BY <3>2, <3>3, <3>4
  <2> HIDE DEF g2, g
  <2>4. clearActiveServerAnnouncement(x2, a) = u
    <3>1. x2.agents = A2 /\ A2[a] = g2
      BY <1>1 DEF Shape, w1
    <3>2. clearActiveServerAnnouncement(x2, a)
            = [x2 EXCEPT !.agents = [A2 EXCEPT ![a] = g]]
      BY <2>2, <3>1 DEF clearActiveServerAnnouncement
    <3>3. [A2 EXCEPT ![a] = g] = A
      OBVIOUS
    <3> HIDE DEF A, A2
    <3>4. [x2 EXCEPT !.agents = A] = [w1 EXCEPT !.agents = A]
      OBVIOUS
    <3> QED
      BY <3>2, <3>3, <3>4
  <2> QED
    BY <2>1, <2>3, <2>4
<1>3. OwnTimers(T)
  BY DEF Shape, OwnTimers
<1>4. h \in AgentRecord
  BY DEF Shape
<1> HIDE DEF h
<1>5. /\ g \in AgentRecord /\ g.state = "in_conversation"
      /\ g.pending_conversation_id = None /\ g.current_conversation_id = c
      /\ g.announced = FALSE
  BY <1>4 DEF AgentRecord
<1> HIDE DEF g
<1>6. /\ A \in [Agents -> AgentRecord] /\ A[a] = g
      /\ \A b \in Agents \ {a} : A[b] = w.agents[b]
  BY <1>5 DEF Shape
<1>7. /\ \A b \in Agents : WT(b) \in T <=> WT(b) \in w.timers
      /\ \A b \in Agents : IR(b) \in T => IR(b) \in w.timers /\ b # a
      /\ \A x \in T : x \in w.timers
  BY OwnFacts
<1> HIDE DEF A, T
<1>8. u.agents = A /\ u.conversations = w.conversations /\ u.timers = T
  BY DEF Shape
<1>a. u = [w EXCEPT !.agents = A, !.timers = T]
  BY DEF Shape
<1> HIDE DEF u
<1>9. Shape(u)
  BY <1>3, <1>6, <1>8, <1>a DEF Shape
<1>10. OneEntered(u, w, c, a)
  BY <1>5, <1>6, <1>7, <1>8, <1>9 DEF OneEntered
<1> QED
  BY <1>2, <1>10

\* What a was doing is stopped, and that is all.
AtEase(u, w, X, a) ==
  /\ Sound(u, X) /\ u.conversations = w.conversations
  /\ u.agents[a].state = "idle"
  /\ \A b \in Agents : u.agents[b].pending_conversation_id
                         = w.agents[b].pending_conversation_id
  /\ \A b \in Agents \ {a} : u.agents[b] = w.agents[b]

\* Whatever an agent did alone is stopped.
LEMMA InterruptedSound ==
  ASSUME NEW w, NEW X, Sound(w, X), NEW a \in Agents, w.agents[a].state \in Alone
  PROVE  AtEase(interruptActivityOf(w, a), w, X, a)
<1> DEFINE u == Stopped(w, a)
<1>1. interruptActivityOf(w, a)
        = IF w.agents[a].state = "in_action" THEN u ELSE w
  BY InterruptIs DEF Sound
<1>2. Acts(u, w, a, "idle")
  BY StoppedActs DEF Sound
<1>3. /\ Sound(u, X) /\ u.agents[a].state = "idle"
      /\ u.conversations = w.conversations
  BY StoppedSound DEF Alone
<1> HIDE DEF u
<1>4. AtEase(u, w, X, a)
  BY <1>2, <1>3 DEF Acts, AtEase
<1>5. CASE w.agents[a].state = "in_action"
  BY <1>1, <1>4, <1>5
<1>6. CASE w.agents[a].state = "idle"
  <2>1. AtEase(w, w, X, a)
    BY <1>6 DEF AtEase
  <2> QED
    BY <1>1, <1>6, <2>1
<1> QED
  BY <1>5, <1>6 DEF Alone

\* Whom no invitation marks is in none that is pending.
LEMMA UnmarkedIn ==
  ASSUME NEW w, NEW X, Sound(w, X), NEW S \in SUBSET Agents,
         \A a \in S : w.agents[a].pending_conversation_id = None,
         NEW d \in Conversations, w.conversations[d].status = "pending"
  PROVE  S \cap Members(w.conversations[d]) = {}
<1>1. \A a \in S : Uninvited(w, a)
  BY UnmarkedUninvited
<1> QED
  BY <1>1 DEF Uninvited

\* An agent on its own is in no list of a running conversation.
LEMMA AloneUnlisted ==
  ASSUME NEW w, NEW X, Sound(w, X), NEW a \in Agents, w.agents[a].state \in Alone
  PROVE  w.agents[a].current_conversation_id = None
BY DEF Sound, InState, Alone

\* A joiner waits in the list for the next turn.
LEMMA JoinSound ==
  ASSUME NEW w, Sound(w, {}), NEW c \in Conversations, NEW a \in Agents,
         canJoin(w, c, a)
  PROVE  Sound(joinConversation(w, c, a), {})
<1> DEFINE w1 == interruptActivityOf(w, a)
           old == w1.conversations[c]
           v == [old EXCEPT !.joiners = Append(@, a)]
           w2 == [w1 EXCEPT !.conversations[c] = v]
           w3 == enterConversation(w2, c, a)
           X == {}
<1>1. AtEase(w1, w, X, a)
  BY InterruptedSound DEF canJoin, Alone
<1>2. joinConversation(w, c, a) = w3
  <2>1. w1.conversations = [d \in Conversations |-> w1.conversations[d]]
    BY <1>1 DEF AtEase, Sound, Shape
  <2> HIDE DEF w1
  <2>2. w2 = [w1 EXCEPT !.conversations[c].joiners = Append(@, a)]
    BY <2>1
  <2> HIDE DEF w2
  <2> QED
    BY <2>2 DEF joinConversation, w1
<1>3. Sound(w1, X) /\ old = w.conversations[c]
  BY <1>1 DEF AtEase
<1>4. /\ w1.agents[a].pending_conversation_id = None
      /\ w1.agents[a].state = "idle"
  BY <1>1 DEF AtEase, canJoin
<1>5. /\ old.status = "active" /\ a \notin Everyone(old)
      /\ Len(old.participants) + Len(old.joiners) < MaxParticipants
  BY <1>3 DEF canJoin, Everyone, Members
<1> HIDE DEF w1
<1>6. Lists(w1, c)
  BY <1>3, <1>5 DEF Sound, IsRunning
<1>7. IsConversation(old)
  BY <1>3 DEF Sound, Shape
<1>8. /\ IsConversation(v) /\ v.status = "active" /\ Runs(v)
      /\ v.participants = old.participants /\ v.joiners = Append(old.joiners, a)
  <2> DEFINE J == Append(old.joiners, a)
  <2> HIDE DEF old
  <2>1. J \in Seq(Agents)
    BY <1>7 DEF IsConversation
  <2>2. v = [old EXCEPT !.joiners = J]
    OBVIOUS
  <2> HIDE DEF J, v
  <2>3. IsConversation(v)
    BY <1>7, <2>1, <2>2 DEF IsConversation
  <2>4. /\ v.status = "active" /\ v.participants = old.participants
        /\ v.joiners = J
    BY <1>5, <1>7, <2>2 DEF IsConversation
  <2> QED
    BY <2>3, <2>4 DEF Runs, J
<1>9. Fit(v) /\ Everyone(v) = Everyone(old) \cup {a}
  <2> HIDE DEF v, old
  <2>1. old.joiners \in Seq(Agents) /\ old.participants \in Seq(Agents)
    BY <1>7 DEF IsConversation
  <2>2. /\ Distinct(old.participants) /\ Distinct(old.joiners)
        /\ ToSet(old.participants) \cap ToSet(old.joiners) = {}
    BY <1>6 DEF Lists, old
  <2>3. a \notin ToSet(old.participants) /\ a \notin ToSet(old.joiners)
    BY <1>5 DEF Everyone
  <2>4. /\ Len(v.joiners) = Len(old.joiners) + 1
        /\ ToSet(v.joiners) = ToSet(old.joiners) \cup {a} /\ Distinct(v.joiners)
    BY <1>8, <2>1, <2>2, <2>3, AppendFacts
  <2>5. Len(v.participants) + Len(v.joiners) <= MaxParticipants
    <3> DEFINE n == Len(old.participants)
               m == Len(old.joiners)
    <3>1. n \in Nat /\ m \in Nat /\ MaxParticipants \in Nat
      BY <2>1, ConversationAssumption
    <3>2. n + m < MaxParticipants /\ Len(v.participants) = n /\ Len(v.joiners) = m + 1
      BY <1>5, <1>8, <2>4
    <3> HIDE DEF n, m
    <3> QED
      BY <3>1, <3>2
  <2> QED
    BY <1>8, <2>2, <2>3, <2>4, <2>5 DEF Fit, Everyone
<1>10. \A b \in Everyone(old) : w1.agents[b].current_conversation_id = c
  BY <1>6 DEF Lists
<1>11. \A b \in Agents : w1.agents[b].current_conversation_id = c => b \in Everyone(old)
  <2>1. c # None
    BY ConversationAssumption
  <2> QED
    BY <1>3, <2>1 DEF Sound, Placed
<1> HIDE DEF v, old
<1>12. Shape(w1)
  BY <1>3 DEF Sound
<1>13. /\ Shape(w2) /\ w2.agents = w1.agents /\ w2.timers = w1.timers
       /\ w2.conversations[c] = v
       /\ \A d \in Conversations \ {c} : w2.conversations[d] = w1.conversations[d]
  BY <1>8, <1>12, PutConversation
<1> HIDE DEF w2
<1>14. OneEntered(w3, w2, c, a)
  BY <1>13, EnterOne
<1> HIDE DEF w3
<1> DEFINE S == {a}
<1>15. Entered(w3, w1, c, v, S)
  BY <1>13, <1>14 DEF Entered, OneEntered
<1>16. S \in SUBSET Agents /\ \A b \in S : w1.agents[b].pending_conversation_id = None
  BY <1>4
<1>17. MayEnter(w1, c, v, S)
  <2>1. \A d \in Conversations :
          w1.conversations[d].status = "pending"
            => S \cap Members(w1.conversations[d]) = {}
    BY <1>3, <1>16, UnmarkedIn
  <2>2. w1.conversations[c].status # "pending"
    BY <1>5 DEF old
  <2>3. a \in S /\ \A b \in S : b = a
    OBVIOUS
  <2> HIDE DEF S
  <2> QED
    BY <1>4, <1>8, <1>9, <1>10, <1>11, <2>1, <2>2, <2>3 DEF MayEnter
<1> HIDE DEF S, X
<1>18. Sound(w3, X)
  BY <1>3, <1>15, <1>16, <1>17, EnterSound
<1> QED
  BY <1>2, <1>18 DEF X

\* What an accepted invitation becomes.
Accepted(v, a) == [updateLastSpokenTurns(v, a, v.initiator, 2) EXCEPT !.status = "active"]

\* An accepted invitation runs, with the same lists.
LEMMA AcceptedFacts ==
  ASSUME NEW v, IsConversation(v), NEW a
  PROVE  /\ IsConversation(Accepted(v, a)) /\ Runs(Accepted(v, a))
         /\ Accepted(v, a).participants = v.participants
         /\ Accepted(v, a).joiners = v.joiners
<1> DEFINE i == v.initiator
           L == [v.last_spoken_turns EXCEPT ![a] = 2, ![i] = 2]
           u == [v EXCEPT !.current_turn = 2, !.last_spoken_turns = L]
           y == [u EXCEPT !.status = "active"]
<1>1. updateLastSpokenTurns(v, a, i, 2) = u
  <2> HIDE DEF i
  <2> QED
    BY DEF updateLastSpokenTurns, IsConversation
<1>2. Accepted(v, a) = y
  BY <1>1 DEF Accepted
<1> HIDE DEF L, i
<1>3. y = [v EXCEPT !.current_turn = 2, !.last_spoken_turns = L, !.status = "active"]
  BY DEF IsConversation
<1> HIDE DEF u, y
<1>4. /\ IsConversation(y) /\ Runs(y)
      /\ y.participants = v.participants /\ y.joiners = v.joiners
  BY <1>3 DEF IsConversation, Runs
<1> QED
  BY <1>2, <1>4

\* Two agents on the list of a conversation.
LEMMA PairFacts ==
  ASSUME NEW i \in Agents, NEW a \in Agents, i # a
  PROVE  /\ Distinct(<<i, a>>) /\ Distinct(<<>>) /\ ToSet(<<i, a>>) = {i, a}
         /\ ToSet(<<>>) = {} /\ Len(<<i, a>>) = 2 /\ Len(<<>>) = 0
BY DEF Distinct, ToSet

\* The two enter, and nobody else was to.
LEMMA PairMayEnter ==
  ASSUME NEW w, NEW X, Sound(w, X), NEW c \in Conversations,
         w.conversations[c].status = "pending",
         NEW i \in Agents, NEW a \in Agents, i # a,
         w.agents[i].pending_conversation_id = c, w.agents[i].state = "idle",
         w.agents[a].pending_conversation_id = c, w.agents[a].state = "idle",
         w.conversations[c].participants = <<i, a>>,
         NEW v, IsConversation(v), Runs(v),
         v.participants = <<i, a>>, v.joiners = <<>>, X = {}
  PROVE  MayEnter(w, c, v, {i, a})
<1> DEFINE S == {i, a}
<1>1. /\ ToSet(v.participants) = S /\ ToSet(v.joiners) = {}
      /\ Members(w.conversations[c]) = S /\ Everyone(v) = S
  BY PairFacts DEF Members, Everyone
<1>2. Fit(v)
  <2>1. 2 + 0 <= MaxParticipants
    BY ConversationAssumption
  <2> QED
    BY <2>1, PairFacts DEF Fit
<1>3. \A b \in Agents : w.agents[b].current_conversation_id # c
  <2>1. ~IsRunning(w, c) /\ c # None
    BY ConversationAssumption DEF IsRunning
  <2> QED
    BY <2>1 DEF Sound, Placed
<1>4. \A d \in Conversations \ {c} :
        w.conversations[d].status = "pending"
          => S \cap Members(w.conversations[d]) = {}
  <2> SUFFICES ASSUME NEW d \in Conversations \ {c},
                      w.conversations[d].status = "pending"
               PROVE  S \cap Members(w.conversations[d]) = {}
    OBVIOUS
  <2>1. PICK j, t \in Agents :
          /\ Members(w.conversations[d]) = {j, t}
          /\ w.agents[j].pending_conversation_id = d
          /\ w.agents[t].pending_conversation_id = d
    BY InvitedAre
  <2> QED
    BY <2>1
<1>5. \A b \in S : w.agents[b].state = "idle"
  OBVIOUS
<1> HIDE DEF S
<1>6. MayEnter(w, c, v, S)
  BY <1>1, <1>2, <1>3, <1>4, <1>5 DEF MayEnter
<1> QED
  BY <1>6 DEF S

\* The one invited accepts: both are in the conversation, which now runs.
LEMMA AcceptSound ==
  ASSUME NEW w, Sound(w, {}), NEW c \in Conversations, NEW a \in Agents,
         w.conversations[c].status = "pending", isTarget(w.conversations[c], a)
  PROVE  Sound(acceptConversation(w, c, a), {})
<1> DEFINE v == w.conversations[c]
           i == v.initiator
           x1 == cancelConversationTimers(w, c)
           x2 == interruptActivityOf(x1, a)
           x3 == enterConversation(x2, c, i)
           x4 == enterConversation(x3, c, a)
           y == Accepted(v, a)
           x5 == [x4 EXCEPT !.conversations[c] = y]
           x6 == createIntervalTimer(x5, c, a, i)
           X == {}
<1>1. /\ i \in Agents /\ i # a /\ v.participants = <<i, a>> /\ v.joiners = <<>>
      /\ w.agents[i].pending_conversation_id = c
      /\ w.agents[a].pending_conversation_id = c
      /\ w.agents[i].state = "idle"
  <2>1. Invites(w, c)
    BY DEF Sound
  <2>2. PICK j, t \in Agents :
          /\ v.initiator = j /\ v.participants = <<j, t>> /\ v.joiners = <<>>
          /\ w.agents[j].pending_conversation_id = c
          /\ w.agents[t].pending_conversation_id = c
          /\ w.agents[j].state = "idle"
    BY <2>1 DEF Invites
  <2>3. Members(v) = {j, t}
    BY <2>2, InvitedAre DEF Members, ToSet
  <2>4. a = t /\ i = j
    BY <2>2, <2>3 DEF isTarget
  <2> QED
    BY <2>2, <2>4 DEF isTarget
<1>2. w.agents[a].state \in {"idle", "in_action"}
  <2>1. c # None
    BY ConversationAssumption
  <2> QED
    BY <1>1, <2>1 DEF Sound, InState
<1>3. acceptConversation(w, c, a) = x6
  BY <1>1, <1>2 DEF acceptConversation, LoggedIn, Accepted
<1>4. IsConversation(v)
  BY DEF Sound, Shape
<1>5. /\ IsConversation(y) /\ Runs(y)
      /\ y.participants = <<i, a>> /\ y.joiners = <<>>
  BY <1>1, <1>4, AcceptedFacts
<1> HIDE DEF v, y, i
<1>6. Sound(w, X)
  OBVIOUS
<1> HIDE DEF X
<1>7. Quiet(x1, w) /\ Sound(x1, X)
  BY <1>6, QuietCancel, QuietSound DEF Sound
<1>8. /\ x1.agents[i].state = "idle" /\ x1.agents[a].state \in Alone
      /\ x1.agents[i].pending_conversation_id = c
      /\ x1.agents[a].pending_conversation_id = c
      /\ x1.conversations[c].participants = <<i, a>>
      /\ x1.conversations[c].status = "pending"
  BY <1>1, <1>2, <1>7 DEF Quiet, SameAgent, SameLists, Alone, v
<1> HIDE DEF x1
<1>9. AtEase(x2, x1, X, a)
  BY <1>7, <1>8, InterruptedSound
<1> HIDE DEF x2
<1>10. /\ Sound(x2, X) /\ x2.agents[i].state = "idle" /\ x2.agents[a].state = "idle"
       /\ x2.agents[i].pending_conversation_id = c
       /\ x2.agents[a].pending_conversation_id = c
       /\ x2.conversations[c].participants = <<i, a>>
       /\ x2.conversations[c].status = "pending"
  BY <1>1, <1>8, <1>9 DEF AtEase
<1> DEFINE S == {i, a}
<1>11. MayEnter(x2, c, y, S)
  BY <1>1, <1>5, <1>10, PairMayEnter DEF X
<1>12. OneEntered(x3, x2, c, i)
  BY <1>1, <1>10, EnterOne DEF Sound
<1> HIDE DEF x3
<1>b. Shape(x3)
  BY <1>12 DEF OneEntered
<1>13. OneEntered(x4, x3, c, a)
  BY <1>b, EnterOne
<1> HIDE DEF x4
<1>d. Shape(x4)
  BY <1>13 DEF OneEntered
<1>14. /\ Shape(x5) /\ x5.agents = x4.agents /\ x5.timers = x4.timers
       /\ x5.conversations[c] = y
       /\ \A d \in Conversations \ {c} : x5.conversations[d] = x4.conversations[d]
  BY <1>5, <1>d, PutConversation
<1> HIDE DEF x5
<1>15. Entered(x5, x2, c, y, S)
  <2>1. \A b \in S : b = i \/ b = a
    OBVIOUS
  <2>2. \A b \in Agents \ S : b # i /\ b # a
    OBVIOUS
  <2>3. i \in Agents /\ a \in Agents
    BY <1>1
  <2> HIDE DEF S
  <2> QED
    BY <1>1, <1>12, <1>13, <1>14, <2>1, <2>2, <2>3 DEF Entered, OneEntered
<1>16. S \in SUBSET Agents
  BY <1>1
<1> HIDE DEF S
<1>17. Sound(x5, X)
  BY <1>10, <1>11, <1>15, <1>16, EnterSound
<1>18. IsRunning(x5, c)
  BY <1>5, <1>14 DEF IsRunning, Runs
<1>19. Goes(x6, x5, X)
  BY <1>17, <1>18, ScheduleGoes
<1> QED
  BY <1>3, <1>19 DEF Goes, X

(***************************************************************************)
(* Inviting.                                                               *)
(***************************************************************************)

\* The agents S are invited by conversation c, whose record is now v.
Invited(u, w, c, v, S) ==
  /\ Shape(u) /\ u.conversations[c] = v
  /\ \A d \in Conversations \ {c} : SameLists(u.conversations[d], w.conversations[d])
  /\ \A a \in Agents :
       LET g == u.agents[a]
           h == w.agents[a]
       IN  /\ g.state = h.state
           /\ g.current_conversation_id = h.current_conversation_id
           /\ h.announced = FALSE => g.announced = FALSE
           /\ g.pending_conversation_id
                = IF a \in S THEN c ELSE h.pending_conversation_id
  /\ \A a \in Agents : WT(a) \in u.timers <=> WT(a) \in w.timers
  /\ \A a \in Agents : IR(a) \in u.timers => IR(a) \in w.timers
  /\ \A x \in u.timers : x.type \in TalkTypes => x \in w.timers

\* They may be: c is new, i is idle, and nobody else invited the two.
MayInvite(w, c, v, i, t) ==
  /\ w.conversations[c].status = "absent"
  /\ v.status = "pending" /\ v.initiator = i /\ v.participants = <<i, t>>
  /\ v.joiners = <<>>
  /\ w.agents[i].state = "idle" /\ w.agents[t].state \in Alone
  /\ w.agents[i].pending_conversation_id = None
  /\ w.agents[t].pending_conversation_id = None

\* Two agents that may be invited are.
LEMMA InviteSound ==
  ASSUME NEW w, NEW X, Sound(w, X), NEW c \in Conversations, NEW v,
         NEW i \in Agents, NEW t \in Agents, MayInvite(w, c, v, i, t),
         NEW u, Invited(u, w, c, v, {i, t})
  PROVE  Sound(u, X)
<1> DEFINE S == {i, t}
<1>1. i \in S /\ t \in S /\ (\A b \in S : b = i \/ b = t) /\ S \subseteq Agents
  OBVIOUS
<1> HIDE DEF S
<1>2. Invited(u, w, c, v, S)
  BY DEF S
<1>3. c # None /\ \A d \in Conversations : d # None
  BY ConversationAssumption
<1>4. /\ \A b \in S : w.agents[b].state \in Alone
      /\ \A b \in S : w.agents[b].pending_conversation_id = None
  BY <1>1 DEF MayInvite, Alone
<1>5. /\ Shape(u) /\ u.conversations[c] = v
      /\ \A d \in Conversations \ {c} : SameLists(u.conversations[d], w.conversations[d])
  BY <1>2 DEF Invited
<1>6. \A b \in Agents :
        /\ u.agents[b].state = w.agents[b].state
        /\ u.agents[b].current_conversation_id = w.agents[b].current_conversation_id
        /\ w.agents[b].announced = FALSE => u.agents[b].announced = FALSE
  BY <1>2 DEF Invited
<1>7. \A b \in S : u.agents[b].pending_conversation_id = c
  BY <1>1, <1>2 DEF Invited
<1>8. \A b \in Agents \ S :
        u.agents[b].pending_conversation_id = w.agents[b].pending_conversation_id
  BY <1>2 DEF Invited
<1>9. /\ \A b \in Agents : WT(b) \in u.timers <=> WT(b) \in w.timers
      /\ \A b \in Agents : IR(b) \in u.timers => IR(b) \in w.timers
      /\ \A x \in u.timers : x.type \in TalkTypes => x \in w.timers
  BY <1>2 DEF Invited
<1>10. \A b \in Agents : InState(u, b)
  <2> SUFFICES ASSUME NEW b \in Agents PROVE InState(u, b)
    OBVIOUS
  <2>1. InState(w, b)
    BY DEF Sound
  <2>2. CASE b \in S
    BY <1>4, <1>6, <1>9, <2>1, <2>2 DEF InState, Alone
  <2>3. CASE b \notin S
    BY <1>6, <1>8, <1>9, <2>1, <2>3 DEF InState
  <2> QED
    BY <2>2, <2>3
<1>11. ASSUME NEW d \in Conversations
       PROVE  /\ u.conversations[d].status = "pending" => Invites(u, d)
              /\ IsRunning(u, d) => Lists(u, d)
              /\ IsRunning(u, d) \/ Untimed(u, d)
  <2>1. CASE d = c
    <3>1. Untimed(u, c)
      <4>1. Untimed(w, c)
        BY DEF MayInvite, Sound, IsRunning
      <4> QED
        BY <1>9, <4>1 DEF Untimed
    <3>2. Invites(u, c)
      <4>1. /\ v.initiator = i /\ v.participants = <<i, t>> /\ v.joiners = <<>>
            /\ w.agents[i].state = "idle"
        BY DEF MayInvite
      <4> QED
        BY <1>1, <1>5, <1>6, <1>7, <4>1 DEF Invites
    <3>3. ~IsRunning(u, c)
      BY <1>5 DEF IsRunning, MayInvite
    <3> QED
      BY <2>1, <3>1, <3>2, <3>3
  <2>2. CASE d # c
    <3>1. SameLists(u.conversations[d], w.conversations[d])
      BY <1>5, <2>2
    <3>2. IsRunning(u, d) <=> IsRunning(w, d)
      BY <3>1 DEF SameLists, IsRunning
    <3>3. ASSUME u.conversations[d].status = "pending" PROVE Invites(u, d)
      <4>1. Invites(w, d)
        BY <3>1, <3>3 DEF SameLists, Sound
      <4>2. PICK j, k \in Agents :
              /\ w.conversations[d].initiator = j
              /\ w.conversations[d].participants = <<j, k>>
              /\ w.conversations[d].joiners = <<>>
              /\ w.agents[j].pending_conversation_id = d
              /\ w.agents[k].pending_conversation_id = d
              /\ w.agents[j].state = "idle"
        BY <4>1 DEF Invites
      <4>3. j \notin S /\ k \notin S
        BY <1>3, <1>4, <4>2
      <4> QED
        BY <1>6, <1>8, <3>1, <4>2, <4>3 DEF Invites, SameLists
    <3>4. ASSUME IsRunning(u, d) PROVE Lists(u, d)
      <4>1. Lists(w, d)
        BY <3>2, <3>4 DEF Sound
      <4>2. Everyone(u.conversations[d]) \subseteq Agents
        BY <1>5, EveryoneAgents
      <4>3. Everyone(u.conversations[d]) = Everyone(w.conversations[d])
        BY <3>1 DEF SameLists, Everyone
      <4>4. \A b \in Everyone(u.conversations[d]) : u.agents[b].current_conversation_id = d
        BY <1>6, <4>1, <4>2, <4>3 DEF Lists
      <4> QED
        BY <3>1, <4>1, <4>4 DEF Lists, SameLists
    <3>5. IsRunning(u, d) \/ Untimed(u, d)
      BY <1>9, <3>2 DEF Sound, Untimed
    <3> QED
      BY <3>3, <3>4, <3>5
  <2> QED
    BY <2>1, <2>2
<1>12. Announcements = {} => \A b \in Agents : u.agents[b].announced = FALSE
  BY <1>6 DEF Sound
<1>13. ASSUME NEW b \in Agents \ X
       PROVE  Placed(u, b) /\ (Announcements = {} => Marked(u, b))
  <2>1. Placed(w, b) /\ (Announcements = {} => Marked(w, b))
    BY DEF Sound
  <2>2. Placed(u, b)
    <3> DEFINE d == w.agents[b].current_conversation_id
    <3>1. d = u.agents[b].current_conversation_id
      BY <1>6
    <3>2. d \in Conversations \cup {None}
      BY DEF Sound, Shape, AgentRecord
    <3> HIDE DEF d
    <3>3. CASE d = None
      BY <3>1, <3>3 DEF Placed
    <3>4. CASE d \in Conversations
      <4>1. IsRunning(w, d) /\ b \in Everyone(w.conversations[d])
        BY <1>3, <2>1, <3>4 DEF Placed, d
      <4>2. d # c
        BY <4>1 DEF IsRunning, MayInvite
      <4>3. SameLists(u.conversations[d], w.conversations[d])
        BY <1>5, <3>4, <4>2
      <4>4. IsRunning(u, d) /\ b \in Everyone(u.conversations[d])
        BY <4>1, <4>3 DEF IsRunning, Everyone, SameLists
      <4> QED
        BY <3>1, <4>4 DEF Placed
    <3> QED
      BY <3>2, <3>3, <3>4
  <2>3. ASSUME Announcements = {} PROVE Marked(u, b)
    <3>1. CASE b \in S
      <4>1. ToSet(<<i, t>>) = {i, t}
        BY DEF ToSet
      <4>2. v.status = "pending" /\ v.participants = <<i, t>>
        BY DEF MayInvite
      <4>3. b \in Members(v)
        BY <1>1, <3>1, <4>1, <4>2 DEF Members
      <4> QED
        BY <1>5, <1>7, <3>1, <4>2, <4>3 DEF Marked
    <3>2. CASE b \notin S
      <4> DEFINE d == w.agents[b].pending_conversation_id
      <4>1. d = u.agents[b].pending_conversation_id
        BY <1>8, <3>2
      <4>2. d \in Conversations \cup {None}
        BY DEF Sound, Shape, AgentRecord
      <4> HIDE DEF d
      <4>3. CASE d = None
        BY <4>1, <4>3 DEF Marked
      <4>4. CASE d \in Conversations
        <5>1. w.conversations[d].status = "pending" /\ b \in Members(w.conversations[d])
          BY <1>3, <2>1, <2>3, <4>4 DEF Marked, d
        <5>2. d # c
          BY <5>1 DEF MayInvite
        <5>3. SameLists(u.conversations[d], w.conversations[d])
          BY <1>5, <4>4, <5>2
        <5>4. u.conversations[d].status = "pending" /\ b \in Members(u.conversations[d])
          BY <5>1, <5>3 DEF Members, SameLists
        <5> QED
          BY <4>1, <5>4 DEF Marked
      <4> QED
        BY <4>2, <4>3, <4>4
    <3> QED
      BY <3>1, <3>2
  <2> QED
    BY <2>2, <2>3
<1> QED
  BY <1>5, <1>10, <1>11, <1>12, <1>13 DEF Sound

\* Someone is invited, or invites itself.
LEMMA StartSound ==
  ASSUME NEW w, NEW X, Sound(w, X), NEW c \in Conversations,
         w.conversations[c].status = "absent",
         NEW a \in Agents, NEW target \in Agents,
         validateConversationStart(w, a, target)
  PROVE  Sound(startConversation(w, c, a, target), X)
<1> DEFINE v == [NoConversation EXCEPT
                   !.status = "pending", !.initiator = a,
                   !.participants = <<a, target>>, !.current_turn = 1,
                   !.current_speaker = target]
           S == {a, target}
           T == {x \in w.timers : ~(a \in x.agent_ids /\ x.type = "idle_reminder")}
           w0 == [w EXCEPT !.timers = T]
           w1 == clearActiveServerAnnouncement(clearExcludedInfoCommands(w0, a), a)
           B == [b \in Agents |-> IF b \in S
                   THEN [w1.agents[b] EXCEPT !.pending_conversation_id = c]
                   ELSE w1.agents[b]]
           w2 == [w1 EXCEPT !.conversations[c] = v]
           w3 == [w2 EXCEPT !.agents = B]
           ids == {a, target}
           about == About(c, None, None, 0)
           w4 == create(w3, Timer("conversation_accept", ids, about))
<1>1. /\ w0.agents = w.agents /\ w0.conversations = w.conversations /\ w0.timers = T
      /\ Shape(w0)
  <2>1. OwnTimers(T)
    BY DEF Sound, Shape, OwnTimers
  <2> HIDE DEF T
  <2> QED
    BY <2>1 DEF Sound, Shape
<1>2. w0 = cancelIdleReminder(w, a)
  BY DEF cancelIdleReminder, cancelByType
<1> HIDE DEF w0
<1>3. Quiet(w1, w0)
  BY <1>1, QuietWindow, QuietTwice DEF Quiet, closeWindow
<1>4. startConversation(w, c, a, target) = w4
  <2> DEFINE y == [w1 EXCEPT !.conversations[c] = v,
                             !.agents[a].pending_conversation_id = c,
                             !.agents[target].pending_conversation_id = c]
  <2>1. startConversation(w, c, a, target)
          = create(y, Timer("conversation_accept", ids, about))
    BY <1>2 DEF startConversation
  <2>2. w1.agents \in [Agents -> AgentRecord]
    BY <1>3 DEF Quiet, Shape
  <2> HIDE DEF w1, v
  <2>3. [w1.agents EXCEPT ![a].pending_conversation_id = c,
                          ![target].pending_conversation_id = c] = B
    <3> DEFINE h == [w1.agents EXCEPT ![a].pending_conversation_id = c]
               k == [h EXCEPT ![target].pending_conversation_id = c]
    <3>1. /\ h = [b \in Agents |-> h[b]]
          /\ \A b \in Agents \ {a} : h[b] = w1.agents[b]
          /\ h[a] = [w1.agents[a] EXCEPT !.pending_conversation_id = c]
      BY <2>2
    <3>2. /\ k = [b \in Agents |-> k[b]]
          /\ \A b \in Agents \ {target} : k[b] = h[b]
          /\ k[target] = [h[target] EXCEPT !.pending_conversation_id = c]
      BY <3>1
    <3> HIDE DEF h, k
    <3>3. ASSUME NEW b \in Agents PROVE k[b] = B[b]
      <4>1. CASE b = target /\ b = a
        <5>1. k[b] = [[w1.agents[b] EXCEPT !.pending_conversation_id = c]
                         EXCEPT !.pending_conversation_id = c]
          BY <3>1, <3>2, <4>1
        <5>2. w1.agents[b] \in AgentRecord
          BY <2>2
        <5>3. k[b] = [w1.agents[b] EXCEPT !.pending_conversation_id = c]
          BY <5>1, <5>2 DEF AgentRecord
        <5> QED
          BY <4>1, <5>3
      <4>2. CASE b = target /\ b # a
        BY <3>1, <3>2, <4>2
      <4>3. CASE b # target /\ b = a
        BY <3>1, <3>2, <4>3
      <4>4. CASE b # target /\ b # a
        BY <3>1, <3>2, <4>4
      <4> QED
        BY <4>1, <4>2, <4>3, <4>4
    <3> HIDE DEF S
    <3>4. k = B
      BY <3>2, <3>3
    <3> QED
      BY <3>4 DEF k, h
  <2>4. w2.agents = w1.agents
    BY <1>3 DEF Quiet, Shape
  <2>5. y = [w2 EXCEPT !.agents = [w1.agents EXCEPT
                 ![a].pending_conversation_id = c,
                 ![target].pending_conversation_id = c]]
    BY <2>4
  <2>6. y = w3
    BY <2>3, <2>5
  <2> HIDE DEF y, w3
  <2> QED
    BY <2>1, <2>6
<1> HIDE DEF w1
<1>5. IsConversation(v) /\ MayInvite(w, c, v, a, target)
  <2>1. v = [ status |-> "pending", initiator |-> a,
              participants |-> <<a, target>>,
              joiners |-> <<>>, current_turn |-> 1, current_speaker |-> target,
              last_spoken_turns |-> NoConversation.last_spoken_turns,
              inactive |-> {}, resume_speaker |-> None, closing_reason |-> None ]
    <3> DEFINE n == NoConversation
    <3>1. n = [ status |-> "absent", initiator |-> None, participants |-> <<>>,
                joiners |-> <<>>, current_turn |-> 0, current_speaker |-> None,
                last_spoken_turns |-> n.last_spoken_turns, inactive |-> {},
                resume_speaker |-> None, closing_reason |-> None ]
      BY Zenon DEF NoConversation
    <3>2. v = [n EXCEPT !.status = "pending", !.initiator = a,
                 !.participants = <<a, target>>, !.current_turn = 1,
                 !.current_speaker = target]
      OBVIOUS
    <3> HIDE DEF n, v
    <3> DEFINE L == n.last_spoken_turns
    <3> HIDE DEF L
    <3>4. n = [ status |-> "absent", initiator |-> None, participants |-> <<>>,
                joiners |-> <<>>, current_turn |-> 0, current_speaker |-> None,
                last_spoken_turns |-> L, inactive |-> {},
                resume_speaker |-> None, closing_reason |-> None ]
      BY <3>1 DEF L
    <3>5. v = [ status |-> "pending", initiator |-> a,
                participants |-> <<a, target>>,
                joiners |-> <<>>, current_turn |-> 1, current_speaker |-> target,
                last_spoken_turns |-> L, inactive |-> {},
                resume_speaker |-> None, closing_reason |-> None ]
      BY <3>2, <3>4
    <3> QED
      BY <3>5 DEF n, L
  <2>2. <<a, target>> \in Seq(Agents) /\ <<>> \in Seq(Agents)
    OBVIOUS
  <2> HIDE DEF v
  <2> QED
    BY <2>1, <2>2 DEF IsConversation, MayInvite, validateConversationStart, Alone
<1> HIDE DEF v
<1>6. /\ Shape(w2) /\ w2.agents = w1.agents /\ w2.timers = w1.timers
      /\ w2.conversations[c] = v
      /\ \A d \in Conversations \ {c} : w2.conversations[d] = w1.conversations[d]
  <2>1. Shape(w1)
    BY <1>3 DEF Quiet
  <2> QED
    BY <1>5, <2>1, PutConversation
<1> HIDE DEF w2
<1>7. B \in [Agents -> AgentRecord]
  <2>1. ASSUME NEW b \in Agents
        PROVE  /\ w1.agents[b] \in AgentRecord
               /\ [w1.agents[b] EXCEPT !.pending_conversation_id = c] \in AgentRecord
    BY <1>3 DEF Quiet, Shape, AgentRecord
  <2> HIDE DEF S
  <2> QED
    BY <2>1
<1>8. \A b \in Agents : /\ B[b].state = w1.agents[b].state
                        /\ B[b].current_conversation_id = w1.agents[b].current_conversation_id
                        /\ B[b].announced = w1.agents[b].announced
                        /\ B[b].pending_conversation_id = IF b \in S THEN c
                             ELSE w1.agents[b].pending_conversation_id
  <2>1. \A b \in Agents : w1.agents[b] \in AgentRecord
    BY <1>3 DEF Quiet, Shape
  <2> HIDE DEF S
  <2> QED
    BY <2>1 DEF AgentRecord
<1> HIDE DEF B, S
<1>9. /\ Shape(w3) /\ w3.agents = B /\ w3.timers = w1.timers
      /\ w3.conversations = w2.conversations
  BY <1>6, <1>7 DEF Shape
<1> HIDE DEF w3
<1>10. /\ \A b \in Agents : WT(b) \in T <=> WT(b) \in w.timers
       /\ \A b \in Agents : IR(b) \in T => IR(b) \in w.timers
       /\ \A x \in T : x \in w.timers
  BY OwnFacts
<1> HIDE DEF T
<1>11. Invited(w3, w, c, v, S)
  <2>1. \A d \in Conversations \ {c} :
          SameLists(w3.conversations[d], w.conversations[d])
    BY <1>1, <1>3, <1>6, <1>9 DEF Quiet
  <2>2. \A b \in Agents :
          /\ w3.agents[b].state = w.agents[b].state
          /\ w3.agents[b].current_conversation_id = w.agents[b].current_conversation_id
          /\ w.agents[b].announced = FALSE => w3.agents[b].announced = FALSE
          /\ w3.agents[b].pending_conversation_id = IF b \in S THEN c
               ELSE w.agents[b].pending_conversation_id
    BY <1>1, <1>3, <1>8, <1>9 DEF Quiet, SameAgent
  <2>3. /\ \A b \in Agents : WT(b) \in w3.timers <=> WT(b) \in w.timers
        /\ \A b \in Agents : IR(b) \in w3.timers => IR(b) \in w.timers
        /\ \A x \in w3.timers : x.type \in TalkTypes => x \in w.timers
    BY <1>1, <1>3, <1>9, <1>10 DEF Quiet, SameTimers
  <2> QED
    BY <1>6, <1>9, <2>1, <2>2, <2>3 DEF Invited
<1>12. Sound(w3, X)
  BY <1>5, <1>11, InviteSound DEF S
<1> HIDE DEF ids, about
<1>13. Quiet(w4, w3)
  BY <1>9, QuietCreate DEF TalkTypes
<1>14. Sound(w4, X)
  BY <1>12, <1>13, QuietSound
<1> QED
  BY <1>4, <1>14

(***************************************************************************)
(* Announcements.                                                          *)
(***************************************************************************)

\* Nobody moves, so every agent that is logged in has its window at once.
LEMMA AnnounceSound ==
  ASSUME NEW w, NEW X, Sound(w, X), NEW n \in Announcements
  PROVE  Sound(fireServerAnnouncement(w, n), X)
<1> DEFINE moving == {a \in Agents : w.agents[a].state = "moving"}
           A == [a \in Agents |->
                  IF a \in moving
                  THEN [w.agents[a] EXCEPT !.pending_announcements = @ \cup {n}]
                  ELSE IF LoggedIn(w, a)
                  THEN [w.agents[a] EXCEPT !.announced = TRUE, !.excluded = {}]
                  ELSE w.agents[a]]
           R == [w.announcements EXCEPT ![n] = moving]
           u == [w EXCEPT !.announcements = R, !.agents = A]
<1>1. fireServerAnnouncement(w, n) = u
  BY DEF fireServerAnnouncement
<1>2. \A a \in Agents : w.agents[a] \in AgentRecord /\ a \notin moving
  BY DEF Sound, Shape, AgentRecord
<1>3. \A a \in Agents :
        A[a] = IF LoggedIn(w, a)
               THEN [w.agents[a] EXCEPT !.announced = TRUE, !.excluded = {}]
               ELSE w.agents[a]
  BY <1>2
<1>4. /\ A = [a \in Agents |-> A[a]]
      /\ \A a \in Agents :
           /\ A[a] \in AgentRecord /\ A[a].state = w.agents[a].state
           /\ A[a].pending_conversation_id = w.agents[a].pending_conversation_id
           /\ A[a].current_conversation_id = w.agents[a].current_conversation_id
  <2>1. A = [a \in Agents |-> A[a]]
    OBVIOUS
  <2> HIDE DEF A
  <2>2. ASSUME NEW a \in Agents
        PROVE  /\ A[a] \in AgentRecord /\ A[a].state = w.agents[a].state
               /\ A[a].pending_conversation_id = w.agents[a].pending_conversation_id
               /\ A[a].current_conversation_id = w.agents[a].current_conversation_id
    <3> DEFINE h == w.agents[a]
    <3>1. h \in AgentRecord /\ (A[a] = h \/ A[a] = [h EXCEPT !.announced = TRUE, !.excluded = {}])
      BY <1>2, <1>3
    <3> HIDE DEF h
    <3>2. /\ A[a] \in AgentRecord /\ A[a].state = h.state
          /\ A[a].pending_conversation_id = h.pending_conversation_id
          /\ A[a].current_conversation_id = h.current_conversation_id
      BY <3>1 DEF AgentRecord
    <3> QED
      BY <3>2 DEF h
  <2> QED
    BY <2>1, <2>2
<1> HIDE DEF A, R
<1>5. /\ u.agents = A /\ u.conversations = w.conversations /\ u.timers = w.timers
      /\ Shape(u)
  <2>1. A \in [Agents -> AgentRecord]
    BY <1>4
  <2>2. Shape(w)
    BY DEF Sound
  <2> DEFINE x == [w EXCEPT !.announcements = R]
  <2>3. /\ x.conversations = w.conversations /\ x.timers = w.timers
        /\ Shape(x)
    BY <2>2 DEF Shape
  <2>4. u = [x EXCEPT !.agents = A]
    BY <2>2 DEF Shape
  <2> HIDE DEF x, u
  <2>5. u.agents = A /\ u.conversations = x.conversations /\ u.timers = x.timers
    BY <2>3, <2>4 DEF Shape
  <2>6. Shape(u)
    BY <2>1, <2>3, <2>4 DEF Shape
  <2> QED
    BY <2>3, <2>5, <2>6
<1> HIDE DEF u
<1>6. \A a \in Agents : InState(u, a)
  BY <1>4, <1>5 DEF Sound, InState
<1>7. ASSUME NEW c \in Conversations
      PROVE  /\ u.conversations[c].status = "pending" => Invites(u, c)
             /\ IsRunning(u, c) => Lists(u, c)
             /\ IsRunning(u, c) \/ Untimed(u, c)
  <2>1. ASSUME u.conversations[c].status = "pending" PROVE Invites(u, c)
    BY <1>4, <1>5, <2>1 DEF Sound, Invites
  <2>2. ASSUME IsRunning(u, c) PROVE Lists(u, c)
    <3>1. Lists(w, c)
      BY <1>5, <2>2 DEF Sound, IsRunning
    <3>2. Everyone(u.conversations[c]) \subseteq Agents
      BY <1>5, EveryoneAgents
    <3> QED
      BY <1>4, <1>5, <3>1, <3>2 DEF Lists
  <2>3. IsRunning(u, c) \/ Untimed(u, c)
    BY <1>5 DEF Sound, IsRunning, Untimed
  <2> QED
    BY <2>1, <2>2, <2>3
<1>8. Announcements # {}
  OBVIOUS
<1>9. \A a \in Agents \ X : Placed(u, a)
  BY <1>4, <1>5 DEF Sound, Placed, IsRunning
<1>10. Sound(u, X)
  BY <1>5, <1>6, <1>7, <1>8, <1>9 DEF Sound
<1> QED
  BY <1>1, <1>10

(***************************************************************************)
(* Logging out.                                                            *)
(***************************************************************************)

\* a is in no running conversation's lists.
Unlisted(w, a) == \A c \in Conversations : IsRunning(w, c) => a \notin Everyone(w.conversations[c])

\* a is out of the invitations; a mark that stays is of an agent on its own.
OutOfInvitations(u, a) ==
  /\ Sound(u, {a}) /\ Uninvited(u, a)
  /\ \/ u.agents[a].pending_conversation_id = None
     \/ u.agents[a].current_conversation_id = None

\* Wherever it was invited, a is invited no more; only its own mark may stay.
LEMMA LeaveInvitationSound ==
  ASSUME NEW w, Sound(w, {}), NEW a \in Agents
  PROVE  OutOfInvitations(cancelPendingConversation(w, a), a)
<1> DEFINE c == findConversationByAgent(w, a, {"pending"})
           v == w.conversations[c]
           i == v.initiator
           w1 == withdraw(w, c)
           D == Deleted(w, c)
           B == [b \in Agents |-> IF b \in Members(v)
                   THEN [w1.agents[b] EXCEPT !.excluded = {}]
                   ELSE w1.agents[b]]
           w2 == [w1 EXCEPT !.agents = B]
           w3 == remind(w2, i)
           u == cancelPendingConversation(w, a)
           X == {}
           Y == {a}
<1>1. Sound(w, X) /\ X \subseteq Y
  OBVIOUS
<1>2. u = IF c = None THEN w
          ELSE IF Others(v, i) = {} THEN D
          ELSE IF isTarget(v, a) THEN w3 ELSE w2
  BY DEF cancelPendingConversation, Deleted
<1> SUFFICES OutOfInvitations(u, a)
  OBVIOUS
<1> HIDE DEF u
<1>3. CASE c = None
  <2>1. Uninvited(w, a)
    <3>1. ASSUME NEW d \in Conversations, w.conversations[d].status = "pending"
          PROVE  a \notin Members(w.conversations[d])
      <4> DEFINE P == {"pending"}
      <4>1. w.conversations[d].status \in P /\ findConversationByAgent(w, a, P) = None
        BY <1>3, <3>1
      <4> HIDE DEF P
      <4> QED
        BY <4>1, NotFound DEF Everyone, Members
    <3> QED
      BY <3>1 DEF Uninvited
  <2>2. Sound(w, Y)
    BY <1>1, SoundMore
  <2>3. \/ w.agents[a].pending_conversation_id = None
        \/ w.agents[a].current_conversation_id = None
    BY DEF Sound, InState
  <2> QED
    BY <1>2, <1>3, <2>1, <2>2, <2>3 DEF OutOfInvitations
<1>4. CASE c # None
  <2>1. c \in Conversations /\ v.status = "pending" /\ a \in Everyone(v)
    BY <1>4, Found
  <2> HIDE DEF c
  <2>2. PICK j, t \in Agents :
          /\ i = j /\ Members(v) = {j, t} /\ Everyone(v) = {j, t}
          /\ w.agents[j].state = "idle"
    BY <1>1, <2>1, InvitedAre, SMTT(30)
  <2>3. a \in Members(v)
    BY <2>1, <2>2
  <2> HIDE DEF v
  <2>4. CASE Others(v, i) = {}
    <3>1. Members(v) = {a}
      BY <2>2, <2>3, <2>4 DEF Others
    <3>2. DeletedFrom(D, w, X, c)
      BY <1>1, <2>1, DeletedSound DEF v
    <3> HIDE DEF D, X
    <3>3. Sound(D, X \cup Members(v)) /\ Uninvited(D, a)
          /\ D.agents[a].current_conversation_id = None
      BY <2>3, <3>2 DEF DeletedFrom, v
    <3>4. X \cup Members(v) = {a}
      BY <3>1 DEF X
    <3>5. OutOfInvitations(D, a)
      BY <3>3, <3>4 DEF OutOfInvitations
    <3> QED
      BY <1>2, <1>4, <2>4, <3>5
  <2>5. CASE Others(v, i) # {}
    <3>1. /\ Sound(w1, X) /\ Fades(w1, w)
          /\ w1.agents[a].pending_conversation_id = None
      BY <1>1, <2>1, <2>3, WithdrawSound DEF v
    <3> HIDE DEF w1
    <3>2. Quiet(w2, w1)
      <4>1. \A b \in Agents : w1.agents[b] \in AgentRecord
        BY <3>1 DEF Sound, Shape
      <4>2. ASSUME NEW b \in Agents
            PROVE  B[b] \in AgentRecord /\ SameAgent(B[b], w1.agents[b])
        <5> DEFINE h == w1.agents[b]
                   M == Members(v)
        <5>1. h \in AgentRecord
          BY <4>1
        <5>2. B[b] = IF b \in M THEN [h EXCEPT !.excluded = {}] ELSE h
          OBVIOUS
        <5> HIDE DEF h, M, B
        <5>3. B[b] \in AgentRecord /\ SameAgent(B[b], h)
          BY <5>1, <5>2 DEF AgentRecord, SameAgent
        <5> QED
          BY <5>3 DEF h
      <4>3. B = [b \in Agents |-> B[b]]
        OBVIOUS
      <4> HIDE DEF B
      <4>4. B \in [Agents -> AgentRecord]
        BY <4>2, <4>3
      <4> QED
        BY <3>1, <4>2, <4>4, SetAgents DEF Sound
    <3> HIDE DEF w2
    <3>3. /\ Sound(w2, X) /\ w2.agents[a].pending_conversation_id = None
          /\ w2.agents[i].state = "idle"
      <4>1. Sound(w2, X)
        BY <3>1, <3>2, QuietSound
      <4>2. w1.agents[i].state = "idle"
        BY <2>2, <3>1 DEF Fades
      <4> QED
        BY <2>2, <3>1, <3>2, <4>1, <4>2 DEF Quiet, SameAgent
    <3>4. /\ Sound(w3, X) /\ w3.agents = w2.agents
      BY <2>2, <3>3, RemindSound
    <3> HIDE DEF w3, X
    <3>5. ASSUME NEW x, Sound(x, X), x.agents = w2.agents
          PROVE  OutOfInvitations(x, a)
      <4>1. x.agents[a].pending_conversation_id = None
        BY <3>3, <3>5
      <4>2. Uninvited(x, a)
        BY <3>5, <4>1, UnmarkedUninvited
      <4>3. Sound(x, Y)
        BY <1>1, <3>5, SoundMore
      <4> QED
        BY <4>1, <4>2, <4>3 DEF OutOfInvitations
    <3>6. OutOfInvitations(w3, a) /\ OutOfInvitations(w2, a)
      BY <3>3, <3>4, <3>5
    <3> QED
      BY <1>2, <1>4, <2>5, <3>6
  <2> QED
    BY <2>4, <2>5
<1> QED
  BY <1>3, <1>4

\* Giving someone the turn leaves the lists alone.
LEMMA ScheduleLists ==
  ASSUME NEW w, NEW X, Sound(w, X), NEW c \in Conversations, NEW speaker
  PROVE  Everyone(scheduleTurnTimer(w, c, speaker).conversations[c])
           = Everyone(w.conversations[c])
<1> DEFINE old == w.conversations[c]
           v == [old EXCEPT !.current_speaker = speaker]
           u == [w EXCEPT !.conversations[c] = v]
           timer == Timer("conversation_turn", Members(old), About(c, speaker, None, 0))
<1>1. IsConversation(old) /\ Shape(w)
  BY DEF Sound, Shape
<1>2. scheduleTurnTimer(w, c, speaker) = create(u, timer)
  BY DEF scheduleTurnTimer
<1> HIDE DEF old, timer
<1>3. IsConversation(v) /\ v.participants = old.participants /\ v.joiners = old.joiners
  BY <1>1 DEF IsConversation
<1> HIDE DEF v
<1>4. u.conversations[c] = v /\ Shape(u)
  BY <1>1, <1>3, PutConversation
<1> HIDE DEF u
<1>5. create(u, timer).conversations = u.conversations
  BY <1>4 DEF create, Shape
<1> QED
  BY <1>2, <1>3, <1>4, <1>5 DEF Everyone, old

\* Out of its own conversation's lists an agent is in none.
LEMMA UnlistedFrom ==
  ASSUME NEW w, NEW u, NEW X, Sound(u, X), Fades(u, w), NEW a \in Agents,
         NEW c \in Conversations, w.agents[a].current_conversation_id = c,
         IsRunning(u, c) => a \notin Everyone(u.conversations[c])
  PROVE  Unlisted(u, a)
<1> SUFFICES ASSUME NEW d \in Conversations, IsRunning(u, d),
                    a \in Everyone(u.conversations[d])
             PROVE  FALSE
  BY DEF Unlisted
<1>1. u.agents[a].current_conversation_id = d
  BY DEF Sound, Lists
<1>2. d # None
  BY ConversationAssumption
<1>3. d = c
  BY <1>1, <1>2 DEF Fades
<1> QED
  BY <1>3

\* What a forced end leaves of a.
Forced(u, w, a) ==
  /\ Keeps(u, w, {a}) /\ Unlisted(u, a)
  /\ w.agents[a].current_conversation_id = None => u = w

\* A logout takes its agent out of the conversation it is in.
LEMMA ForceEndKeeps ==
  ASSUME NEW w, NEW a \in Agents, Sound(w, {a})
  PROVE  Forced(forceEndConversation(w, a), w, a)
<1> DEFINE X == {a}
           statuses == {"active", "closing"}
           c == findConversationByAgent(w, a, statuses)
           x0 == cancelPendingTransfersForAgent(w, a, NoFaults)
           x1 == cancelConversationTimers(x0, c)
           r == removeParticipant(x1.conversations[c], a)
           x2 == [x1 EXCEPT !.conversations[c] = r]
           v == x2.conversations[c]
           s == SpeakerWithout(w, c, a, v)
           e1 == detachPendingJoiner(w, c, a, TRUE)
           e2 == endConversation(x2, c)
           e3 == createInactiveCheckTimer(x2, c)
           e4 == scheduleTurnTimer(x2, c, s)
           u == forceEndConversation(w, a)
<1>1. Sound(w, X)
  OBVIOUS
<1>2. u = IF c = None THEN w
          ELSE IF a \in ToSet(w.conversations[c].joiners) THEN e1
          ELSE IF Len(v.participants) <= 1 THEN e2
          ELSE IF v.status = "active" /\ v.inactive # {} THEN e3
          ELSE e4
  <2>1. x2 = [x1 EXCEPT !.conversations[c] = removeParticipant(@, a)]
    OBVIOUS
  <2> QED
    BY <2>1 DEF forceEndConversation
<1> SUFFICES Forced(u, w, a)
  OBVIOUS
<1> HIDE DEF u
<1>3. CASE c = None
  <2>1. Unlisted(w, a)
    <3>1. ASSUME NEW d \in Conversations, IsRunning(w, d)
          PROVE  a \notin Everyone(w.conversations[d])
      <4>1. w.conversations[d].status \in statuses
        BY <3>1 DEF IsRunning
      <4> HIDE DEF statuses
      <4> QED
        BY <1>3, <4>1, NotFound
    <3> QED
      BY <3>1 DEF Unlisted
  <2> QED
    BY <1>1, <1>2, <1>3, <2>1, SelfKeeps DEF Forced
<1>4. CASE c # None
  <2>1. /\ c \in Conversations /\ IsRunning(w, c)
        /\ a \in Everyone(w.conversations[c])
    BY <1>4, Found DEF IsRunning
  <2> HIDE DEF c
  <2>2. w.agents[a].current_conversation_id = c /\ c # None
    BY <2>1, ConversationAssumption DEF Sound, Lists
  <2> SUFFICES Keeps(u, w, X) /\ (IsRunning(u, c) => a \notin Everyone(u.conversations[c]))
    BY <2>1, <2>2, UnlistedFrom DEF Forced, Keeps
  <2> HIDE DEF X
  <2>3. CASE a \in ToSet(w.conversations[c].joiners)
    <3>1. Goes(e1, w, X) /\ e1.agents[a].current_conversation_id # c
      BY <1>1, <2>1, <2>3, DetachGoes
    <3> HIDE DEF e1
    <3>2. IsRunning(e1, c) => a \notin Everyone(e1.conversations[c])
      BY <2>1, <3>1 DEF Goes, Sound, Lists
    <3>3. u = e1
      BY <1>2, <1>4, <2>3
    <3> QED
      BY <3>1, <3>2, <3>3, GoesKeeps
  <2>4. CASE a \notin ToSet(w.conversations[c].joiners)
    <3>1. Quiet(x0, w)
      BY <1>1, QuietPending DEF Sound
    <3> HIDE DEF x0
    <3>2. Quiet(x1, x0)
      BY <3>1, QuietCancel DEF Quiet
    <3> HIDE DEF x1
    <3>3. Goes(x1, w, X) /\ Sound(x1, X) /\ IsRunning(x1, c)
      <4>1. Quiet(x1, w)
        BY <3>1, <3>2, QuietTwice
      <4> QED
        BY <1>1, <2>1, <4>1, QuietGoes DEF Goes, SameRunning
    <3>4. Removed(x1, X, c, a, r)
      BY <2>1, <3>3, RemovalFollows
    <3> HIDE DEF r
    <3> DEFINE Y == X \cup {a}
    <3>5. Runs(r) /\ Follows(r, x1.conversations[c], Y) /\ a \notin Everyone(r)
      BY <3>4 DEF Removed
    <3>6. Y = X /\ X \subseteq Y
      BY DEF X
    <3> HIDE DEF Y
    <3>7. /\ Sound(x2, Y) /\ Fades(x2, x1) /\ v = r
          /\ SameRunning(x2, x1)
      BY <2>1, <3>3, <3>5, <3>6, ListsChange DEF MayPut
    <3> HIDE DEF x2
    <3>8. Goes(x2, x1, X) /\ Sound(x2, X) /\ IsRunning(x2, c)
      BY <2>1, <3>3, <3>6, <3>7 DEF Goes, SameRunning
    <3>9. Keeps(x2, w, X)
      BY <3>3, <3>8, GoesTwice, GoesKeeps
    <3>10. Keeps(e2, x2, X) /\ ~IsRunning(e2, c)
      BY <2>1, <3>8, EndGoes DEF Keeps
    <3>11. Quiet(e3, x2)
      BY <3>8, QuietCheck DEF Sound
    <3>12. Keeps(e3, x2, X) /\ Everyone(e3.conversations[c]) = Everyone(v)
      BY <2>1, <3>8, <3>11, QuietKeeps DEF Quiet, SameLists, Everyone
    <3>13. Goes(e4, x2, X)
      BY <2>1, <3>8, ScheduleGoes
    <3>14. Keeps(e4, x2, X) /\ Everyone(e4.conversations[c]) = Everyone(v)
      BY <2>1, <3>8, <3>13, GoesKeeps, ScheduleLists
    <3> HIDE DEF e1, e2, e3, e4
    <3>15. u = e2 \/ u = e3 \/ u = e4
      BY <1>2, <1>4, <2>4
    <3>16. Keeps(u, x2, X)
      BY <3>10, <3>12, <3>14, <3>15
    <3>17. IsRunning(u, c) => a \notin Everyone(u.conversations[c])
      BY <3>5, <3>7, <3>10, <3>12, <3>14, <3>15
    <3> QED
      BY <3>9, <3>16, <3>17, KeepsTwice
  <2> QED
    BY <2>3, <2>4
<1> QED
  BY <1>3, <1>4

\* Logged out, in no list and with no timer.
LoggedOutOf(u, w, a) ==
  /\ Shape(u) /\ u.conversations = w.conversations
  /\ u.agents[a] = LoggedOut
  /\ \A b \in Agents \ {a} : u.agents[b] = w.agents[b]
  /\ WT(a) \notin u.timers /\ IR(a) \notin u.timers
  /\ \A b \in Agents \ {a} : /\ WT(b) \in u.timers <=> WT(b) \in w.timers
                             /\ IR(b) \in u.timers => IR(b) \in w.timers
  /\ \A x \in u.timers : x \in w.timers

\* An agent on no list and in no invitation is logged out.
LEMMA GoneSound ==
  ASSUME NEW w, NEW a \in Agents, Sound(w, {a}), Unlisted(w, a), Uninvited(w, a),
         NEW u, LoggedOutOf(u, w, a)
  PROVE  Sound(u, {})
<1>1. /\ Shape(u) /\ u.conversations = w.conversations
      /\ u.agents[a].state = "logged_out"
      /\ u.agents[a].pending_conversation_id = None
      /\ u.agents[a].current_conversation_id = None
      /\ u.agents[a].announced = FALSE
  BY DEF LoggedOutOf, LoggedOut
<1>2. \A b \in Agents \ {a} : u.agents[b] = w.agents[b]
  BY DEF LoggedOutOf
<1>3. /\ WT(a) \notin u.timers /\ IR(a) \notin u.timers
      /\ \A b \in Agents \ {a} : /\ WT(b) \in u.timers <=> WT(b) \in w.timers
                                 /\ IR(b) \in u.timers => IR(b) \in w.timers
      /\ \A x \in u.timers : x \in w.timers
  BY DEF LoggedOutOf
<1>4. ASSUME NEW b \in Agents PROVE InState(u, b)
  <2>1. CASE b = a
    BY <1>1, <1>3, <2>1 DEF InState
  <2>2. CASE b # a
    <3>1. InState(w, b)
      BY DEF Sound
    <3> QED
      BY <1>2, <1>3, <2>2, <3>1 DEF InState
  <2> QED
    BY <2>1, <2>2
<1>5. Announcements = {} => \A b \in Agents : u.agents[b].announced = FALSE
  BY <1>1, <1>2 DEF Sound
<1>6. ASSUME NEW c \in Conversations
      PROVE  /\ u.conversations[c].status = "pending" => Invites(u, c)
             /\ IsRunning(u, c) => Lists(u, c)
             /\ IsRunning(u, c) \/ Untimed(u, c)
  <2>1. ASSUME u.conversations[c].status = "pending" PROVE Invites(u, c)
    <3>1. Invites(w, c) /\ a \notin Members(w.conversations[c])
      BY <1>1, <2>1 DEF Sound, Uninvited
    <3>2. PICK i, t \in Agents :
            /\ w.conversations[c].initiator = i
            /\ w.conversations[c].participants = <<i, t>>
            /\ w.conversations[c].joiners = <<>>
            /\ w.agents[i].pending_conversation_id = c
            /\ w.agents[t].pending_conversation_id = c
            /\ w.agents[i].state = "idle"
      BY <3>1 DEF Invites
    <3>3. ToSet(<<i, t>>) = {i, t}
      BY DEF ToSet
    <3>4. i # a /\ t # a
      BY <3>1, <3>2, <3>3 DEF Members
    <3> QED
      BY <1>1, <1>2, <3>2, <3>4 DEF Invites
  <2>2. ASSUME IsRunning(u, c) PROVE Lists(u, c)
    <3>1. Lists(w, c) /\ a \notin Everyone(w.conversations[c])
      BY <1>1, <2>2 DEF Sound, IsRunning, Unlisted
    <3>2. Everyone(u.conversations[c]) \subseteq Agents
      BY <1>1, EveryoneAgents
    <3> QED
      BY <1>1, <1>2, <3>1, <3>2 DEF Lists
  <2>3. IsRunning(u, c) \/ Untimed(u, c)
    BY <1>1, <1>3 DEF Sound, IsRunning, Untimed
  <2> QED
    BY <2>1, <2>2, <2>3
<1>7. ASSUME NEW b \in Agents
      PROVE  Placed(u, b) /\ (Announcements = {} => Marked(u, b))
  <2>1. CASE b = a
    BY <1>1, <2>1 DEF Placed, Marked
  <2>2. CASE b # a
    <3>1. Placed(w, b) /\ (Announcements = {} => Marked(w, b))
      BY <2>2 DEF Sound
    <3>2. u.agents[b] = w.agents[b]
      BY <1>2, <2>2
    <3>3. Placed(u, b)
      BY <1>1, <3>1, <3>2 DEF Placed, IsRunning
    <3>4. Announcements = {} => Marked(u, b)
      BY <1>1, <3>1, <3>2 DEF Marked
    <3> QED
      BY <3>3, <3>4
  <2> QED
    BY <2>1, <2>2
<1> QED
  BY <1>1, <1>4, <1>5, <1>6, <1>7 DEF Sound

\* The agent leaves everything, its timers and its record at last.
LEMMA LogoutSound ==
  ASSUME NEW w, Sound(w, {}), NEW a \in Agents
  PROVE  Sound(logout(cleanupServerAnnouncementsForAgent(
                 cancelByAgent(
                   persistLoggedInAgentState(
                     cancelPendingTransfersForAgent(
                       forceEndConversation(cancelPendingConversation(w, a), a),
                       a, NoFaults), a), a), a), a), {})
<1> DEFINE x1 == cancelPendingConversation(w, a)
           x2 == forceEndConversation(x1, a)
           x3 == cancelPendingTransfersForAgent(x2, a, NoFaults)
           x4 == persistLoggedInAgentState(x3, a)
           x5 == cancelByAgent(x4, a)
           x6 == cleanupServerAnnouncementsForAgent(x5, a)
           x7 == logout(x6, a)
           X == {a}
<1>1. OutOfInvitations(x1, a)
  BY LeaveInvitationSound
<1> HIDE DEF x1
<1>2. Sound(x1, {a})
  BY <1>1 DEF OutOfInvitations
<1>3. Forced(x2, x1, a)
  BY <1>2, ForceEndKeeps
<1> HIDE DEF x2
<1>4. Sound(x2, X) /\ Unlisted(x2, a) /\ Fades(x2, x1)
  BY <1>3 DEF Forced, Keeps
<1>5. Uninvited(x2, a)
  <2>1. CASE x1.agents[a].current_conversation_id = None
    BY <1>1, <1>3, <2>1 DEF Forced, OutOfInvitations
  <2>2. CASE x1.agents[a].pending_conversation_id = None
    <3>1. x2.agents[a].pending_conversation_id = None
      BY <1>4, <2>2 DEF Fades
    <3> QED
      BY <1>4, <3>1, UnmarkedUninvited
  <2> QED
    BY <1>1, <2>1, <2>2 DEF OutOfInvitations
<1>6. Quiet(x3, x2)
  BY <1>4, QuietPending DEF Sound
<1> HIDE DEF x3
<1>7. Quiet(x4, x3)
  BY <1>6, QuietPersist DEF Quiet
<1> HIDE DEF x4
<1>8. Quiet(x4, x2)
  BY <1>6, <1>7, QuietTwice
<1>9. Sound(x4, X) /\ Unlisted(x4, a) /\ Uninvited(x4, a) /\ Shape(x4)
  <2>1. Sound(x4, X)
    BY <1>4, <1>8, QuietSound
  <2>2. Unlisted(x4, a)
    BY <1>4, <1>8 DEF Unlisted, Quiet, SameLists, IsRunning, Everyone
  <2>3. Uninvited(x4, a)
    BY <1>5, <1>8 DEF Uninvited, Quiet, SameLists, Members
  <2> QED
    BY <2>1, <2>2, <2>3 DEF Sound
<1> DEFINE T == {x \in x4.timers : a \notin x.agent_ids}
           A5 == [x4.agents EXCEPT ![a].announced = FALSE]
           A == [x4.agents EXCEPT ![a] = LoggedOut]
           N == [n \in Announcements |-> x5.announcements[n] \ {a}]
           P == [x5.purses EXCEPT ![a] = Nothing]
<1>10. x5 = [x4 EXCEPT !.timers = T]
  BY DEF cancelByAgent
<1>11. OwnTimers(T)
  BY <1>9 DEF Shape, OwnTimers
<1>12. /\ WT(a) \notin T /\ IR(a) \notin T
       /\ \A b \in Agents \ {a} : /\ WT(b) \in T <=> WT(b) \in x4.timers
                                  /\ IR(b) \in T => IR(b) \in x4.timers
       /\ \A x \in T : x \in x4.timers
  BY OwnFacts
<1> HIDE DEF T, x5
<1>13. /\ Shape(x5) /\ x5.agents = x4.agents /\ x5.timers = T
       /\ x5.conversations = x4.conversations
  BY <1>9, <1>10, <1>11 DEF Shape
<1>14. x6 = [[x5 EXCEPT !.agents = A5] EXCEPT !.announcements = N]
  BY <1>13 DEF cleanupServerAnnouncementsForAgent, clearActiveServerAnnouncement, Shape
<1>15. A5 = [b \in Agents |-> A5[b]] /\ \A b \in Agents \ {a} : A5[b] = x4.agents[b]
  BY <1>9 DEF Shape
<1> HIDE DEF x6, A5, N, P
<1>16. x7 = [[x6 EXCEPT !.agents = [A5 EXCEPT ![a] = LoggedOut]]
               EXCEPT !.purses = [x6.purses EXCEPT ![a] = Nothing]]
  BY <1>13, <1>14 DEF logout, Shape
<1>17. [A5 EXCEPT ![a] = LoggedOut] = A
  BY <1>9, <1>15 DEF Shape
<1>18. LoggedOut \in AgentRecord
  BY DEF LoggedOut, AgentRecord
<1>19. /\ A \in [Agents -> AgentRecord] /\ A[a] = LoggedOut
       /\ \A b \in Agents \ {a} : A[b] = x4.agents[b]
  BY <1>9, <1>18 DEF Shape
<1> HIDE DEF A, x7
<1>20. /\ Shape(x7) /\ x7.agents = A /\ x7.timers = T
       /\ x7.conversations = x4.conversations
  <2> DEFINE y5 == [x5 EXCEPT !.agents = A]
             y6 == [y5 EXCEPT !.announcements = N]
             V == [x6.purses EXCEPT ![a] = Nothing]
             y7 == [y6 EXCEPT !.purses = V]
  <2>1. Shape(y5) /\ y5.agents = A /\ y5.timers = T
        /\ y5.conversations = x4.conversations
    BY <1>13, <1>19 DEF Shape
  <2> HIDE DEF V
  <2>2. x7 = [[[[x5 EXCEPT !.agents = A5] EXCEPT !.announcements = N]
                 EXCEPT !.agents = A] EXCEPT !.purses = V]
    BY <1>14, <1>16, <1>17 DEF V
  <2>3. x7 = y7
    BY <1>13, <2>2 DEF Shape
  <2> HIDE DEF y5
  <2>4. Shape(y6) /\ y6.agents = A /\ y6.timers = T
        /\ y6.conversations = x4.conversations
    BY <2>1 DEF Shape
  <2> HIDE DEF y6
  <2>5. Shape(y7) /\ y7.agents = A /\ y7.timers = T
        /\ y7.conversations = x4.conversations
    BY <2>4 DEF Shape
  <2> QED
    BY <2>3, <2>5
<1>21. LoggedOutOf(x7, x4, a)
  BY <1>12, <1>19, <1>20 DEF LoggedOutOf
<1>22. Sound(x4, {a})
  BY <1>9
<1>23. Sound(x7, {})
  BY <1>9, <1>21, <1>22, GoneSound
<1> QED
  BY <1>23 DEF x7, x6, x5, x4, x3, x2, x1

(***************************************************************************)
(* The steps.                                                              *)
(***************************************************************************)
\* The variables, packed.
LEMMA WorldNow ==
  /\ world.agents = agents /\ world.conversations = conversations
  /\ world.timers = timers /\ world.transfers = transfers
BY DEF world

\* A handler that leaves a sound world is a step that keeps the invariant.
LEMMA BecomeSound ==
  ASSUME NEW v, Sound(v, {}), Become(v)
  PROVE  IInv'
<1>1. world' = v
  BY DEF Become, world, Sound, Shape
<1> QED
  BY <1>1 DEF IInv

\* A step of nobody keeps it.
LEMMA UnchangedSound ==
  ASSUME IInv, UNCHANGED vars
  PROVE  IInv'
<1>1. world' = world
  BY DEF vars, world
<1> QED
  BY <1>1 DEF IInv

\* At first nobody is logged in.
LEMMA InitSound == Init => IInv
<1> SUFFICES ASSUME Init PROVE Sound(world, {})
  BY DEF IInv
<1>1. /\ agents = [a \in Agents |-> LoggedOut] /\ timers = {}
      /\ transfers = [t \in Transfers |-> NoOffer]
      /\ conversations = [c \in Conversations |-> NoConversation]
  BY DEF Init, EmptyWorld
<1>2. LoggedOut \in AgentRecord
  BY DEF LoggedOut, AgentRecord
<1>3. IsConversation(NoConversation) /\ NoConversation.status = "absent"
  BY DEF IsConversation, NoConversation
<1>4. IsOffer(NoOffer)
  BY DEF IsOffer, NoOffer
<1>5. /\ \A a \in Agents : agents[a] = LoggedOut
      /\ \A c \in Conversations : conversations[c].status = "absent"
  BY <1>1, <1>3
<1>6. Shape(world)
  <2>1. world = [ agents |-> world.agents, purses |-> world.purses,
                  transfers |-> world.transfers,
                  announcements |-> world.announcements, timers |-> world.timers,
                  registrations |-> world.registrations,
                  conversations |-> world.conversations ]
    BY DEF world
  <2>2. world.agents \in [Agents -> AgentRecord]
    BY <1>1, <1>2, WorldNow
  <2>3. /\ world.transfers = [t \in Transfers |-> world.transfers[t]]
        /\ \A t \in Transfers : IsOffer(world.transfers[t])
    BY <1>1, <1>4, WorldNow
  <2>4. /\ world.conversations = [c \in Conversations |-> world.conversations[c]]
        /\ \A c \in Conversations : IsConversation(world.conversations[c])
    BY <1>1, <1>3, WorldNow
  <2>5. OwnTimers(world.timers)
    BY <1>1, WorldNow DEF OwnTimers
  <2> QED
    BY <2>1, <2>2, <2>3, <2>4, <2>5 DEF Shape
<1>7. \A a \in Agents :
        /\ InState(world, a) /\ world.agents[a].announced = FALSE
        /\ Placed(world, a) /\ Marked(world, a)
  BY <1>1, <1>5, WorldNow DEF LoggedOut, InState, Placed, Marked
<1>8. \A c \in Conversations :
        /\ world.conversations[c].status # "pending" /\ ~IsRunning(world, c)
        /\ Untimed(world, c)
  BY <1>1, <1>5, WorldNow DEF IsRunning, Untimed
<1> QED
  BY <1>6, <1>7, <1>8 DEF Sound

\* What one agent does alone.
LEMMA AgentStep ==
  ASSUME IInv, AgentNext
  PROVE  IInv'
<1> USE DEF IInv
<1>1. ASSUME NEW a \in Agents, loginAgent(a) PROVE IInv'
  <2> DEFINE v == startIdleReminder(login(world, a), a)
  <2>1. Sound(v, {})
    BY <1>1, LoginSound DEF loginAgent
  <2>2. Become(v)
    BY <1>1 DEF loginAgent
  <2> HIDE DEF v
  <2> QED
    BY <2>1, <2>2, BecomeSound
<1>2. ASSUME NEW a \in Agents, logoutAgent(a) PROVE IInv'
  <2> DEFINE v == logout(cleanupServerAnnouncementsForAgent(
                     cancelByAgent(LeftEverything(a), a), a), a)
  <2>1. Sound(v, {})
    BY LogoutSound DEF LeftEverything
  <2>2. Become(v)
    BY <1>2 DEF logoutAgent
  <2> HIDE DEF v
  <2> QED
    BY <2>1, <2>2, BecomeSound
<1>3. ASSUME NEW a \in Agents, executeWait(a) PROVE IInv'
  <2> DEFINE u == handleInterruption(world, a)
             v == executeValidatedWait(u, a)
  <2>1. /\ Sound(u, {}) /\ u.agents[a].state = "idle" /\ Uninvited(u, a)
    BY <1>3, InterruptionSound DEF executeWait
  <2>2. Become(v)
    BY <1>3 DEF executeWait
  <2> HIDE DEF u
  <2>3. Sound(v, {})
    BY <2>1, WaitSound
  <2> HIDE DEF v
  <2> QED
    BY <2>2, <2>3, BecomeSound
<1>4. ASSUME NEW a \in Agents, waitCompleted(a) PROVE IInv'
  <2>1. PICK timer \in Pending("wait") :
          a \in timer.agent_ids /\ Become(handleWaitCompleted(world, timer, a))
    BY <1>4 DEF waitCompleted
  <2>2. timer \in world.timers /\ timer.type = "wait"
    BY WorldNow DEF Pending
  <2> DEFINE v == handleWaitCompleted(world, timer, a)
  <2>3. Sound(v, {})
    BY <2>1, <2>2, WaitedSound
  <2>4. Become(v)
    BY <2>1
  <2> HIDE DEF v
  <2> QED
    BY <2>3, <2>4, BecomeSound
<1> QED
  BY <1>1, <1>2, <1>3, <1>4 DEF AgentNext

\* Inviting, and answering an invitation.
LEMMA InvitationStep ==
  ASSUME IInv, InvitationNext
  PROVE  IInv'
<1>1. Sound(world, {})
  BY DEF IInv
<1>2. ASSUME NEW a \in Agents, NEW target \in Agents, NEW c \in Conversations,
             startConversationRequest(a, target, c)
      PROVE  IInv'
  <2> DEFINE v == startConversation(world, c, a, target)
  <2>1. Sound(v, {})
    BY <1>1, <1>2, StartSound, WorldNow DEF startConversationRequest
  <2>2. Become(v)
    BY <1>2 DEF startConversationRequest
  <2> HIDE DEF v
  <2> QED
    BY <2>1, <2>2, BecomeSound
<1>3. ASSUME NEW a \in Agents, acceptConversationRequest(a) PROVE IInv'
  <2> DEFINE c == findConversationByAgent(world, a, {"pending"})
             v == acceptConversation(world, c, a)
  <2>1. c # None /\ isTarget(world.conversations[c], a) /\ Become(v)
    BY <1>3, WorldNow DEF acceptConversationRequest
  <2>2. c \in Conversations /\ world.conversations[c].status = "pending"
    BY <2>1, Found
  <2> HIDE DEF c
  <2>3. Sound(v, {})
    BY <1>1, <2>1, <2>2, AcceptSound
  <2> HIDE DEF v
  <2> QED
    BY <2>1, <2>3, BecomeSound
<1>4. ASSUME NEW a \in Agents, rejectConversationRequest(a) PROVE IInv'
  <2> DEFINE c == findConversationByAgent(world, a, {"pending"})
             v == rejectConversation(world, c, a)
  <2>1. c # None /\ Become(v)
    BY <1>4, WorldNow DEF rejectConversationRequest
  <2>2. c \in Conversations /\ world.conversations[c].status = "pending"
    BY <2>1, Found
  <2> HIDE DEF c
  <2>3. Sound(v, {})
    BY <1>1, <2>2, RejectSound
  <2> HIDE DEF v
  <2> QED
    BY <2>1, <2>3, BecomeSound
<1> QED
  BY <1>2, <1>3, <1>4 DEF InvitationNext

\* What the members of a conversation do.
LEMMA MemberStep ==
  ASSUME IInv, MemberNext
  PROVE  IInv'
<1>1. Sound(world, {})
  BY DEF IInv
<1>2. ASSUME NEW a \in Agents, NEW c \in Conversations, joinConversationRequest(a, c)
      PROVE  IInv'
  <2> DEFINE v == joinConversation(world, c, a)
  <2>1. Sound(v, {})
    BY <1>1, <1>2, JoinSound DEF joinConversationRequest
  <2>2. Become(v)
    BY <1>2 DEF joinConversationRequest
  <2> HIDE DEF v
  <2> QED
    BY <2>1, <2>2, BecomeSound
<1>3. ASSUME NEW a \in Agents, NEW named \in Agents, speakInConversation(a, named)
      PROVE  IInv'
  <2> DEFINE c == findConversationByAgent(world, a, {"active", "closing"})
             next == IF conversations[c].status = "closing"
                     THEN resolveClosingNextSpeaker(conversations[c], a, named)
                     ELSE named
  <2>1. /\ c # None /\ isMyTurn(world, c, a)
        /\ \/ \E response \in Responses(a) : Become(Spoken(a, c, next, response))
           \/ \E t \in Transfers, payload \in Payloads :
                /\ next = named
                /\ Become(startConversationTransfer(
                            Spoken(a, c, next, None), c, t, a, next, payload))
    BY <1>3 DEF speakInConversation
  <2>2. c \in Conversations /\ IsRunning(world, c)
    BY <2>1, Found DEF IsRunning
  <2> HIDE DEF c, next
  <2>3. ASSUME NEW response PROVE Sound(Spoken(a, c, next, response), {})
    <3> DEFINE u == speak(world, c, a, next)
               v == resolveConversationTransferResponse(u, a, response)
    <3>1. Goes(u, world, {})
      BY <1>1, <2>1, <2>2, SpeakGoes
    <3> HIDE DEF u
    <3>2. Sound(u, {}) /\ Shape(u)
      BY <3>1 DEF Goes, Sound
    <3>3. Quiet(v, u)
      BY <3>2, QuietAnswer
    <3> HIDE DEF v
    <3>4. Sound(v, {})
      BY <3>2, <3>3, QuietSound
    <3> QED
      BY <3>4 DEF Spoken, u, v
  <2>4. CASE \E response \in Responses(a) : Become(Spoken(a, c, next, response))
    <3>1. PICK response \in Responses(a) : Become(Spoken(a, c, next, response))
      BY <2>4
    <3> QED
      BY <2>3, <3>1, BecomeSound
  <2>5. CASE \E t \in Transfers, payload \in Payloads :
               /\ next = named
               /\ Become(startConversationTransfer(
                           Spoken(a, c, next, None), c, t, a, next, payload))
    <3>1. PICK t \in Transfers, payload \in Payloads :
               /\ next = named
               /\ Become(startConversationTransfer(
                           Spoken(a, c, next, None), c, t, a, next, payload))
      BY <2>5
    <3> DEFINE u == Spoken(a, c, next, None)
               v == startConversationTransfer(u, c, t, a, next, payload)
    <3>2. Sound(u, {}) /\ next \in Agents
      BY <2>3, <3>1
    <3>3. Become(v)
      BY <3>1
    <3> HIDE DEF u
    <3>4. Quiet(v, u)
      BY <3>2, QuietProposal DEF Sound
    <3> HIDE DEF v
    <3>5. Sound(v, {})
      BY <3>2, <3>4, QuietSound
    <3> QED
      BY <3>3, <3>5, BecomeSound
  <2> QED
    BY <2>1, <2>4, <2>5
<1>4. ASSUME NEW a \in Agents, NEW named \in Agents, endConversationRequest(a, named)
      PROVE  IInv'
  <2> DEFINE c == findConversationByAgent(world, a, {"active"})
  <2>1. /\ c # None /\ isMyTurn(world, c, a)
        /\ \E response \in Responses(a) :
             Become(endConversationByAgent(world, c, a, named, response))
    BY <1>4 DEF endConversationRequest
  <2>2. c \in Conversations /\ IsRunning(world, c)
    BY <2>1, Found DEF IsRunning
  <2> HIDE DEF c
  <2>3. PICK response \in Responses(a) :
          Become(endConversationByAgent(world, c, a, named, response))
    BY <2>1
  <2> DEFINE v == endConversationByAgent(world, c, a, named, response)
  <2>4. Sound(v, {})
    BY <1>1, <2>1, <2>2, EndByAgentKeeps DEF Keeps
  <2>5. Become(v)
    BY <2>3
  <2> HIDE DEF v
  <2> QED
    BY <2>4, <2>5, BecomeSound
<1>5. ASSUME NEW a \in Agents, stayInConversationRequest(a) PROVE IInv'
  <2> DEFINE c == findConversationByAgent(world, a, {"active"})
             v == stayInConversation(world, c, a)
  <2>1. c # None /\ Become(v)
    BY <1>5 DEF stayInConversationRequest
  <2>2. c \in Conversations /\ IsRunning(world, c)
    BY <2>1, Found DEF IsRunning
  <2> HIDE DEF c
  <2>3. Sound(v, {})
    BY <1>1, <2>2, StayKeeps DEF Keeps
  <2> HIDE DEF v
  <2> QED
    BY <2>1, <2>3, BecomeSound
<1>6. ASSUME NEW a \in Agents, leaveConversationRequest(a) PROVE IInv'
  <2> DEFINE c == findConversationByAgent(world, a, {"active"})
             v == leaveConversation(world, c, a)
  <2>1. c # None /\ Become(v)
    BY <1>6 DEF leaveConversationRequest
  <2>2. c \in Conversations /\ IsRunning(world, c)
    BY <2>1, Found DEF IsRunning
  <2> HIDE DEF c
  <2>3. Sound(v, {})
    BY <1>1, <2>2, LeaveKeeps DEF Keeps
  <2> HIDE DEF v
  <2> QED
    BY <2>1, <2>3, BecomeSound
<1> QED
  BY <1>2, <1>3, <1>4, <1>5, <1>6 DEF MemberNext

\* The timers of conversations and of the offers made in them.
LEMMA TimerStep ==
  ASSUME IInv, TimerNext
  PROVE  IInv'
<1>1. Sound(world, {})
  BY DEF IInv
<1>2. ASSUME NEW c \in Conversations, acceptTimeout(c) PROVE IInv'
  <2>1. PICK timer \in ConversationTimers(world, c, {"conversation_accept"}) :
          Become(handleAcceptTimeout(world, timer))
    BY <1>2 DEF acceptTimeout
  <2>2. timer.type = "conversation_accept" /\ timer.about.conversation = c
    BY DEF ConversationTimers
  <2>3. Sound(handleAcceptTimeout(world, timer), {})
    BY <1>1, <2>2, AcceptTimeoutSound
  <2> QED
    BY <2>1, <2>3, BecomeSound
<1>3. ASSUME NEW c \in Conversations, intervalElapsed(c) PROVE IInv'
  <2>1. PICK timer \in ConversationTimers(world, c, {"conversation_interval"}) :
          Become(handleConversationInterval(world, timer))
    BY <1>3 DEF intervalElapsed
  <2>2. /\ timer.type = "conversation_interval" /\ timer.about.conversation = c
        /\ timer \in world.timers
    BY DEF ConversationTimers
  <2>3. IsRunning(world, c)
    BY <1>1, <2>2, TimedRuns DEF TalkTypes
  <2>4. Keeps(handleConversationInterval(world, timer), world, {})
    BY <1>1, <2>2, <2>3, IntervalKeeps DEF IsRunning
  <2> QED
    BY <2>1, <2>4, BecomeSound DEF Keeps
<1>4. ASSUME NEW c \in Conversations, inactiveCheckTimeout(c) PROVE IInv'
  <2>1. PICK timer \in ConversationTimers(world, c, {"conversation_inactive_check"}) :
          Become(handleInactiveCheckTimeout(world, timer))
    BY <1>4 DEF inactiveCheckTimeout
  <2>2. timer.type = "conversation_inactive_check" /\ timer.about.conversation = c
    BY DEF ConversationTimers
  <2>3. Keeps(handleInactiveCheckTimeout(world, timer), world, {})
    BY <1>1, <2>2, SilentKeeps
  <2> QED
    BY <2>1, <2>3, BecomeSound DEF Keeps
<1>5. ASSUME NEW c \in Conversations, turnTimeout(c) PROVE IInv'
  <2>1. PICK timer \in ConversationTimers(world, c, {"conversation_turn"}) :
          Become(handleTurnTimeout(world, timer))
    BY <1>5 DEF turnTimeout
  <2>2. /\ timer.type = "conversation_turn" /\ timer.about.conversation = c
        /\ timer \in world.timers
    BY DEF ConversationTimers
  <2>3. IsRunning(world, c)
    BY <1>1, <2>2, TimedRuns DEF TalkTypes
  <2>4. Keeps(handleTurnTimeout(world, timer), world, {})
    BY <1>1, <2>2, <2>3, TurnKeeps DEF IsRunning
  <2> QED
    BY <2>1, <2>4, BecomeSound DEF Keeps
<1>6. ASSUME NEW t \in Transfers, transferTimeout(t) PROVE IInv'
  <2>1. PICK timer \in Pending("transfer") :
          timer.about = t /\ Become(handleTransferTimeout(world, timer, NoFaults))
    BY <1>6 DEF transferTimeout
  <2> DEFINE v == handleTransferTimeout(world, timer, NoFaults)
  <2>2. Quiet(v, world)
    BY <1>1, <2>1, QuietTimeout DEF Pending, Sound
  <2>3. Become(v)
    BY <2>1
  <2> HIDE DEF v
  <2>4. Sound(v, {})
    BY <1>1, <2>2, QuietSound
  <2> QED
    BY <2>3, <2>4, BecomeSound
<1> QED
  BY <1>2, <1>3, <1>4, <1>5, <1>6 DEF TimerNext

\* Announcements, and the notifications that close their windows.
LEMMA AnnouncementStep ==
  ASSUME IInv, AnnouncementNext
  PROVE  IInv'
<1>1. Sound(world, {})
  BY DEF IInv
<1>2. ASSUME NEW n \in Announcements, announce(n) PROVE IInv'
  <2> DEFINE v == fireServerAnnouncement(world, n)
  <2>1. Sound(v, {})
    BY <1>1, AnnounceSound
  <2>2. Become(v)
    BY <1>2 DEF announce
  <2> HIDE DEF v
  <2> QED
    BY <2>1, <2>2, BecomeSound
<1>3. ASSUME NEW a \in Agents, deliverNotification(a) PROVE IInv'
  <2> DEFINE v == clearActiveServerAnnouncement(world, a)
  <2>1. Quiet(v, world)
    BY <1>1, QuietWindow DEF Sound
  <2>2. Become(v)
    BY <1>3 DEF deliverNotification
  <2> HIDE DEF v
  <2>3. Sound(v, {})
    BY <1>1, <2>1, QuietSound
  <2> QED
    BY <2>2, <2>3, BecomeSound
<1> QED
  BY <1>2, <1>3 DEF AnnouncementNext

\* Whatever is said, answered, left, timed out or announced, who talks to whom
\* stays told the same way everywhere: by the agents' records, by the lists of
\* the conversations and by the timers.
THEOREM ConversationIsSound == Spec => []IInv
<1>1. Init => IInv
  BY InitSound
<1>2. IInv /\ [Next]_vars => IInv'
  <2> SUFFICES ASSUME IInv, [Next]_vars PROVE IInv'
    OBVIOUS
  <2> QED
    BY AgentStep, InvitationStep, MemberStep, TimerStep, AnnouncementStep,
       UnchangedSound DEF Next
<1> QED
  BY <1>1, <1>2, PTL DEF Spec

\* A list on which nobody is twice is as long as the set of its agents is large.
LEMMA DistinctLength ==
  ASSUME NEW q \in Seq(Agents), Distinct(q)
  PROVE  Len(q) = Cardinality(ToSet(q))
<1> DEFINE n == Len(q)
           D == 1 .. n
           S == ToSet(q)
           f == [i \in D |-> q[i]]
<1>1. n \in Nat /\ DOMAIN q = D
  OBVIOUS
<1>2. S = {q[i] : i \in D}
  BY <1>1 DEF ToSet
<1>3. f \in [D -> S] /\ (\A i, j \in D : f[i] = f[j] => i = j)
      /\ \A x \in S : \E i \in D : f[i] = x
  BY <1>1, <1>2 DEF Distinct
<1>4. DOMAIN f = D
  OBVIOUS
<1> HIDE DEF f, S
<1>5. f \in Bijection(D, S)
  BY <1>3, <1>4 DEF Bijection, Injection, Surjection, IsInjective
<1>6. ExistsBijection(D, S)
  BY <1>5 DEF ExistsBijection
<1>7. IsFiniteSet(D) /\ Cardinality(D) = n
  <2> HIDE DEF n
  <2>1. IsFiniteSet(1 .. n) /\ Cardinality(1 .. n) = IF 1 > n THEN 0 ELSE n - 1 + 1
    BY <1>1, FS_Interval
  <2> QED
    BY <1>1, <2>1
<1> HIDE DEF D
<1>8. Cardinality(S) = Cardinality(D)
  BY <1>6, <1>7, FS_Bijection
<1> QED
  BY <1>7, <1>8 DEF S

\* The records of the agents and the lists of the conversations agree: an agent
\* is in_conversation exactly when the one running conversation its record
\* names has it, nobody is counted twice and no conversation is over-full.
THEOREM MembershipAlwaysAgrees == Spec => []MembershipAgrees
<1>1. IInv => MembershipAgrees
  <2> SUFFICES ASSUME Sound(world, {}) PROVE MembershipAgrees
    BY DEF IInv
  <2>1. ASSUME NEW a \in Agents, NEW c, c = agents[a].current_conversation_id
        PROVE  /\ agents[a].state = "in_conversation" <=> c # None
               /\ c # None => /\ Running(c)
                              /\ a \in Members(conversations[c])
                                         \cup ToSet(conversations[c].joiners)
    <3>1. InState(world, a) /\ Placed(world, a)
      BY DEF Sound
    <3> QED
      BY <2>1, <3>1, WorldNow DEF InState, Placed, IsRunning, Running, Everyone, Members
  <2>2. ASSUME NEW c \in Conversations, Running(c),
               NEW q, q = conversations[c].participants \o conversations[c].joiners
        PROVE  /\ Len(q) = Cardinality(ToSet(q))
               /\ Len(q) <= MaxParticipants
               /\ \A a \in ToSet(q) : agents[a].current_conversation_id = c
    <3> DEFINE v == conversations[c]
               s == v.participants
               t == v.joiners
    <3>1. Lists(world, c) /\ IsConversation(v)
      BY <2>2, WorldNow DEF Sound, Shape, IsRunning, Running
    <3>2. /\ s \in Seq(Agents) /\ t \in Seq(Agents) /\ Distinct(s) /\ Distinct(t)
          /\ ToSet(s) \cap ToSet(t) = {} /\ Len(s) + Len(t) <= MaxParticipants
          /\ \A a \in ToSet(s) \cup ToSet(t) : agents[a].current_conversation_id = c
      BY <3>1, WorldNow DEF Lists, IsConversation, Everyone
    <3> HIDE DEF s, t
    <3>3. /\ q \in Seq(Agents) /\ Len(q) = Len(s) + Len(t)
          /\ ToSet(q) = ToSet(s) \cup ToSet(t) /\ Distinct(q)
      BY <2>2, <3>2, ConcatFacts DEF s, t
    <3>4. Len(q) = Cardinality(ToSet(q))
      BY <3>3, DistinctLength
    <3> QED
      BY <3>2, <3>3, <3>4
  <2> QED
    BY <2>1, <2>2 DEF MembershipAgrees
<1> QED
  BY <1>1, ConversationIsSound, PTL

\* What a conversation interrupts is interrupted for good: an agent is
\* in_action exactly while its wait is timed, and only idle agents are
\* reminded, whoever is invited, joins, is called away or logs out meanwhile.
THEOREM TimersAlwaysMatchState == Spec => []TimersMatchState
<1>1. IInv => TimersMatchState
  <2> SUFFICES ASSUME Sound(world, {}), NEW a \in Agents
               PROVE  /\ agents[a].state = "in_action"
                           <=> TimersOf(world, a, {"wait"}) # {}
                      /\ TimersOf(world, a, {"idle_reminder"}) # {}
                           => agents[a].state = "idle"
    BY DEF IInv, TimersMatchState
  <2>1. InState(world, a) /\ OwnTimers(world.timers)
    BY DEF Sound, Shape
  <2>2. TimersOf(world, a, {"wait"}) # {} <=> WT(a) \in world.timers
    BY <2>1, OwnFacts DEF TimersOf, OwnTimers
  <2>3. TimersOf(world, a, {"idle_reminder"}) # {} => IR(a) \in world.timers
    BY <2>1, OwnFacts DEF TimersOf, OwnTimers
  <2> QED
    BY <2>1, <2>2, <2>3, WorldNow DEF InState
<1> QED
  BY <1>1, ConversationIsSound, PTL

\* Where nothing is announced, an invitation is marked at both its agents and
\* no mark outlives it.  With announcements this is false: the one that calls
\* away an agent that invited itself deletes the invitation and leaves the mark.
THEOREM InvitationsAlwaysAgree ==
  ASSUME Announcements = {}
  PROVE  Spec => []InvitationsAgree
<1>1. IInv => InvitationsAgree
  <2> SUFFICES ASSUME Sound(world, {}), NEW a \in Agents, NEW c \in Conversations
               PROVE  agents[a].pending_conversation_id = c
                        <=> /\ conversations[c].status = "pending"
                            /\ a \in Members(conversations[c])
    BY DEF IInv, InvitationsAgree
  <2>1. Marked(world, a) /\ c # None
    BY ConversationAssumption DEF Sound
  <2>2. ASSUME conversations[c].status = "pending", a \in Members(conversations[c])
        PROVE  agents[a].pending_conversation_id = c
    BY <2>2, InvitedAre, WorldNow
  <2> QED
    BY <2>1, <2>2, WorldNow DEF Marked
<1> QED
  BY <1>1, ConversationIsSound, PTL
=============================================================================
