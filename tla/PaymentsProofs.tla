--------------------------- MODULE PaymentsProofs ---------------------------
(* Proofs about what the system owes and pays.  The registry: for every set *)
(* of agents and of tokens, with token 0 in it or not, and any transfers of *)
(* the tokens.  The payment path over it: for any users, prices, durations  *)
(* and scores.  The withdrawals of provider points: for any providers, any  *)
(* concurrent requests and any amounts, with failing calls, failing sends,  *)
(* reverts and crashes.                                                     *)
EXTENDS SubscriptionEconomy, ProviderWithdrawal, DataTheorems, TLAPS

(* An agent is verified only after it has registered: _registerAgent, which *)
(* overwrites its record, therefore never cuts a link.                      *)
VerifiedAreRegistered ==
  \A a \in Agents : agents[a].isVerified => agents[a].registered

RegistryInv ==
  /\ RegistryTypeOK
  /\ VerifiedAreRegistered
  /\ LinksAgree
  /\ ListedOnce

AgentRecords ==
  [registered : BOOLEAN, active : BOOLEAN, agenticId : Tokens \cup {0}, isVerified : BOOLEAN]

(* The empty registry satisfies the invariant.                              *)
LEMMA RegistryInitInv == RegistryInit => RegistryInv
<1> SUFFICES ASSUME RegistryInit PROVE RegistryInv
  OBVIOUS
<1> USE RegistryAssumption DEF RegistryInit, Unregistered
<1>1. RegistryTypeOK
  BY DEF RegistryTypeOK
<1>2. VerifiedAreRegistered /\ LinksAgree /\ ListedOnce
  BY DEF VerifiedAreRegistered, LinksAgree, ListedOnce
<1> QED BY <1>1, <1>2 DEF RegistryInv

(* Appending what is not there keeps a sequence free of repetitions.        *)
LEMMA AppendNew ==
  ASSUME NEW S, NEW list \in Seq(S), NEW x \in S,
         \A i \in DOMAIN list : list[i] # x,
         \A i, j \in DOMAIN list : list[i] = list[j] => i = j
  PROVE  LET more == Append(list, x)
         IN /\ \A i, j \in DOMAIN more : more[i] = more[j] => i = j
            /\ \A y \in S : (\E i \in DOMAIN more : more[i] = y)
                             <=> y = x \/ \E i \in DOMAIN list : list[i] = y
<1> DEFINE more == Append(list, x)
           n == Len(list)
<1>1. /\ DOMAIN list = 1 .. n /\ n \in Nat
      /\ DOMAIN more = 1 .. n + 1
      /\ more[n + 1] = x
      /\ \A i \in 1 .. n : more[i] = list[i]
  OBVIOUS
<1> HIDE DEF more, n
<1>2. ASSUME NEW i \in DOMAIN more, NEW j \in DOMAIN more, more[i] = more[j]
      PROVE  i = j
  <2>1. CASE i \in 1 .. n /\ j \in 1 .. n
    BY <2>1, <1>1, <1>2
  <2>2. CASE i = n + 1 /\ j \in 1 .. n
    BY <2>2, <1>1, <1>2
  <2>3. CASE j = n + 1 /\ i \in 1 .. n
    BY <2>3, <1>1, <1>2
  <2>4. CASE i = n + 1 /\ j = n + 1
    BY <2>4
  <2> QED BY <1>1, <2>1, <2>2, <2>3, <2>4
<1>3. ASSUME NEW y \in S
      PROVE  (\E i \in DOMAIN more : more[i] = y)
               <=> y = x \/ \E i \in DOMAIN list : list[i] = y
  <2>1. ASSUME NEW i \in DOMAIN more, more[i] = y
        PROVE  y = x \/ \E k \in DOMAIN list : list[k] = y
    <3>1. CASE i = n + 1
      BY <3>1, <2>1, <1>1
    <3>2. CASE i \in 1 .. n
      BY <3>2, <2>1, <1>1
    <3> QED BY <3>1, <3>2, <1>1
  <2>2. ASSUME NEW i \in DOMAIN list, list[i] = y
        PROVE  \E k \in DOMAIN more : more[k] = y
    <3>1. i \in DOMAIN more /\ more[i] = y
      BY <2>2, <1>1
    <3> QED BY <3>1
  <2>3. n + 1 \in DOMAIN more
    BY <1>1
  <2> QED BY <2>1, <2>2, <2>3, <1>1
<1> QED BY <1>2, <1>3 DEF more

(* _registerAgent appends an agent that was not in the list.                *)
LEMMA AddAgentListed ==
  ASSUME RegistryInv, NEW a \in Agents, NEW t \in Tokens \cup {0},
         NeverRegistered(a), AddAgent(a, t)
  PROVE  ListedOnce'
<1>1. /\ agentList \in Seq(Agents)
      /\ agents' = [agents EXCEPT ![a] =
            [registered |-> TRUE, active |-> TRUE, agenticId |-> t, isVerified |-> t # 0]]
      /\ agentList' = Append(agentList, a)
  BY DEF RegistryInv, RegistryTypeOK, AddAgent
<1>2. \A b \in Agents : agents'[b].registered <=> b = a \/ agents[b].registered
  BY <1>1 DEF RegistryInv, RegistryTypeOK
<1>3. \A i \in DOMAIN agentList : agentList[i] # a
  BY DEF RegistryInv, ListedOnce, NeverRegistered
<1>4. /\ \A i, j \in DOMAIN agentList : agentList[i] = agentList[j] => i = j
      /\ \A b \in Agents :
           agents[b].registered <=> \E i \in DOMAIN agentList : agentList[i] = b
  BY DEF RegistryInv, ListedOnce
<1>5. /\ \A i, j \in DOMAIN agentList' : agentList'[i] = agentList'[j] => i = j
      /\ \A b \in Agents : (\E i \in DOMAIN agentList' : agentList'[i] = b)
                            <=> b = a \/ \E i \in DOMAIN agentList : agentList[i] = b
  BY <1>1, <1>3, <1>4, AppendNew
<1> QED BY <1>2, <1>4, <1>5 DEF ListedOnce

(* A link to a token that is not taken, or none, disturbs no other link.    *)
LEMMA RegisterVerifiedLinks ==
  ASSUME RegistryInv, NEW a \in Agents, NEW t \in Tokens, RegisterVerifiedAgent(a, t)
  PROVE  LinksAgree'
<1> USE RegistryAssumption
<1>1. /\ agents \in [Agents -> AgentRecords]
      /\ agenticIdToAgent \in [Tokens -> Agents \cup {NoAgent}]
      /\ agents' = [agents EXCEPT ![a] =
            [registered |-> TRUE, active |-> TRUE, agenticId |-> t, isVerified |-> t # 0]]
      /\ agenticIdToAgent' =
            IF t # 0 THEN [agenticIdToAgent EXCEPT ![t] = a] ELSE agenticIdToAgent
  BY DEF RegistryInv, RegistryTypeOK, AgentRecords, RegisterVerifiedAgent, AddAgent
<1>2. agenticIdToAgent[t] = NoAgent /\ ~agents[a].isVerified
  BY DEF RegistryInv, VerifiedAreRegistered, RegisterVerifiedAgent, MayLink, NeverRegistered
<1>3. /\ agents'[a].isVerified <=> t # 0
      /\ agents'[a].agenticId = t
      /\ \A b \in Agents : b # a => agents'[b] = agents[b]
  BY <1>1 DEF AgentRecords
<1>4. ASSUME NEW b \in Agents, agents'[b].isVerified
      PROVE  agenticIdToAgent'[agents'[b].agenticId] = b
  <2>1. CASE b = a
    BY <2>1, <1>1, <1>3, <1>4
  <2>2. CASE b # a
    <3>1. agents[b].isVerified /\ agenticIdToAgent[agents[b].agenticId] = b
      BY <2>2, <1>3, <1>4 DEF RegistryInv, LinksAgree
    <3>2. agents[b].agenticId # t
      BY <3>1, <1>2
    <3> QED BY <2>2, <3>1, <3>2, <1>1, <1>3
  <2> QED BY <2>1, <2>2
<1>5. ASSUME NEW u \in Tokens, agenticIdToAgent'[u] # NoAgent
      PROVE  /\ agents'[agenticIdToAgent'[u]].isVerified
             /\ agents'[agenticIdToAgent'[u]].agenticId = u
  <2>1. CASE u = t
    <3>1. t # 0 /\ agenticIdToAgent'[u] = a
      BY <2>1, <1>1, <1>2, <1>5
    <3> QED BY <3>1, <2>1, <1>3
  <2>2. CASE u # t
    <3>1. agenticIdToAgent'[u] = agenticIdToAgent[u] /\ agenticIdToAgent[u] \in Agents
      BY <2>2, <1>1, <1>5
    <3>2. agents[agenticIdToAgent[u]].isVerified /\ agents[agenticIdToAgent[u]].agenticId = u
      BY <3>1, <1>5 DEF RegistryInv, LinksAgree
    <3>3. agenticIdToAgent[u] # a
      BY <3>2, <1>2
    <3> QED BY <3>1, <3>2, <3>3, <1>3
  <2> QED BY <2>1, <2>2
<1> QED BY <1>4, <1>5 DEF LinksAgree

(* Every function of the contract and every transfer preserves it.          *)
LEMMA RegistryNextInv == RegistryInv /\ [RegistryNext]_registryVars => RegistryInv'
<1> SUFFICES ASSUME RegistryInv, [RegistryNext]_registryVars PROVE RegistryInv'
  OBVIOUS
<1> USE RegistryAssumption DEF RegistryInv
<1>1. ASSUME NEW a \in Agents, RegisterAgent(a) PROVE RegistryInv'
  <2> USE <1>1 DEF RegisterAgent
  <2>1. RegistryTypeOK' /\ VerifiedAreRegistered'
    BY DEF RegistryTypeOK, VerifiedAreRegistered, AddAgent
  <2>2. LinksAgree'
    BY DEF RegistryTypeOK, VerifiedAreRegistered, LinksAgree, NeverRegistered, AddAgent
  <2>3. ListedOnce'
    BY AddAgentListed
  <2> QED BY <2>1, <2>2, <2>3
<1>2. ASSUME NEW a \in Agents, NEW t \in Tokens, RegisterVerifiedAgent(a, t)
      PROVE  RegistryInv'
  <2> USE <1>2 DEF RegisterVerifiedAgent
  <2>1. RegistryTypeOK' /\ VerifiedAreRegistered'
    BY DEF RegistryTypeOK, VerifiedAreRegistered, AddAgent
  <2>2. LinksAgree'
    BY RegisterVerifiedLinks
  <2>3. ListedOnce'
    BY AddAgentListed
  <2> QED BY <2>1, <2>2, <2>3
<1>3. ASSUME NEW a \in Agents, NEW t \in Tokens, LinkAgenticId(a, t)
      PROVE  RegistryInv'
  <2> USE <1>3 DEF LinkAgenticId
  <2>1. RegistryTypeOK' /\ VerifiedAreRegistered'
    BY DEF RegistryTypeOK, VerifiedAreRegistered
  <2>2. LinksAgree'
    BY DEF RegistryTypeOK, LinksAgree, MayLink
  <2>3. ListedOnce'
    BY DEF RegistryTypeOK, ListedOnce
  <2> QED BY <2>1, <2>2, <2>3
<1>4. ASSUME NEW a \in Agents, DeregisterAgent(a) PROVE RegistryInv'
  <2> USE <1>4 DEF DeregisterAgent
  <2>1. RegistryTypeOK' /\ VerifiedAreRegistered'
    BY DEF RegistryTypeOK, VerifiedAreRegistered
  <2>2. LinksAgree' /\ ListedOnce'
    BY DEF RegistryTypeOK, LinksAgree, ListedOnce
  <2> QED BY <2>1, <2>2
<1>5. CASE SetAgenticIdContract
  BY <1>5 DEF SetAgenticIdContract, RegistryTypeOK, VerifiedAreRegistered, LinksAgree,
     ListedOnce
<1>6. ASSUME NEW t \in Tokens, TransferToken(t) PROVE RegistryInv'
  BY <1>6 DEF TransferToken, RegistryTypeOK, VerifiedAreRegistered, LinksAgree, ListedOnce
<1>7. CASE UNCHANGED registryVars
  BY <1>7 DEF registryVars, RegistryTypeOK, VerifiedAreRegistered, LinksAgree, ListedOnce
<1> QED BY <1>1, <1>2, <1>3, <1>4, <1>5, <1>6, <1>7 DEF RegistryNext

(* Every variable of the registry keeps its type.                           *)
THEOREM RegistryTypeCorrect == RegistrySpec => []RegistryTypeOK
<1>1. RegistrySpec => []RegistryInv
  BY RegistryInitInv, RegistryNextInv, PTL DEF RegistrySpec
<1>2. RegistryInv => RegistryTypeOK
  BY DEF RegistryInv
<1> QED BY <1>1, <1>2, PTL

(* registerVerifiedAgent and linkAgenticId keep both directions of the link *)
(* in agreement, for any number of agents and tokens and any transfers.     *)
THEOREM RegistryLinksAgree == RegistrySpec => []LinksAgree
<1>1. RegistrySpec => []RegistryInv
  BY RegistryInitInv, RegistryNextInv, PTL DEF RegistrySpec
<1>2. RegistryInv => LinksAgree
  BY DEF RegistryInv
<1> QED BY <1>1, <1>2, PTL

(* agentList names every registered agent once and nobody else.             *)
THEOREM RegistryListedOnce == RegistrySpec => []ListedOnce
<1>1. RegistrySpec => []RegistryInv
  BY RegistryInitInv, RegistryNextInv, PTL DEF RegistrySpec
<1>2. RegistryInv => ListedOnce
  BY DEF RegistryInv
<1> QED BY <1>1, <1>2, PTL

----------------------------------------------------------------------------
(* Walking the registry's lists page by page *)

(* FlattenSeq of n sequences, all its prefixes at once.                     *)
Flat(f, seqs, n) ==
  f = [i \in 1 .. n |-> IF i = 1 THEN seqs[i] ELSE f[i - 1] \o seqs[i]]

LEMMA FlattenIsFlat ==
  ASSUME NEW seqs, Len(seqs) # 0
  PROVE  FlattenSeq(seqs) = (CHOOSE f : Flat(f, seqs, Len(seqs)))[Len(seqs)]
  BY Zenon DEF FlattenSeq, Flat

LEMMA FlatAt ==
  ASSUME NEW f, NEW seqs, NEW n \in Nat, Flat(f, seqs, n), NEW i \in 1 .. n
  PROVE  f[i] = IF i = 1 THEN seqs[i] ELSE f[i - 1] \o seqs[i]
  BY Zenon DEF Flat

LEMMA FlatAgree ==
  ASSUME NEW f, NEW g, NEW seqs, NEW n \in Nat, Flat(f, seqs, n), Flat(g, seqs, n)
  PROVE  \A i \in 1 .. n : f[i] = g[i]
<1> DEFINE C == {i \in Nat : i \in 1 .. n => f[i] = g[i]}
<1>1. 0 \in C
  OBVIOUS
<1>2. ASSUME NEW i \in Nat, i \in C PROVE i + 1 \in C
  <2> SUFFICES ASSUME i + 1 \in 1 .. n PROVE f[i + 1] = g[i + 1]
    OBVIOUS
  <2>1. PICK k : k = i + 1
    OBVIOUS
  <2>2. k \in 1 .. n /\ k - 1 = i /\ (k # 1 => f[i] = g[i])
    BY <1>2, <2>1
  <2>3. f[k] = IF k = 1 THEN seqs[k] ELSE f[k - 1] \o seqs[k]
    BY <2>2, FlatAt
  <2>4. g[k] = IF k = 1 THEN seqs[k] ELSE g[k - 1] \o seqs[k]
    BY <2>2, FlatAt
  <2> QED BY <2>1, <2>2, <2>3, <2>4
<1>3. \A i \in Nat : i \in C
  <2> HIDE DEF C
  <2> QED BY <1>1, <1>2, NumberInduction
<1> QED BY <1>3

LEMMA FlattenLast ==
  ASSUME NEW seqs, NEW n \in Nat \ {0}, Len(seqs) = n, NEW f, Flat(f, seqs, n)
  PROVE  FlattenSeq(seqs) = f[n]
<1>1. PICK g : g = CHOOSE h : Flat(h, seqs, n)
  OBVIOUS
<1>2. Flat(g, seqs, n)
  BY <1>1, Zenon
<1>3. FlattenSeq(seqs) = g[n]
  BY <1>1, FlattenIsFlat
<1>4. n \in 1 .. n
  OBVIOUS
<1> QED BY <1>2, <1>3, <1>4, FlatAgree

(* Pages of a positive size, one after the other, are the list.             *)
LEMMA PagesAreTheList ==
  ASSUME NEW S, NEW list \in Seq(S), NEW n \in Nat \ {0}, Len(list) <= n,
         NEW limit \in Nat \ {0}
  PROVE  FlattenSeq([i \in 1 .. n |-> Page(list, (i - 1) * limit, limit)]) = list
<1>1. PICK len : len = Len(list)
  OBVIOUS
<1>2. len \in Nat /\ len <= n
  BY <1>1, LenProperties
<1>3. PICK pages : pages = [i \in 1 .. n |-> Page(list, (i - 1) * limit, limit)]
  OBVIOUS
<1>4. PICK end : end = [k \in 0 .. n |-> IF k * limit > len THEN len ELSE k * limit]
  OBVIOUS
<1>5. PICK walked : walked = [i \in 1 .. n |-> SubSeq(list, 1, end[i])]
  OBVIOUS
<1>6. ASSUME NEW i \in 1 .. n, NEW j \in 0 .. n, j = i - 1
      PROVE  end[i] \in 0 .. len /\ end[j] \in 0 .. len /\ end[j] <= end[i]
             /\ pages[i] = SubSeq(list, end[j] + 1, end[i])
  <2>1. PICK lo, hi : lo = j * limit /\ hi = i * limit
    OBVIOUS
  <2>2. lo \in Nat /\ hi = lo + limit /\ hi \in Nat
    <3>1. i = j + 1 /\ j \in Nat
      BY <1>6
    <3>2. (j + 1) * limit = j * limit + limit /\ j * limit \in Nat
      BY <3>1
    <3> QED BY <2>1, <3>1, <3>2
  <2>3. pages[i] = Page(list, lo, limit)
    BY <1>3, <1>6, <2>1
  <2>4. /\ end[i] = IF hi > len THEN len ELSE hi
        /\ end[j] = IF lo > len THEN len ELSE lo
    BY <1>4, <2>1
  <2>5. end[i] \in 0 .. len /\ end[j] \in 0 .. len /\ end[j] <= end[i]
    BY <1>2, <2>2, <2>4
  <2>6. CASE lo >= len
    <3>1. pages[i] = <<>>
      BY <1>1, <2>3, <2>6 DEF Page
    <3>2. end[j] = len /\ end[i] = len
      BY <1>2, <2>2, <2>4, <2>6
    <3>3. SubSeq(list, len + 1, len) = <<>>
      BY <1>2, SubSeqEmpty
    <3> QED BY <2>5, <3>1, <3>2, <3>3
  <2>7. CASE ~(lo >= len)
    <3>1. end[j] = lo
      BY <1>2, <2>2, <2>4, <2>7
    <3>2. pages[i] = SubSeq(list, lo + 1, IF lo + limit > len THEN len ELSE lo + limit)
      BY <1>1, <2>3, <2>7 DEF Page, PageFrom
    <3> QED BY <2>2, <2>4, <2>5, <3>1, <3>2
  <2> QED BY <2>6, <2>7
<1>7. end[0] = 0 /\ end[n] = len
  <2>1. PICK total : total = n * limit
    OBVIOUS
  <2>2. total >= n /\ total \in Nat
    BY <2>1
  <2>3. 0 * limit = 0
    OBVIOUS
  <2> QED BY <1>2, <1>4, <2>1, <2>2, <2>3
<1>8. ASSUME NEW i \in 1 .. n
      PROVE  walked[i] = IF i = 1 THEN pages[i] ELSE walked[i - 1] \o pages[i]
  <2>1. PICK j : j = i - 1
    OBVIOUS
  <2>2. j \in 0 .. n
    BY <2>1
  <2>3. PICK a, b : a = end[j] /\ b = end[i]
    OBVIOUS
  <2>4. a \in 0 .. len /\ b \in 0 .. len /\ a <= b /\ pages[i] = SubSeq(list, a + 1, b)
    BY <1>6, <2>1, <2>2, <2>3
  <2>5. walked[i] = SubSeq(list, 1, b)
    BY <1>5, <2>3
  <2>6. CASE i = 1
    <3>1. a = 0
      BY <1>7, <2>1, <2>3, <2>6
    <3>2. a + 1 = 1
      BY <3>1
    <3> QED BY <2>4, <2>5, <2>6, <3>2
  <2>7. CASE i # 1
    <3>1. j \in 1 .. n
      BY <2>1, <2>7
    <3>2. SubSeq(list, 1, a) \o SubSeq(list, a + 1, b) = SubSeq(list, 1, b)
      <4>1. 1 \in 1 .. len + 1 /\ a \in 1 - 1 .. len /\ b \in a .. len
        BY <1>2, <2>4
      <4> QED BY <1>1, <4>1, ConcatAdjacentSubSeq
    <3>3. walked[j] = SubSeq(list, 1, a)
      BY <1>5, <2>3, <3>1
    <3> QED BY <2>1, <2>4, <2>5, <2>7, <3>2, <3>3
  <2> QED BY <2>6, <2>7
<1>9. Flat(walked, pages, n)
  <2>1. walked = [i \in 1 .. n |-> IF i = 1 THEN pages[i] ELSE walked[i - 1] \o pages[i]]
    BY <1>5, <1>8, Zenon
  <2> QED BY <2>1, Zenon DEF Flat
<1>10. Len(pages) = n
  BY <1>3
<1>11. walked[n] = list
  <2>1. n \in 1 .. n
    OBVIOUS
  <2>2. walked[n] = SubSeq(list, 1, len)
    BY <1>5, <1>7, <2>1
  <2> QED BY <1>1, <2>2, SubSeqFull
<1>12. FlattenSeq(pages) = walked[n]
  BY <1>9, <1>10, FlattenLast
<1> QED BY <1>3, <1>11, <1>12

(* Neither list of the registry is cut short or repeated by the pages in    *)
(* which it is served, for any page size.                                   *)
THEOREM RegistryPagesCoverLists == RegistrySpec => []PagesCoverLists
<1>1. ASSUME RegistryInv, NEW limit \in Steps
      PROVE  /\ FlattenSeq([i \in Steps |-> GetAgents((i - 1) * limit, limit)]) = agentList
             /\ FlattenSeq([i \in Steps |-> GetVerifiedAgents((i - 1) * limit, limit)])
                  = VerifiedAgents
  <2>1. agentList \in Seq(Agents)
    BY <1>1 DEF RegistryInv, RegistryTypeOK
  <2>2. PICK verified, n : verified = VerifiedAgents /\ n = Len(agentList) + 1
    OBVIOUS
  <2>3. /\ verified \in Seq(Agents) /\ Len(verified) <= Len(agentList)
        /\ Len(agentList) \in Nat /\ Len(verified) \in Nat
    BY <2>1, <2>2, KeepType, LenProperties DEF VerifiedAgents
  <2>4. /\ n \in Nat \ {0} /\ Len(agentList) <= n /\ Len(verified) <= n
        /\ limit \in Nat \ {0} /\ Steps = 1 .. n
    BY <2>2, <2>3 DEF Steps
  <2>5. FlattenSeq([i \in 1 .. n |-> Page(agentList, (i - 1) * limit, limit)]) = agentList
    BY <2>1, <2>4, PagesAreTheList
  <2>6. FlattenSeq([i \in 1 .. n |-> Page(verified, (i - 1) * limit, limit)]) = verified
    BY <2>3, <2>4, PagesAreTheList
  <2> QED BY <2>2, <2>4, <2>5, <2>6 DEF GetAgents, GetVerifiedAgents
<1>2. RegistryInv => PagesCoverLists
  BY <1>1 DEF PagesCoverLists
<1>3. RegistrySpec => []RegistryInv
  BY RegistryInitInv, RegistryNextInv, PTL DEF RegistrySpec
<1> QED BY <1>2, <1>3, PTL

----------------------------------------------------------------------------
(* The payment path *)

(* A user who has paid has access for what was bought, counted from the     *)
(* first payment, and a user who has not has bought nothing.  A duration of *)
(* 0 makes the difference between having paid and having bought something.  *)
AccessCounted ==
  \A u \in Users, n \in Agents :
    IF firstPaid[u][n] = 0 THEN bought[u][n] = 0
    ELSE endTime[u][n] >= firstPaid[u][n] + bought[u][n]

EconomyTypes ==
  /\ now \in Nat \ {0} /\ duration \in Durations
  /\ scores \in [Agents -> [score : Scores \cup {0}, tier : Tiers]]
  /\ endTime \in Amounts /\ firstPaid \in Amounts /\ bought \in Amounts

EconomyInv == RegistryInv /\ EconomyTypes /\ AccessCounted /\ TierNotInflated

(* Nobody has paid, and nobody has a score.                                 *)
LEMMA EconomyInitInv == Init => EconomyInv
<1> SUFFICES ASSUME Init PROVE EconomyInv
  OBVIOUS
<1> USE EconomyAssumption
<1>1. RegistryInv
  BY RegistryInitInv DEF Init
<1>2. EconomyTypes
  BY DEF Init, EconomyTypes, Tiers, Amounts
<1>3. AccessCounted
  BY DEF Init, AccessCounted
<1>4. TierNotInflated
  BY DEF Init, TierNotInflated, OracleTier
<1> QED BY <1>1, <1>2, <1>3, <1>4 DEF EconomyInv

(* A pushed score brings its tier: the scorer's thresholds lie above the    *)
(* oracle's.                                                                *)
LEMMA UpdateScoreInv ==
  ASSUME EconomyInv, NEW n \in Agents, UpdateScore(n) PROVE EconomyInv'
<1>1. PICK s \in Scores :
        scores' = [scores EXCEPT ![n] = [score |-> s, tier |-> TierFromScore(s)]]
  BY DEF UpdateScore
<1>2. TierFromScore(s) \in Tiers /\ TierFromScore(s) <= OracleTier(s)
  <2>1. s \in 0 .. 10000
    BY EconomyAssumption
  <2> QED BY <2>1 DEF TierFromScore, OracleTier, Tiers
<1>3. EconomyTypes'
  BY <1>1, <1>2 DEF UpdateScore, managerVars, historyVars, EconomyInv, EconomyTypes
<1>4. ASSUME NEW a \in Agents
      PROVE  scores'[a].tier <= OracleTier(scores'[a].score)
  <2>1. CASE a = n
    BY <1>1, <1>2, <2>1 DEF EconomyInv, EconomyTypes
  <2>2. CASE a # n
    BY <1>1, <2>2 DEF EconomyInv, EconomyTypes, TierNotInflated
  <2> QED BY <2>1, <2>2
<1>5. RegistryInv' /\ AccessCounted'
  BY DEF UpdateScore, registryVars, managerVars, historyVars, EconomyInv, RegistryInv,
     RegistryTypeOK, VerifiedAreRegistered, LinksAgree, ListedOnce, AccessCounted
<1> QED BY <1>3, <1>4, <1>5 DEF EconomyInv, TierNotInflated

(* A payment before the end adds to the period, one after it starts anew.   *)
LEMMA SubscribeInv ==
  ASSUME EconomyInv, NEW u \in Users, NEW n \in Agents, Subscribe(u, n)
  PROVE  EconomyInv'
<1>1. /\ now \in Nat \ {0} /\ now' = now /\ duration \in Nat /\ duration' = duration
      /\ endTime \in Amounts /\ firstPaid \in Amounts /\ bought \in Amounts
  BY EconomyAssumption DEF EconomyInv, EconomyTypes, Subscribe
<1> DEFINE newEnd == ExtendedEnd(u, n)
           newFirst == IF firstPaid[u][n] = 0 THEN now ELSE firstPaid[u][n]
           newSum == bought[u][n] + duration
<1>2. /\ endTime' = [endTime EXCEPT ![u][n] = newEnd]
      /\ firstPaid' = [firstPaid EXCEPT ![u][n] = newFirst]
      /\ bought' = [bought EXCEPT ![u][n] = newSum]
  BY DEF Subscribe
<1>3. endTime[u][n] \in Nat /\ firstPaid[u][n] \in Nat /\ bought[u][n] \in Nat
  BY <1>1 DEF Amounts
<1>4. /\ newEnd \in Nat /\ newFirst \in Nat \ {0} /\ newSum \in Nat
      /\ newEnd >= now + duration
      /\ newEnd >= endTime[u][n] + duration
  <2>1. newFirst \in Nat \ {0} /\ newSum \in Nat
    <3>1. now \in Nat \ {0} /\ duration \in Nat
      BY <1>1
    <3>2. newSum \in Nat
      BY <1>3, <3>1
    <3>3. newFirst \in Nat \ {0}
      BY <1>3, <3>1
    <3> QED BY <3>2, <3>3
  <2>2. CASE endTime[u][n] > now
    <3>1. newEnd = endTime[u][n] + duration
      BY <2>2 DEF ExtendedEnd
    <3> QED BY <1>1, <1>3, <2>1, <2>2, <3>1
  <2>3. CASE ~(endTime[u][n] > now)
    <3>1. newEnd = now + duration
      BY <2>3 DEF ExtendedEnd
    <3> QED BY <1>1, <1>3, <2>1, <2>3, <3>1
  <2> QED BY <2>2, <2>3
<1>5. IF firstPaid[u][n] = 0 THEN bought[u][n] = 0
      ELSE endTime[u][n] >= firstPaid[u][n] + bought[u][n]
  BY DEF EconomyInv, AccessCounted
<1>6. newEnd >= newFirst + newSum
  <2>1. CASE firstPaid[u][n] = 0
    <3>1. newFirst = now /\ newSum = duration
      BY <1>1, <1>5, <2>1
    <3> QED BY <1>1, <1>4, <3>1
  <2>2. CASE firstPaid[u][n] # 0
    <3>1. newFirst = firstPaid[u][n] /\ endTime[u][n] >= newFirst + bought[u][n]
      BY <1>5, <2>2
    <3> QED BY <1>1, <1>3, <1>4, <3>1
  <2> QED BY <2>1, <2>2
<1> HIDE DEF newEnd, newFirst, newSum
<1>7. /\ endTime' \in Amounts /\ firstPaid' \in Amounts /\ bought' \in Amounts
      /\ endTime'[u][n] = newEnd /\ firstPaid'[u][n] = newFirst /\ bought'[u][n] = newSum
      /\ \A v \in Users, a \in Agents : ~(v = u /\ a = n) =>
           /\ endTime'[v][a] = endTime[v][a] /\ firstPaid'[v][a] = firstPaid[v][a]
           /\ bought'[v][a] = bought[v][a]
  <2>1. /\ endTime' \in Amounts /\ endTime'[u][n] = newEnd
        /\ \A v \in Users, a \in Agents : ~(v = u /\ a = n) => endTime'[v][a] = endTime[v][a]
    BY <1>1, <1>2, <1>4 DEF Amounts
  <2>2. /\ firstPaid' \in Amounts /\ firstPaid'[u][n] = newFirst
        /\ \A v \in Users, a \in Agents : ~(v = u /\ a = n) => firstPaid'[v][a] = firstPaid[v][a]
    BY <1>1, <1>2, <1>4 DEF Amounts
  <2>3. /\ bought' \in Amounts /\ bought'[u][n] = newSum
        /\ \A v \in Users, a \in Agents : ~(v = u /\ a = n) => bought'[v][a] = bought[v][a]
    BY <1>1, <1>2, <1>4 DEF Amounts
  <2> QED BY <2>1, <2>2, <2>3
<1>8. EconomyTypes'
  BY <1>1, <1>7 DEF Subscribe, oracleVars, EconomyInv, EconomyTypes
<1>9. AccessCounted'
  <2> SUFFICES ASSUME NEW v \in Users, NEW a \in Agents
               PROVE  IF firstPaid'[v][a] = 0 THEN bought'[v][a] = 0
                      ELSE endTime'[v][a] >= firstPaid'[v][a] + bought'[v][a]
    BY DEF AccessCounted
  <2>1. CASE v = u /\ a = n
    BY <1>4, <1>6, <1>7, <2>1
  <2>2. CASE ~(v = u /\ a = n)
    BY <1>7, <2>2 DEF EconomyInv, AccessCounted
  <2> QED BY <2>1, <2>2
<1>10. RegistryInv' /\ TierNotInflated'
  BY DEF Subscribe, registryVars, oracleVars, EconomyInv, RegistryInv, RegistryTypeOK,
     VerifiedAreRegistered, LinksAgree, ListedOnce, TierNotInflated
<1> QED BY <1>8, <1>9, <1>10 DEF EconomyInv

(* Every transaction preserves it.                                          *)
LEMMA EconomyNextInv == EconomyInv /\ [Next]_vars => EconomyInv'
<1> SUFFICES ASSUME EconomyInv, [Next]_vars PROVE EconomyInv'
  OBVIOUS
<1> USE EconomyAssumption
<1>1. ASSUME [RegistryNext]_registryVars,
             UNCHANGED <<now, oracleVars, managerVars, historyVars>>
      PROVE  EconomyInv'
  <2>1. RegistryInv'
    BY <1>1, RegistryNextInv DEF EconomyInv
  <2>2. EconomyTypes' /\ AccessCounted' /\ TierNotInflated'
    BY <1>1 DEF oracleVars, managerVars, historyVars, EconomyInv, EconomyTypes,
       AccessCounted, TierNotInflated
  <2> QED BY <2>1, <2>2 DEF EconomyInv
<1>2. ASSUME UNCHANGED <<registryVars, oracleVars, endTime, firstPaid, bought>>,
             now' \in Nat \ {0}, duration' \in Durations
      PROVE  EconomyInv'
  <2>1. RegistryInv'
    BY <1>2, RegistryNextInv DEF EconomyInv
  <2>2. EconomyTypes' /\ AccessCounted' /\ TierNotInflated'
    BY <1>2 DEF oracleVars, EconomyInv, EconomyTypes, AccessCounted, TierNotInflated
  <2> QED BY <2>1, <2>2 DEF EconomyInv
<1>3. CASE RegistryStep
  <2>1. RegistryNext
    BY <1>3 DEF RegistryStep, RegistryNext
  <2>2. UNCHANGED <<now, oracleVars, managerVars, historyVars>>
    BY <1>3 DEF RegistryStep
  <2> QED BY <1>1, <2>1, <2>2
<1>4. ASSUME NEW n \in Agents, UpdateScore(n) PROVE EconomyInv'
  BY <1>4, UpdateScoreInv
<1>5. ASSUME NEW u \in Users, NEW n \in Agents, Subscribe(u, n) PROVE EconomyInv'
  BY <1>5, SubscribeInv
<1>6. CASE \/ \E n \in Agents : Withdraw(n)
           \/ \E t \in Tiers : SetTierPrice(t) \/ SetCreatorFeeBps(t)
           \/ SetSubscriptionDuration
           \/ TimePasses
  <2>1. UNCHANGED <<registryVars, oracleVars, endTime, firstPaid, bought>>
    BY <1>6 DEF Withdraw, SetTierPrice, SetCreatorFeeBps, SetSubscriptionDuration,
       TimePasses, managerVars, historyVars
  <2>2. now \in Nat \ {0} /\ duration \in Durations
    BY DEF EconomyInv, EconomyTypes
  <2>3. now' \in Nat \ {0} /\ duration' \in Durations
    <3>1. CASE TimePasses
      BY <2>2, <3>1 DEF TimePasses, managerVars
    <3>2. CASE SetSubscriptionDuration
      BY <2>2, <3>2 DEF SetSubscriptionDuration
    <3>3. CASE \/ \E n \in Agents : Withdraw(n)
               \/ \E t \in Tiers : SetTierPrice(t) \/ SetCreatorFeeBps(t)
      <4>1. now' = now /\ duration' = duration
        <5>1. ASSUME NEW n \in Agents, Withdraw(n) PROVE now' = now /\ duration' = duration
          BY <5>1 DEF Withdraw, managerVars
        <5>2. ASSUME NEW t \in Tiers, SetTierPrice(t) PROVE now' = now /\ duration' = duration
          BY <5>2 DEF SetTierPrice
        <5>3. ASSUME NEW t \in Tiers, SetCreatorFeeBps(t)
              PROVE  now' = now /\ duration' = duration
          BY <5>3 DEF SetCreatorFeeBps, managerVars
        <5> QED BY <3>3, <5>1, <5>2, <5>3
      <4> QED BY <2>2, <4>1
    <3> QED BY <1>6, <3>1, <3>2, <3>3
  <2> QED BY <1>2, <2>1, <2>3
<1>7. CASE UNCHANGED vars
  BY <1>1, <1>7 DEF vars
<1> QED BY <1>3, <1>4, <1>5, <1>6, <1>7 DEF Next

(* Renewals, changes of the duration and the passing of time never take     *)
(* from a subscriber a second that was paid for (SubscriptionManager.sol).  *)
THEOREM EconomyAccessCoversPayments == Spec => []AccessCoversPayments
<1>1. Spec => []EconomyInv
  BY EconomyInitInv, EconomyNextInv, PTL DEF Spec
<1>2. EconomyInv => AccessCoversPayments
  <2> SUFFICES ASSUME EconomyInv, NEW u \in Users, NEW n \in Agents, bought[u][n] > 0
               PROVE  endTime[u][n] >= firstPaid[u][n] + bought[u][n]
    BY DEF AccessCoversPayments
  <2> QED BY DEF EconomyInv, AccessCounted
<1> QED BY <1>1, <1>2, PTL

(* No score the scorer pushes is charged at a tier above the oracle's.      *)
THEOREM EconomyTierNotInflated == Spec => []TierNotInflated
<1>1. Spec => []EconomyInv
  BY EconomyInitInv, EconomyNextInv, PTL DEF Spec
<1>2. EconomyInv => TierNotInflated
  BY DEF EconomyInv
<1> QED BY <1>1, <1>2, PTL

(* The router's books: every amount is a natural number and what the router *)
(* holds is what it owes.                                                   *)
RouterInv ==
  /\ tierPrices \in [Tiers -> Nat]
  /\ creatorFeeBps \in [Tiers -> BasisPoints]
  /\ pending \in [Agents -> Nat]
  /\ payments \in 0 .. MaxPayments /\ changes \in 0 .. MaxChanges
  /\ RouterSolvent

(* Nobody has paid yet, and nothing is owed.                                *)
LEMMA RouterInitInv == Init => RouterInv
<1> SUFFICES ASSUME Init PROVE RouterInv
  OBVIOUS
<1>1. tierPrices \in [Tiers -> Nat] /\ creatorFeeBps \in [Tiers -> BasisPoints]
  BY DEF Init, Tiers, InitialPrices, InitialFeeBps, BasisPoints
<1>2. /\ pending \in [Agents -> Nat] /\ \A a \in Agents : pending[a] = 0
      /\ routerBalance = 0 /\ payments = 0 /\ changes = 0
  BY DEF Init
<1>3. SumFunctionOnSet(pending, Agents) = 0
  BY <1>2, EconomyAssumption, SumZero
<1>4. payments \in 0 .. MaxPayments /\ changes \in 0 .. MaxChanges
  BY <1>2, EconomyAssumption
<1> QED BY <1>1, <1>2, <1>3, <1>4 DEF RouterInv, RouterSolvent

(* The creator's share of a payment is a natural number.                    *)
LEMMA CreatorAmountType ==
  ASSUME NEW value \in Nat, NEW bps \in BasisPoints
  PROVE  CreatorAmount(value, bps) \in Nat
<1>1. PICK product : product = value * bps
  OBVIOUS
<1>2. product \in Nat
  BY <1>1 DEF BasisPoints
<1>3. product \div 10000 \in Nat
  BY <1>2
<1> QED BY <1>1, <1>3 DEF CreatorAmount

(* One creator's account changes by as much as the router's balance.        *)
LEMMA RouterBooks ==
  ASSUME RouterInv, NEW n \in Agents, NEW amount \in Nat,
         pending' = [pending EXCEPT ![n] = amount],
         routerBalance' = routerBalance + amount - pending[n]
  PROVE  pending' \in [Agents -> Nat] /\ RouterSolvent'
<1>1. PICK f, g : f = pending /\ g = pending'
  OBVIOUS
<1>2. f \in [Agents -> Nat] /\ g = [f EXCEPT ![n] = amount]
  BY <1>1 DEF RouterInv
<1>3. /\ \A a \in Agents : f[a] \in Nat /\ g[a] \in Nat
      /\ \A a \in Agents \ {n} : f[a] = g[a]
      /\ g[n] = amount
  BY <1>2
<1>4. IsFiniteSet(Agents)
  BY EconomyAssumption
<1>5. PICK owed, after :
        owed = SumFunctionOnSet(f, Agents) /\ after = SumFunctionOnSet(g, Agents)
  OBVIOUS
<1>6. after + f[n] = owed + amount
  BY <1>3, <1>4, <1>5, SumOneChanged
<1>7. owed \in Nat /\ after \in Nat
  BY <1>3, <1>4, <1>5, SumType
<1>8. routerBalance = owed /\ routerBalance' = routerBalance + amount - f[n]
  BY <1>1, <1>5 DEF RouterInv, RouterSolvent
<1>9. routerBalance' = after
  BY <1>3, <1>6, <1>7, <1>8
<1>10. pending' \in [Agents -> Nat]
  BY DEF RouterInv
<1> QED BY <1>1, <1>5, <1>9, <1>10 DEF RouterSolvent

(* The router's balance is the sum of natural numbers.                      *)
LEMMA RouterBalanceType ==
  ASSUME RouterInv PROVE routerBalance \in Nat /\ \A n \in Agents : pending[n] \in Nat
<1>1. IsFiniteSet(Agents)
  BY EconomyAssumption
<1>2. \A n \in Agents : pending[n] \in Nat
  BY DEF RouterInv
<1> QED BY <1>1, <1>2, SumType DEF RouterInv, RouterSolvent

(* Every transaction preserves the router's books.                          *)
LEMMA RouterNextInv == EconomyInv /\ RouterInv /\ [Next]_vars => RouterInv'
<1> SUFFICES ASSUME EconomyInv, RouterInv, [Next]_vars PROVE RouterInv'
  OBVIOUS
<1>1. ASSUME NEW u \in Users, NEW n \in Agents, Subscribe(u, n) PROVE RouterInv'
  <2>1. PICK price, bps :
          /\ price = tierPrices[scores[n].tier] /\ bps = creatorFeeBps[scores[n].tier]
    OBVIOUS
  <2>2. PICK share : share = CreatorAmount(price, bps)
    OBVIOUS
  <2>3. price \in Nat /\ bps \in BasisPoints
    <3>1. scores[n].tier \in Tiers
      BY DEF EconomyInv, EconomyTypes
    <3>2. tierPrices \in [Tiers -> Nat] /\ creatorFeeBps \in [Tiers -> BasisPoints]
      BY DEF RouterInv
    <3>3. tierPrices[scores[n].tier] \in Nat
      BY <3>1, <3>2, Zenon
    <3>4. creatorFeeBps[scores[n].tier] \in BasisPoints
      BY <3>1, <3>2, Zenon
    <3> QED BY <2>1, <3>3, <3>4, Zenon
  <2>4. share \in Nat
    BY <2>2, <2>3, CreatorAmountType, Zenon
  <2>5. /\ pending' = [pending EXCEPT ![n] = @ + share]
        /\ routerBalance' = routerBalance + price - (price - share)
        /\ payments < MaxPayments /\ payments' = payments + 1
        /\ UNCHANGED <<tierPrices, creatorFeeBps, changes>>
    BY <1>1, <2>1, <2>2 DEF Subscribe, PlatformAmount
  <2>6. pending[n] \in Nat /\ routerBalance \in Nat
    BY RouterBalanceType
  <2>7. PICK amount : amount = pending[n] + share
    OBVIOUS
  <2>8. /\ amount \in Nat /\ pending' = [pending EXCEPT ![n] = amount]
        /\ routerBalance' = routerBalance + amount - pending[n]
    BY <2>3, <2>4, <2>5, <2>6, <2>7
  <2>9. pending' \in [Agents -> Nat] /\ RouterSolvent'
    BY <2>8, RouterBooks
  <2>10. payments' \in 0 .. MaxPayments
    BY <2>5, EconomyAssumption DEF RouterInv
  <2> QED BY <2>5, <2>9, <2>10 DEF RouterInv
<1>2. ASSUME NEW n \in Agents, Withdraw(n) PROVE RouterInv'
  <2>1. /\ pending' = [pending EXCEPT ![n] = 0]
        /\ routerBalance' = routerBalance - pending[n]
        /\ UNCHANGED <<tierPrices, creatorFeeBps, payments, changes>>
    BY <1>2 DEF Withdraw, Cleared, managerVars, historyVars
  <2>2. pending[n] \in Nat /\ routerBalance \in Nat
    BY RouterBalanceType
  <2>3. routerBalance' = routerBalance + 0 - pending[n]
    BY <2>1, <2>2
  <2>4. pending' \in [Agents -> Nat] /\ RouterSolvent'
    BY <2>1, <2>3, RouterBooks
  <2> QED BY <2>1, <2>4 DEF RouterInv
<1>3. ASSUME UNCHANGED routerVars, UNCHANGED payments, changes' \in 0 .. MaxChanges,
             tierPrices' \in [Tiers -> Nat]
      PROVE  RouterInv'
  BY <1>3 DEF routerVars, RouterInv, RouterSolvent
<1>4. ASSUME NEW t \in Tiers, SetTierPrice(t) PROVE RouterInv'
  <2>1. UNCHANGED routerVars /\ UNCHANGED payments
    BY <1>4 DEF SetTierPrice
  <2>2. changes' \in 0 .. MaxChanges
    BY <1>4, EconomyAssumption DEF SetTierPrice, CountsChange, RouterInv
  <2>3. tierPrices' \in [Tiers -> Nat]
    BY <1>4, EconomyAssumption DEF SetTierPrice, RouterInv
  <2> QED BY <1>3, <2>1, <2>2, <2>3
<1>5. ASSUME NEW t \in Tiers, SetCreatorFeeBps(t) PROVE RouterInv'
  <2>1. /\ UNCHANGED <<pending, routerBalance, payments, tierPrices>>
        /\ changes' \in 0 .. MaxChanges
    BY <1>5, EconomyAssumption
       DEF SetCreatorFeeBps, CountsChange, RouterInv, managerVars
  <2>2. creatorFeeBps' \in [Tiers -> BasisPoints]
    BY <1>5, EconomyAssumption DEF SetCreatorFeeBps, RouterInv
  <2> QED BY <2>1, <2>2 DEF RouterInv, RouterSolvent
<1>6. CASE SetSubscriptionDuration
  <2>1. UNCHANGED routerVars /\ UNCHANGED <<payments, tierPrices>>
    BY <1>6 DEF SetSubscriptionDuration
  <2>2. changes' \in 0 .. MaxChanges
    BY <1>6, EconomyAssumption DEF SetSubscriptionDuration, CountsChange, RouterInv
  <2> QED BY <1>3, <2>1, <2>2 DEF RouterInv
<1>7. CASE RegistryStep \/ TimePasses \/ (\E n \in Agents : UpdateScore(n)) \/ UNCHANGED vars
  <2>1. UNCHANGED routerVars /\ UNCHANGED <<payments, changes, tierPrices>>
    BY <1>7 DEF RegistryStep, TimePasses, UpdateScore, vars, managerVars, historyVars
  <2> QED BY <1>3, <2>1 DEF RouterInv
<1> QED BY <1>1, <1>2, <1>4, <1>5, <1>6, <1>7 DEF Next

(* The two invariants hold together.                                        *)
LEMMA EconomyInvariant == Spec => [](EconomyInv /\ RouterInv)
  BY EconomyInitInv, EconomyNextInv, RouterInitInv, RouterNextInv, PTL DEF Spec

(* Every variable of the payment path keeps its type; in particular a       *)
(* withdrawal never takes the router's balance below zero.                  *)
THEOREM EconomyTypeCorrect == Spec => []TypeOK
<1>1. EconomyInv /\ RouterInv => TypeOK
  <2> SUFFICES ASSUME EconomyInv, RouterInv PROVE TypeOK
    OBVIOUS
  <2>1. routerBalance \in Nat
    BY RouterBalanceType
  <2>2. RegistryTypeOK
    BY DEF EconomyInv, RegistryInv
  <2> QED BY <2>1, <2>2 DEF EconomyInv, EconomyTypes, RouterInv, TypeOK
<1> QED BY <1>1, EconomyInvariant, PTL

(* FeeRouter.sol always holds exactly what it owes to creators: the split   *)
(* of route and the withdrawals lose and create nothing, for any number of  *)
(* creators, prices and changes of the fees.                                *)
THEOREM EconomyRouterSolvent == Spec => []RouterSolvent
<1>1. EconomyInv /\ RouterInv => RouterSolvent
  BY DEF RouterInv
<1> QED BY <1>1, EconomyInvariant, PTL

----------------------------------------------------------------------------
(* Withdrawals of provider points.                                          *)


(* A queued withdrawal is recorded only after its receipt, and the row is   *)
(* the last thing its handler does.                                         *)
RecordedAfterReceipt ==
  \A w \in Requests :
    /\ pc[w] = "record" /\ w \notin Immediate => tx[w] = "mined"
    /\ w \in records => pc[w] = "done"

WithdrawalInv ==
  /\ WithdrawalTypeOK
  /\ ColumnsAgree
  /\ RecordedAfterReceipt
  /\ RowsAreOnChain

(* No request has been made at the start.                                   *)
LEMMA WithdrawalInitInv == WithdrawalInit => WithdrawalInv
  BY WithdrawalAssumption DEF WithdrawalInit, WithdrawalInv, WithdrawalTypeOK, ColumnsAgree,
     RecordedAfterReceipt, RowsAreOnChain

(* Each step that moves points moves two columns by the same amount.        *)
LEMMA PointsMoveInv ==
  ASSUME WithdrawalInv,
         \/ \E p \in Providers : Earn(p)
         \/ \E w \in Requests : Debit(w) \/ Refund(w)
  PROVE  WithdrawalTypeOK' /\ ColumnsAgree'
<1> USE WithdrawalAssumption DEF WithdrawalInv
<1>1. ASSUME NEW p \in Providers, Earn(p) PROVE WithdrawalTypeOK' /\ ColumnsAgree'
  BY <1>1 DEF Earn, WithdrawalTypeOK, ColumnsAgree
<1>2. ASSUME NEW w \in Requests, Debit(w) PROVE WithdrawalTypeOK' /\ ColumnsAgree'
  <2>1. ProviderOf[w] \in Providers /\ Redeemed[w] \in Int
    OBVIOUS
  <2>2. WithdrawalTypeOK'
    BY <1>2, <2>1 DEF Debit, TakePoints, CheckHolds, Goes, Answers, AfterDebitError,
       WithdrawalTypeOK
  <2>3. ColumnsAgree'
    BY <1>2, <2>1 DEF Debit, TakePoints, CheckHolds, WithdrawalTypeOK, ColumnsAgree
  <2> QED BY <2>2, <2>3
<1>3. ASSUME NEW w \in Requests, Refund(w) PROVE WithdrawalTypeOK' /\ ColumnsAgree'
  <2>1. ProviderOf[w] \in Providers /\ Redeemed[w] \in Int
    OBVIOUS
  <2>2. WithdrawalTypeOK'
    BY <1>3, <2>1 DEF Refund, Goes, Answers, WithdrawalTypeOK
  <2>3. ColumnsAgree'
    BY <1>3, <2>1 DEF Refund, WithdrawalTypeOK, ColumnsAgree
  <2> QED BY <2>2, <2>3
<1> QED BY <1>1, <1>2, <1>3

(* The other steps touch no column.                                         *)
LEMMA PointsStayInv ==
  ASSUME WithdrawalInv,
         \/ \E w \in Requests : \/ ReadBalance(w) \/ SendFails(w) \/ SendSucceeds(w)
                                \/ GetReceipt(w) \/ Record(w) \/ Settle(w)
         \/ Crash \/ UNCHANGED withdrawalVars
  PROVE  WithdrawalTypeOK' /\ ColumnsAgree'
<1> USE WithdrawalAssumption DEF WithdrawalInv
<1>1. balance' = balance /\ earned' = earned /\ withdrawn' = withdrawn
  BY DEF ReadBalance, SendFails, SendSucceeds, GetReceipt, Record, Settle, Crash,
     withdrawalVars, tableVars
<1>2. ColumnsAgree'
  BY <1>1 DEF ColumnsAgree
<1>3. ASSUME NEW w \in Requests,
             \/ ReadBalance(w) \/ SendFails(w) \/ SendSucceeds(w) \/ GetReceipt(w)
      PROVE  WithdrawalTypeOK'
  <2>1. /\ pc' \in [Requests ->
               {"new", "checked", "send", "receipt", "refund", "record", "done"}]
        /\ answer' \in [Requests -> {"none", "error", "completed", "queued"}]
        /\ tx' \in [Requests -> {"none", "pending", "mined", "reverted"}]
    BY <1>3 DEF ReadBalance, SendFails, SendSucceeds, GetReceipt, Goes, Answers,
       AfterSendError, WithdrawalTypeOK
  <2>2. UNCHANGED <<records, history>>
    BY <1>3 DEF ReadBalance, SendFails, SendSucceeds, GetReceipt
  <2> QED BY <1>1, <2>1, <2>2 DEF history, WithdrawalTypeOK
<1>4. ASSUME NEW w \in Requests, Record(w) \/ Settle(w)
      PROVE  WithdrawalTypeOK'
  BY <1>1, <1>4 DEF Record, Settle, Goes, Answers, history, WithdrawalTypeOK
<1>5. ASSUME Crash \/ UNCHANGED withdrawalVars PROVE WithdrawalTypeOK'
  BY <1>1, <1>5 DEF Crash, Running, withdrawalVars, history, WithdrawalTypeOK
<1> QED BY <1>2, <1>3, <1>4, <1>5

(* The row is written for the transaction whose receipt was seen.           *)
LEMMA RecordingInv ==
  ASSUME WithdrawalInv, WithdrawalNext \/ UNCHANGED withdrawalVars
  PROVE  RecordedAfterReceipt' /\ RowsAreOnChain'
<1> USE WithdrawalAssumption DEF WithdrawalInv
<1> USE DEF WithdrawalTypeOK, RecordedAfterReceipt, RowsAreOnChain
<1>1. ASSUME NEW p \in Providers, Earn(p)
      PROVE  RecordedAfterReceipt' /\ RowsAreOnChain'
  BY <1>1 DEF Earn
<1>2. ASSUME NEW w \in Requests, ReadBalance(w) \/ Debit(w) \/ Refund(w)
      PROVE  RecordedAfterReceipt' /\ RowsAreOnChain'
  BY <1>2 DEF ReadBalance, Debit, Refund, Goes, AfterDebitError
<1>3. ASSUME NEW w \in Requests, SendFails(w) \/ SendSucceeds(w)
      PROVE  RecordedAfterReceipt' /\ RowsAreOnChain'
  BY <1>3 DEF SendFails, SendSucceeds, Goes, AfterSendError
<1>4. ASSUME NEW w \in Requests, GetReceipt(w)
      PROVE  RecordedAfterReceipt' /\ RowsAreOnChain'
  BY <1>4 DEF GetReceipt, ReceiptFound, Goes
<1>5. ASSUME NEW w \in Requests, Record(w)
      PROVE  RecordedAfterReceipt' /\ RowsAreOnChain'
  <2>1. Status(w) \in AllowedStatus => w \notin Immediate
    BY DEF Status, AllowedStatus
  <2> QED BY <1>5, <2>1 DEF Record, Goes
<1>6. ASSUME NEW w \in Requests, Settle(w)
      PROVE  RecordedAfterReceipt' /\ RowsAreOnChain'
  BY <1>6 DEF Settle
<1>7. CASE Crash
  BY <1>7 DEF Crash, Running
<1>8. CASE UNCHANGED withdrawalVars
  BY <1>8 DEF withdrawalVars
<1> QED BY <1>1, <1>2, <1>3, <1>4, <1>5, <1>6, <1>7, <1>8 DEF WithdrawalNext

(* What the debits took is known exactly, and so is what became of it.  A   *)
(* request is debited before it is sent, is in hand until its points are    *)
(* settled, and what is neither in hand nor cut off was answered.           *)
Books ==
  \A p \in Providers :
    rewards[p] - balance[p]
      = SumFunctionOnSet(Spent, Taken(p)) - SumFunctionOnSet(Granted, Taken(p))

Answered(w) ==
  IF w \in Immediate THEN answer[w] = "completed" /\ tx[w] # "none" ELSE tx[w] = "mined"

Traces ==
  \A w \in Requests :
    /\ pc[w] \in {"new", "checked"} => w \notin debited /\ tx[w] = "none"
    /\ InHand(w) => w \in debited \ refunded
    /\ pc[w] = "record" => tx[w] # "none"
    /\ w \in refunded \/ tx[w] # "none" => w \in debited
    /\ w \in debited \ refunded => InHand(w) \/ w \in faults \/ Answered(w)

DebitsInv == Traces /\ Books

(* No request has moved a point.                                            *)
LEMMA DebitsInitInv == WithdrawalInit => DebitsInv
<1> SUFFICES ASSUME WithdrawalInit PROVE DebitsInv
  OBVIOUS
<1>1. Traces
  BY DEF WithdrawalInit, Traces, InHand
<1>2. ASSUME NEW p \in Providers PROVE Taken(p) = {} /\ rewards[p] - balance[p] = 0
  BY <1>2 DEF WithdrawalInit, Taken
<1>3. Books
  BY <1>2, SumEmpty DEF Books
<1> QED BY <1>1, <1>3 DEF DebitsInv

(* The points of a request are taken or granted; sets of requests are       *)
(* finite and their sums natural numbers.                                   *)
LEMMA PointsType ==
  /\ \A w \in Requests :
       /\ Spent[w] \in Nat /\ Granted[w] \in Nat
       /\ Redeemed[w] \in Int /\ Redeemed[w] = Spent[w] - Granted[w]
       /\ Redeemed[w] >= 0 => Granted[w] = 0
  /\ \A S \in SUBSET Requests :
       /\ IsFiniteSet(S)
       /\ SumFunctionOnSet(Spent, S) \in Nat
       /\ SumFunctionOnSet(Granted, S) \in Nat
<1>1. \A w \in Requests :
        /\ Spent[w] \in Nat /\ Granted[w] \in Nat
        /\ Redeemed[w] \in Int /\ Redeemed[w] = Spent[w] - Granted[w]
        /\ Redeemed[w] >= 0 => Granted[w] = 0
  BY WithdrawalAssumption DEF Spent, Granted
<1>2. ASSUME NEW S \in SUBSET Requests
      PROVE  /\ IsFiniteSet(S)
             /\ SumFunctionOnSet(Spent, S) \in Nat
             /\ SumFunctionOnSet(Granted, S) \in Nat
  <2>1. IsFiniteSet(Requests)
    BY WithdrawalAssumption
  <2>2. IsFiniteSet(S)
    BY <2>1, FS_Subset
  <2>3. \A w \in S : Spent[w] \in Nat /\ Granted[w] \in Nat
    BY <1>1
  <2>4. SumFunctionOnSet(Spent, S) \in Nat
    BY <2>2, <2>3, SumType
  <2>5. SumFunctionOnSet(Granted, S) \in Nat
    BY <2>2, <2>3, SumType
  <2> QED BY <2>2, <2>4, <2>5
<1> QED BY <1>1, <1>2, Zenon

(* A step leaves what a provider spent, takes the points of a request, or   *)
(* gives them back.                                                         *)
Stays ==
  /\ \A p \in Providers : rewards'[p] - balance'[p] = rewards[p] - balance[p]
  /\ UNCHANGED <<debited, refunded>>

Takes(w) ==
  /\ w \notin debited /\ w \notin refunded
  /\ debited' = debited \cup {w} /\ UNCHANGED <<refunded, rewards>>
  /\ balance' = [balance EXCEPT ![ProviderOf[w]] = @ - Redeemed[w]]

GivesBack(w) ==
  /\ w \in debited \ refunded /\ Redeemed[w] >= 0
  /\ refunded' = refunded \cup {w} /\ UNCHANGED <<debited, rewards>>
  /\ balance' = [balance EXCEPT ![ProviderOf[w]] = @ + Redeemed[w]]

LEMMA StepStaysOrMoves ==
  ASSUME WithdrawalInv, Traces, WithdrawalNext \/ UNCHANGED withdrawalVars
  PROVE  Traces' /\ (Stays \/ \E w \in Requests : Takes(w) \/ GivesBack(w))
<1> USE DEF WithdrawalTypeOK, Traces, InHand, Answered, Immediate
<1>0. WithdrawalTypeOK /\ RecordedAfterReceipt
  BY DEF WithdrawalInv
<1>1. ASSUME NEW p \in Providers, Earn(p) PROVE Traces' /\ Stays
  <2>1. Traces'
    BY <1>1 DEF Earn
  <2>2. Stays
    BY <1>0, <1>1, WithdrawalAssumption DEF Earn, Stays
  <2> QED BY <2>1, <2>2
<1>2. ASSUME NEW w \in Requests, ReadBalance(w) PROVE Traces' /\ Stays
  BY <1>0, <1>2 DEF ReadBalance, Goes, Answers, tableVars, history, Stays
<1>3. ASSUME NEW w \in Requests, Debit(w) PROVE Traces' /\ (Stays \/ Takes(w))
  BY <1>0, <1>3 DEF Debit, TakePoints, Goes, Answers, AfterDebitError, Stays, Takes
<1>4. ASSUME NEW w \in Requests, SendFails(w) PROVE Traces' /\ Stays
  BY <1>0, <1>4 DEF SendFails, Goes, AfterSendError, tableVars, history, Stays
<1>5. ASSUME NEW w \in Requests, SendSucceeds(w) PROVE Traces' /\ Stays
  BY <1>0, <1>5 DEF SendSucceeds, Goes, tableVars, history, Stays
<1>6. ASSUME NEW w \in Requests, GetReceipt(w) PROVE Traces' /\ Stays
  BY <1>0, <1>6 DEF GetReceipt, Goes, ReceiptFound, tableVars, history, Stays
<1>7. ASSUME NEW w \in Requests, Refund(w) PROVE Traces' /\ (Stays \/ GivesBack(w))
  BY <1>0, <1>7 DEF Refund, Goes, Answers, Stays, GivesBack
<1>8. ASSUME NEW w \in Requests, Record(w) PROVE Traces' /\ Stays
  BY <1>0, <1>8 DEF Record, Goes, Answers, tableVars, Stays, RecordedAfterReceipt
<1>9. ASSUME NEW w \in Requests, Settle(w) PROVE Traces' /\ Stays
  BY <1>0, <1>9 DEF Settle, tableVars, history, Stays
<1>10. CASE Crash
  BY <1>0, <1>10 DEF Crash, Running, tableVars, Stays
<1>11. CASE UNCHANGED withdrawalVars
  BY <1>0, <1>11 DEF withdrawalVars, tableVars, history, Stays
<1> QED BY <1>1, <1>2, <1>3, <1>4, <1>5, <1>6, <1>7, <1>8, <1>9, <1>10, <1>11
        DEF WithdrawalNext

(* A request joins or leaves the sums with its own points.                  *)
LEMMA MovesBooks ==
  ASSUME WithdrawalTypeOK, Books, NEW w \in Requests, Takes(w) \/ GivesBack(w),
         NEW p \in Providers
  PROVE  rewards'[p] - balance'[p]
           = SumFunctionOnSet(Spent, Taken(p)') - SumFunctionOnSet(Granted, Taken(p)')
<1>1. PICK A, B : A = Taken(p) /\ B = Taken(p)'
  OBVIOUS
<1>2. PICK a, b : a = SumFunctionOnSet(Spent, A) /\ b = SumFunctionOnSet(Granted, A)
  OBVIOUS
<1>3. PICK c, d : c = SumFunctionOnSet(Spent, B) /\ d = SumFunctionOnSet(Granted, B)
  OBVIOUS
<1>4. PICK k, m, n : k = Redeemed[w] /\ m = Spent[w] /\ n = Granted[w]
  OBVIOUS
<1>5. A \in SUBSET Requests /\ B \in SUBSET Requests
  BY <1>1 DEF Taken, Takes, GivesBack, WithdrawalTypeOK
<1>6. /\ a \in Nat /\ b \in Nat /\ c \in Nat /\ d \in Nat
      /\ m \in Nat /\ n \in Nat /\ k = m - n
  BY <1>2, <1>3, <1>4, <1>5, PointsType
<1>7. rewards[p] \in Int /\ balance[p] \in Int /\ rewards[p] - balance[p] = a - b
  BY <1>1, <1>2 DEF Books, WithdrawalTypeOK
<1>8. rewards'[p] = rewards[p]
  BY DEF Takes, GivesBack
<1>9. IsFiniteSet(A) /\ IsFiniteSet(B)
  BY <1>5, PointsType
<1>10. \A v \in A \cup B : Spent[v] \in Nat /\ Granted[v] \in Nat
  BY <1>5, PointsType
<1>11. CASE ProviderOf[w] # p
  <2>1. balance'[p] = balance[p]
    BY <1>11, WithdrawalAssumption DEF Takes, GivesBack, WithdrawalTypeOK
  <2>2. B = A
    BY <1>1, <1>11 DEF Takes, GivesBack, Taken
  <2> QED BY <1>1, <1>2, <1>7, <1>8, <2>1, <2>2
<1>12. CASE ProviderOf[w] = p /\ Takes(w)
  <2>1. balance'[p] = balance[p] - k
    BY <1>4, <1>12 DEF Takes, WithdrawalTypeOK
  <2>2. w \notin A /\ B = A \cup {w}
    BY <1>1, <1>12 DEF Takes, Taken
  <2>3. c = a + m /\ d = b + n
    BY <1>2, <1>3, <1>4, <1>9, <1>10, <2>2, SumAdd
  <2>4. rewards'[p] - balance'[p] = c - d
    BY <1>6, <1>7, <1>8, <2>1, <2>3
  <2> QED BY <1>1, <1>3, <2>4
<1>13. CASE ProviderOf[w] = p /\ GivesBack(w)
  <2>1. balance'[p] = balance[p] + k
    BY <1>4, <1>13 DEF GivesBack, WithdrawalTypeOK
  <2>2. w \notin B /\ A = B \cup {w}
    BY <1>1, <1>13 DEF GivesBack, Taken
  <2>3. a = c + m /\ b = d + n
    BY <1>2, <1>3, <1>4, <1>9, <1>10, <2>2, SumAdd
  <2>4. rewards'[p] - balance'[p] = c - d
    BY <1>6, <1>7, <1>8, <2>1, <2>3
  <2> QED BY <1>1, <1>3, <2>4
<1> QED BY <1>11, <1>12, <1>13

(* Every step preserves the account of the debits.                          *)
LEMMA DebitsNextInv ==
  WithdrawalInv /\ DebitsInv /\ [WithdrawalNext]_withdrawalVars => DebitsInv'
<1> SUFFICES ASSUME WithdrawalInv, DebitsInv, [WithdrawalNext]_withdrawalVars
             PROVE  DebitsInv'
  OBVIOUS
<1>1. Traces' /\ (Stays \/ \E w \in Requests : Takes(w) \/ GivesBack(w))
  BY StepStaysOrMoves DEF DebitsInv
<1>2. CASE Stays
  <2>1. \A p \in Providers : Taken(p)' = Taken(p)
    BY <1>2 DEF Stays, Taken
  <2> QED BY <1>1, <1>2, <2>1 DEF DebitsInv, Books, Stays
<1>3. CASE \E w \in Requests : Takes(w) \/ GivesBack(w)
  BY <1>1, <1>3, MovesBooks DEF DebitsInv, Books, WithdrawalInv
<1> QED BY <1>1, <1>2, <1>3

(* Every step preserves the invariant.                                      *)
LEMMA WithdrawalNextInv == WithdrawalInv /\ [WithdrawalNext]_withdrawalVars => WithdrawalInv'
<1> SUFFICES ASSUME WithdrawalInv, WithdrawalNext \/ UNCHANGED withdrawalVars
             PROVE  WithdrawalInv'
  OBVIOUS
<1>1. WithdrawalTypeOK' /\ ColumnsAgree'
  BY PointsMoveInv, PointsStayInv DEF WithdrawalNext
<1>2. RecordedAfterReceipt' /\ RowsAreOnChain'
  BY RecordingInv
<1> QED BY <1>1, <1>2 DEF WithdrawalInv

(* The invariant holds throughout.                                          *)
LEMMA WithdrawalInvariant == WithdrawalSpec => [](WithdrawalInv /\ DebitsInv)
<1>1. WithdrawalInv => WithdrawalTypeOK
  BY DEF WithdrawalInv
<1> QED BY <1>1, WithdrawalInitInv, WithdrawalNextInv, DebitsInitInv, DebitsNextInv, PTL
        DEF WithdrawalSpec

(* Every variable keeps its type.                                           *)
THEOREM WithdrawalTypeCorrect == WithdrawalSpec => []WithdrawalTypeOK
<1>1. WithdrawalInv => WithdrawalTypeOK
  BY DEF WithdrawalInv
<1> QED BY <1>1, WithdrawalInvariant, PTL

(* The columns of provider_points agree and no balance goes below zero,     *)
(* however many requests of one provider passed the balance check.          *)
THEOREM WithdrawalColumnsAgree == WithdrawalSpec => []ColumnsAgree
<1>1. WithdrawalInv => ColumnsAgree
  BY DEF WithdrawalInv
<1> QED BY <1>1, WithdrawalInvariant, PTL

(* A row of withdrawal_requests stands for a mined transaction, although    *)
(* immediate withdrawals never wait for theirs.                             *)
THEOREM WithdrawalRowsAreOnChain == WithdrawalSpec => []RowsAreOnChain
<1>1. WithdrawalInv => RowsAreOnChain
  BY DEF WithdrawalInv
<1> QED BY <1>1, WithdrawalInvariant, PTL

(* What a provider spent is the points of the requests that were debited    *)
(* and not refunded.                                                        *)
LEMMA PointsSpentAre ==
  ASSUME WithdrawalInv, DebitsInv, NEW p \in Providers
  PROVE  PointsSpent(p) = SumFunctionOnSet(Spent, Taken(p)) /\ Taken(p) \in SUBSET Requests
<1>1. PICK A, a, b : /\ A = Taken(p) /\ a = SumFunctionOnSet(Spent, A)
                     /\ b = SumFunctionOnSet(Granted, A)
  OBVIOUS
<1>2. A \in SUBSET Requests
  BY <1>1 DEF Taken, WithdrawalInv, WithdrawalTypeOK
<1>3. a \in Nat /\ b \in Nat
  BY <1>1, <1>2, PointsType
<1>4. rewards[p] - balance[p] = a - b /\ PointsSpent(p) = rewards[p] - balance[p] + b
  BY <1>1 DEF DebitsInv, Books, PointsSpent
<1>5. PointsSpent(p) = a
  BY <1>3, <1>4
<1> QED BY <1>1, <1>2, <1>5

(* A provider is paid out of the points it was rewarded and no longer has,  *)
(* one point more a transaction at most, whatever fails or crashes between  *)
(* the debit, the transaction and the refund, and whatever amounts of       *)
(* either sign it asks for; transactions that were paid and refunded are    *)
(* left out.                                                                *)
THEOREM WithdrawalPaidWithinRewards == WithdrawalSpec => []PaidWithinRewards
<1>1. WithdrawalInv /\ DebitsInv => PaidWithinRewards
  <2> SUFFICES ASSUME WithdrawalInv, DebitsInv, NEW p \in Providers
               PROVE  SumFunctionOnSet(AmountWei, Paid(p))
                        <= WeiPerPoint * (PointsSpent(p) + Cardinality(Paid(p)))
    BY DEF PaidWithinRewards
  <2>1. PICK A, B : A = Paid(p) /\ B = Taken(p)
    OBVIOUS
  <2>2. A \subseteq B /\ B \in SUBSET Requests
    BY <2>1, PointsSpentAre DEF Paid, Taken, DebitsInv, Traces
  <2>3. IsFiniteSet(A) /\ IsFiniteSet(B) /\ A \in SUBSET Requests
    BY <2>2, PointsType
  <2>4. WeiPerPoint \in Nat
    BY WithdrawalAssumption
  <2>5. ASSUME NEW w \in A
        PROVE  /\ Spent[w] \in Nat /\ AmountWei[w] \in Nat
               /\ AmountWei[w] <= WeiPerPoint * (Spent[w] + 1)
    <3>1. PICK n, k : n = AmountWei[w] /\ k = Redeemed[w]
      OBVIOUS
    <3>2. n \in Nat /\ k \in Nat /\ n - WeiPerPoint * k <= WeiPerPoint
      BY <2>1, <2>3, <2>5, <3>1, WithdrawalAssumption DEF Paid
    <3>3. Spent[w] = k
      BY <2>3, <2>5, <3>1, <3>2, PointsType DEF Spent
    <3>4. WeiPerPoint * (k + 1) = WeiPerPoint * k + WeiPerPoint /\ WeiPerPoint * k \in Nat
      BY <2>4, <3>2
    <3> QED BY <2>4, <3>1, <3>2, <3>3, <3>4
  <2>6. PICK n, m, a, b : /\ n = SumFunctionOnSet(AmountWei, A) /\ m = Cardinality(A)
                          /\ a = SumFunctionOnSet(Spent, A) /\ b = SumFunctionOnSet(Spent, B)
    OBVIOUS
  <2>7. n <= WeiPerPoint * (a + m)
    BY <2>3, <2>4, <2>5, <2>6, SumScaled
  <2>8. a <= b
    <3>1. \A w \in B : Spent[w] \in Nat /\ Spent[w] <= Spent[w]
      BY <2>2, PointsType
    <3> QED BY <2>2, <2>3, <2>6, <3>1, SumSmaller
  <2>9. a \in Nat /\ b \in Nat /\ m \in Nat /\ n \in Nat
    BY <2>2, <2>3, <2>5, <2>6, PointsType, FS_CardinalityType, SumType
  <2>10. n <= WeiPerPoint * (b + m)
    <3>1. WeiPerPoint * (b + m) = WeiPerPoint * (a + m) + WeiPerPoint * (b - a)
      BY <2>4, <2>9
    <3>2. WeiPerPoint * (b - a) \in Nat /\ WeiPerPoint * (a + m) \in Nat
      BY <2>4, <2>8, <2>9
    <3> QED BY <2>7, <2>9, <3>1, <3>2
  <2> QED BY <2>1, <2>6, <2>10, PointsSpentAre
<1> QED BY <1>1, WithdrawalInvariant, PTL

(* No point is lost by the handler's own doing: every one a provider was    *)
(* rewarded and no longer has belongs to a request still in hand, to a      *)
(* transaction that pays it or still may, to a handler that met a database  *)
(* fault or a crash, or to an immediate withdrawal that reverted after it   *)
(* was answered as completed.                                               *)
THEOREM WithdrawalNothingEvaporates == WithdrawalSpec => []NothingEvaporates
<1>1. WithdrawalInv /\ DebitsInv => NothingEvaporates
  <2> SUFFICES ASSUME WithdrawalInv, DebitsInv, NEW p \in Providers
               PROVE  PointsSpent(p) <= SumFunctionOnSet(Spent, Accounted(p))
    BY DEF NothingEvaporates
  <2>1. PICK A, B : A = Taken(p) /\ B = Accounted(p)
    OBVIOUS
  <2>2. A \in SUBSET Requests /\ B \in SUBSET Requests
    BY <2>1, PointsSpentAre DEF Accounted
  <2>3. A \subseteq B
    BY <2>1, <2>2 DEF Taken, Accounted, DebitsInv, Traces, Answered, RevertedAfterAnswer,
       WithdrawalInv, WithdrawalTypeOK
  <2>4. \A w \in B : Spent[w] \in Nat /\ Spent[w] <= Spent[w]
    BY <2>2, PointsType
  <2>5. SumFunctionOnSet(Spent, A) <= SumFunctionOnSet(Spent, B)
    BY <2>2, <2>3, <2>4, PointsType, SumSmaller
  <2> QED BY <2>1, <2>5, PointsSpentAre
<1> QED BY <1>1, WithdrawalInvariant, PTL
=============================================================================
