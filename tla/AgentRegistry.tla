--------------------------- MODULE AgentRegistry ---------------------------
(***************************************************************************)
(* contracts/src/AgentRegistry.sol: agents, their link to ERC-7857 Agentic  *)
(* ID tokens and the paginated lists.  Every action is one transaction;     *)
(* one that reverts changes nothing and is not a step.  Token ownership     *)
(* belongs to another contract and changes at any time; the verifier may    *)
(* also replace that contract.  Names, descriptions and publishBatch (an    *)
(* event only) are left out.                                                *)
(***************************************************************************)
EXTENDS Naturals, Sequences, SequencesExt, Slices

CONSTANTS
  Agents,   \* addresses that may register
  Tokens,   \* ERC-7857 token ids, 0 possibly among them
  NoAgent   \* address(0)

ASSUME RegistryAssumption == Tokens \subseteq Nat /\ NoAgent \notin Agents

VARIABLES
  agents,           \* agents[...]: registered, active, agenticId, isVerified
  agentList,
  agenticIdToAgent,
  ownerOf,          \* IAgenticID.ownerOf (external)
  contractSet       \* agenticIdContract is not address(0)

registryVars == <<agents, agentList, agenticIdToAgent, ownerOf, contractSet>>

Unregistered == [registered |-> FALSE, active |-> FALSE, agenticId |-> 0, isVerified |-> FALSE]

RegistryInit ==
  /\ agents = [a \in Agents |-> Unregistered]
  /\ agentList = <<>>
  /\ agenticIdToAgent = [t \in Tokens |-> NoAgent]
  /\ ownerOf \in [Tokens -> Agents \cup {NoAgent}]
  /\ contractSet \in BOOLEAN

(* _registerAgent.                                                          *)
AddAgent(a, t) ==
  /\ agents' = [agents EXCEPT ![a] =
                  [registered |-> TRUE, active |-> TRUE, agenticId |-> t, isVerified |-> t # 0]]
  /\ agentList' = Append(agentList, a)

----------------------------------------------------------------------------
(* _registerAgent's guard.                                                  *)
NotActiveNow(a) == ~agents[a].active
NeverRegistered(a) == ~agents[a].registered

(* registerAgent and its alias registerNode.                                *)
RegisterAgent(a) ==
  /\ NeverRegistered(a)
  /\ AddAgent(a, 0)
  /\ UNCHANGED <<agenticIdToAgent, ownerOf, contractSet>>

(* The checks registerVerifiedAgent and linkAgenticId share.                *)
OwnsToken(a, t) == contractSet /\ ownerOf[t] = a
MayLink(a, t) == OwnsToken(a, t) /\ agenticIdToAgent[t] = NoAgent

(* registerVerifiedAgent; token 0 registers an unverified agent.            *)
RegisterVerifiedAgent(a, t) ==
  /\ MayLink(a, t)
  /\ NeverRegistered(a)
  /\ AddAgent(a, t)
  /\ agenticIdToAgent' = IF t # 0 THEN [agenticIdToAgent EXCEPT ![t] = a] ELSE agenticIdToAgent
  /\ UNCHANGED <<ownerOf, contractSet>>

LinkAgenticId(a, t) ==
  /\ agents[a].registered
  /\ agents[a].active
  /\ ~agents[a].isVerified
  /\ MayLink(a, t)
  /\ agents' = [agents EXCEPT ![a].agenticId = t, ![a].isVerified = TRUE]
  /\ agenticIdToAgent' = [agenticIdToAgent EXCEPT ![t] = a]
  /\ UNCHANGED <<agentList, ownerOf, contractSet>>

DeregisterAgent(a) ==
  /\ agents[a].registered
  /\ agents[a].active
  /\ agents' = [agents EXCEPT ![a].active = FALSE]
  /\ UNCHANGED <<agentList, agenticIdToAgent, ownerOf, contractSet>>

(* setAgenticIdContract: to address(0) or to a contract with its own owners.*)
SetAgenticIdContract ==
  /\ contractSet' \in BOOLEAN
  /\ ownerOf' \in [Tokens -> Agents \cup {NoAgent}]
  /\ UNCHANGED <<agents, agentList, agenticIdToAgent>>

(* A transfer, mint or burn of a token.                                     *)
TransferToken(t) ==
  /\ \E a \in Agents \cup {NoAgent} : ownerOf' = [ownerOf EXCEPT ![t] = a]
  /\ UNCHANGED <<agents, agentList, agenticIdToAgent, contractSet>>

RegistryNext ==
  \/ \E a \in Agents :
       \/ RegisterAgent(a) \/ DeregisterAgent(a)
       \/ \E t \in Tokens : RegisterVerifiedAgent(a, t) \/ LinkAgenticId(a, t)
  \/ SetAgenticIdContract
  \/ \E t \in Tokens : TransferToken(t)

RegistrySpec == RegistryInit /\ [][RegistryNext]_registryVars

----------------------------------------------------------------------------
(* getAgents and getVerifiedAgents: a page of a list.                       *)
PageFrom(list, offset, end) == SubSeq(list, offset + 1, end)
PageUnclamped(list, offset, limit) == PageFrom(list, offset + 1, offset + limit)
Page(list, offset, limit) ==
  IF offset >= Len(list) THEN <<>>
  ELSE PageFrom(list, offset, IF offset + limit > Len(list) THEN Len(list) ELSE offset + limit)

GetAgents(offset, limit) == Page(agentList, offset, limit)

VerifiedAgents == Keep(agentList, {a \in Agents : agents[a].isVerified})

GetVerifiedAgents(offset, limit) == Page(VerifiedAgents, offset, limit)

----------------------------------------------------------------------------
(* Every variable has its type.                                             *)
RegistryTypeOK ==
  /\ agents \in [Agents -> [registered : BOOLEAN, active : BOOLEAN,
                            agenticId : Tokens \cup {0}, isVerified : BOOLEAN]]
  /\ agentList \in Seq(Agents)
  /\ agenticIdToAgent \in [Tokens -> Agents \cup {NoAgent}]
  /\ ownerOf \in [Tokens -> Agents \cup {NoAgent}]
  /\ contractSet \in BOOLEAN

(* The two directions of the link agree for every verified agent, and no    *)
(* token verifies two agents, whatever transfers and contract changes come  *)
(* between registering, linking and deregistering.                          *)
LinksAgree ==
  /\ \A a \in Agents : agents[a].isVerified => agenticIdToAgent[agents[a].agenticId] = a
  /\ \A t \in Tokens : agenticIdToAgent[t] # NoAgent =>
       LET a == agenticIdToAgent[t] IN agents[a].isVerified /\ agents[a].agenticId = t

(* The list holds each registered agent once, so its length is the number   *)
(* of agents and the pages name nobody twice.                               *)
ListedOnce ==
  /\ \A i, j \in DOMAIN agentList : agentList[i] = agentList[j] => i = j
  /\ \A a \in Agents : agents[a].registered <=> \E i \in DOMAIN agentList : agentList[i] = a

(* Walking the list page by page visits exactly the list, in order.         *)
Steps == 1 .. Len(agentList) + 1

PagesCoverLists ==
  \A limit \in Steps :
    /\ FlattenSeq([i \in Steps |-> GetAgents((i - 1) * limit, limit)]) = agentList
    /\ FlattenSeq([i \in Steps |-> GetVerifiedAgents((i - 1) * limit, limit)]) = VerifiedAgents

=============================================================================
