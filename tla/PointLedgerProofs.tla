------------------------- MODULE PointLedgerProofs -------------------------
(* Proofs about the deposit listener and the subscribe requests, for any    *)
(* deposits, several to a transaction or not, and any number of requests,   *)
(* errors and crashes.                                                      *)
EXTENDS PointLedger, DataTheorems, TLAPS

(* The event about to be recorded is the one that was just credited.        *)
RecordsTheCredited ==
  pc = "record" => \A d \in Deposits : Current(d) => rows[d] > 0

LedgerInv ==
  /\ TypeOK
  /\ RecordsTheCredited
  /\ CreditedAtMostOnce
  /\ ProcessedImpliesCredited

(* Nothing is credited or recorded at the start.                            *)
LEMMA LedgerInitInv == Init => LedgerInv
  BY LedgerAssumption DEF Init, LedgerInv, TypeOK, RecordsTheCredited, CreditedAtMostOnce,
     ProcessedImpliesCredited

(* The loop is at one event at a time.                                      *)
LEMMA CurrentUnique ==
  ASSUME TypeOK, NEW d, NEW e, Current(d), Current(e)
  PROVE  d = e
<1>1. d \in Nat /\ e \in Nat
  BY LedgerAssumption DEF TypeOK, Current
<1>2. d <= e /\ e <= d
  BY DEF Current
<1> QED BY <1>1, <1>2

(* A credit commits only while its transaction has no DEPOSIT row.          *)
LEMMA CreditCommitsInv ==
  ASSUME LedgerInv, NEW d \in Deposits, CreditCommits(d)
  PROVE  LedgerInv'
<1> USE LedgerAssumption DEF LedgerInv
<1>1. /\ rows \in [Deposits -> Nat]
      /\ rows' = [rows EXCEPT ![d] = @ + 1]
      /\ \A e \in Deposits : TxOf[e] = TxOf[d] => rows[e] = 0
      /\ recorded' = recorded /\ todo' = todo /\ pc' = "record"
      /\ Current(d)
  BY DEF TypeOK, CreditCommits, TxHashUnused
<1>2. rows[d] = 0 /\ rows'[d] = 1 /\ \A e \in Deposits : e # d => rows'[e] = rows[e]
  BY <1>1
<1>3. TypeOK'
  <2>1. balance' \in [Users -> Nat]
    <3>1. \A u \in Users : balance[u] \in Nat /\ Points[d] \in Nat
      BY DEF TypeOK
    <3>2. balance' = [u \in Users |-> balance[u] + IF u = UserOf[d] THEN Points[d] ELSE 0]
      BY DEF CreditCommits
    <3> QED BY <3>1, <3>2
  <2> QED BY <2>1, <1>1 DEF CreditCommits, TypeOK, userVars, historyVars
<1>4. RecordsTheCredited'
  <2> SUFFICES ASSUME NEW e \in Deposits, Current(e)' PROVE rows'[e] > 0
    BY DEF RecordsTheCredited
  <2>1. Current(e)
    BY <1>1 DEF Current
  <2>2. e = d
    BY <1>1, <2>1, CurrentUnique
  <2> QED BY <1>2, <2>2
<1>5. CreditedAtMostOnce'
  <2> SUFFICES ASSUME NEW e \in Deposits, NEW f \in Deposits,
                      rows'[e] > 0, rows'[f] > 0, TxOf[e] = TxOf[f]
               PROVE  e = f /\ rows'[e] = 1
    BY DEF CreditedAtMostOnce
  <2>1. CASE TxOf[e] = TxOf[d]
    <3>1. rows[e] = 0 /\ rows[f] = 0
      BY <2>1, <1>1
    <3>2. e = d /\ f = d
      BY <3>1, <1>2
    <3> QED BY <3>2, <1>2
  <2>2. CASE TxOf[e] # TxOf[d]
    <3>1. rows'[e] = rows[e] /\ rows'[f] = rows[f]
      BY <2>2, <1>2
    <3> QED BY <3>1 DEF CreditedAtMostOnce
  <2> QED BY <2>1, <2>2
<1>6. ProcessedImpliesCredited'
  BY <1>1, <1>2 DEF ProcessedImpliesCredited
<1> QED BY <1>3, <1>4, <1>5, <1>6

(* An event is recorded only after its credit.                              *)
LEMMA RecordEventInv ==
  ASSUME LedgerInv, NEW d \in Deposits, RecordEvent(d)
  PROVE  LedgerInv'
<1> USE LedgerAssumption DEF LedgerInv
<1>1. rows[d] > 0 /\ rows' = rows /\ recorded' \in {recorded, recorded \cup {TxOf[d]}}
  BY DEF RecordEvent, RecordsTheCredited
<1>2. TypeOK'
  <2>1. TxOf[d] \in Txs
    OBVIOUS
  <2> QED BY <2>1 DEF RecordEvent, CanFail, TypeOK, userVars
<1>3. RecordsTheCredited' /\ CreditedAtMostOnce'
  BY <1>1 DEF RecordEvent, RecordsTheCredited, CreditedAtMostOnce
<1>4. ProcessedImpliesCredited'
  BY <1>1 DEF ProcessedImpliesCredited
<1> QED BY <1>2, <1>3, <1>4

(* The rest of the listener writes neither rows nor recorded.               *)
LEMMA ListenerInv ==
  ASSUME LedgerInv,
         \/ PollInitialises \/ PollScans \/ PollEnds
         \/ \E d \in Deposits : CheckEvent(d) \/ EventFails(d)
  PROVE  LedgerInv'
<1> USE LedgerAssumption DEF LedgerInv
<1>1. /\ rows' = rows /\ recorded' = recorded /\ pc' # "record"
  BY DEF PollInitialises, PollScans, PollEnds, CheckEvent, EventFails, AfterError,
     listenerVars
<1>2. TypeOK'
  <2>1. CASE PollInitialises
    BY <2>1 DEF PollInitialises, Confirmed, TypeOK, listenerVars, userVars
  <2>2. CASE PollScans
    BY <2>2 DEF PollScans, Confirmed, TypeOK, userVars, historyVars
  <2>3. CASE PollEnds
    BY <2>3 DEF PollEnds, CanFail, TypeOK, userVars
  <2>4. ASSUME NEW d \in Deposits, CheckEvent(d) PROVE TypeOK'
    BY <2>4 DEF CheckEvent, TypeOK, userVars, historyVars
  <2>5. ASSUME NEW d \in Deposits, EventFails(d) PROVE TypeOK'
    BY <2>5 DEF EventFails, AfterError, CanFail, TypeOK, userVars
  <2> QED BY <2>1, <2>2, <2>3, <2>4, <2>5
<1>3. RecordsTheCredited' /\ CreditedAtMostOnce' /\ ProcessedImpliesCredited'
  BY <1>1 DEF RecordsTheCredited, CreditedAtMostOnce, ProcessedImpliesCredited
<1> QED BY <1>2, <1>3

(* Nothing outside the listener does.                                       *)
LEMMA OutsideInv ==
  ASSUME LedgerInv, MineBlock \/ RequestStep \/ Crash \/ UNCHANGED vars
  PROVE  LedgerInv'
<1> USE LedgerAssumption DEF LedgerInv
<1>1. /\ rows' = rows /\ recorded' = recorded
      /\ (pc' = pc /\ todo' = todo) \/ pc' # "record"
  BY DEF MineBlock, RequestStep, SubscribeChecks, SubscribePays, Crash, vars, listenerVars
<1>2. TypeOK'
  <2>1. CASE MineBlock
    BY <2>1 DEF MineBlock, TypeOK, listenerVars, userVars, historyVars
  <2>2. ASSUME NEW r \in Requests, SubscribeChecks(r) PROVE TypeOK'
    BY <2>2 DEF SubscribeChecks, TypeOK, listenerVars, userVars, historyVars
  <2>3. ASSUME NEW r \in Requests, SubscribePays(r) PROVE TypeOK'
    <3>1. balance' \in [Users -> Nat] /\ spent' \in [Users -> Nat]
      BY <2>3 DEF SubscribePays, BalanceStaysPositive, TypeOK, userVars
    <3> QED BY <2>3, <3>1 DEF SubscribePays, CanFail, TypeOK, listenerVars
  <2>4. CASE Crash
    BY <2>4 DEF Crash, CanFail, TypeOK, userVars
  <2>5. CASE UNCHANGED vars
    BY <2>5 DEF vars, TypeOK, listenerVars, userVars, historyVars
  <2> QED BY <2>1, <2>2, <2>3, <2>4, <2>5 DEF RequestStep
<1>3. RecordsTheCredited'
  BY <1>1 DEF RecordsTheCredited, Current
<1>4. CreditedAtMostOnce' /\ ProcessedImpliesCredited'
  BY <1>1 DEF CreditedAtMostOnce, ProcessedImpliesCredited
<1> QED BY <1>2, <1>3, <1>4

----------------------------------------------------------------------------
(* The books *)

(* What the DEPOSIT rows of any events are worth is a natural number.       *)
LEMMA WorthType ==
  ASSUME TypeOK, NEW S, S \subseteq Deposits
  PROVE  /\ IsFiniteSet(S) /\ \A d \in S : Worth[d] \in Nat
         /\ SumFunctionOnSet(Worth, S) \in Nat
<1>1. IsFiniteSet(S)
  BY LedgerAssumption, FS_Subset
<1>2. \A d \in S : Worth[d] \in Nat
  <2> SUFFICES ASSUME NEW d \in S PROVE Worth[d] \in Nat
    OBVIOUS
  <2>1. PICK m, n : m = rows[d] /\ n = Points[d]
    OBVIOUS
  <2>2. m \in Nat /\ n \in Nat
    BY <2>1, LedgerAssumption DEF TypeOK
  <2>3. Worth[d] = m * n
    BY <2>1 DEF Worth
  <2> QED BY <2>2, <2>3
<1> QED BY <1>1, <1>2, SumType

LEMMA WorthTypeNext == ASSUME TypeOK' PROVE \A d \in Deposits : Worth'[d] \in Nat
<1> SUFFICES ASSUME NEW d \in Deposits PROVE Worth'[d] \in Nat
  OBVIOUS
<1>1. PICK m, n : m = rows'[d] /\ n = Points[d]
  OBVIOUS
<1>2. m \in Nat /\ n \in Nat
  BY <1>1, LedgerAssumption DEF TypeOK
<1>3. Worth'[d] = m * n
  BY <1>1 DEF Worth
<1> QED BY <1>2, <1>3

(* Nothing has been deposited.                                              *)
LEMMA BooksInit == Init => BooksBalance
<1> SUFFICES ASSUME Init, NEW u \in Users
             PROVE  balance[u] >= 0 /\ balance[u] + spent[u] = Deposited(u)
  BY DEF BooksBalance
<1>1. PICK S, f : S = {d \in Deposits : UserOf[d] = u} /\ f = Worth
  OBVIOUS
<1>2. IsFiniteSet(S) /\ S \subseteq Deposits
  BY <1>1, LedgerAssumption, FS_Subset
<1>3. \A d \in S : f[d] = 0
  <2> SUFFICES ASSUME NEW d \in S PROVE f[d] = 0
    OBVIOUS
  <2>1. rows[d] = 0 /\ Points[d] \in Nat /\ f[d] = rows[d] * Points[d]
    BY <1>1, <1>2, LedgerAssumption DEF Init, Worth
  <2> QED BY <2>1
<1>4. Deposited(u) = 0
  BY <1>1, <1>2, <1>3, SumZero DEF Deposited
<1> QED BY <1>4 DEF Init

(* A commit adds one row, of an event without one, and credits its user.    *)
LEMMA CreditKeepsBooks ==
  ASSUME LedgerInv, BooksBalance, NEW d \in Deposits, CreditCommits(d)
  PROVE  BooksBalance'
<1> SUFFICES ASSUME NEW u \in Users
             PROVE  balance'[u] >= 0 /\ balance'[u] + spent'[u] = Deposited(u)'
  BY DEF BooksBalance
<1> USE DEF LedgerInv
<1>1. PICK S, f, g : /\ S = {e \in Deposits : UserOf[e] = u}
                     /\ f = Worth /\ g = Worth'
  OBVIOUS
<1>2. /\ S \subseteq Deposits /\ IsFiniteSet(S) /\ IsFiniteSet(S \cup {d})
      /\ Deposited(u) = SumFunctionOnSet(f, S) /\ Deposited(u)' = SumFunctionOnSet(g, S)
  <2>1. S \subseteq Deposits /\ S \cup {d} \subseteq Deposits
    BY <1>1
  <2> QED BY <1>1, <2>1, LedgerAssumption, FS_Subset DEF Deposited
<1>3. TypeOK'
  BY CreditCommitsInv
<1>4. \A e \in Deposits : f[e] \in Nat /\ g[e] \in Nat
  BY <1>1, <1>3, WorthType, WorthTypeNext
<1>5. rows[d] = 0 /\ rows' = [rows EXCEPT ![d] = @ + 1] /\ Points[d] \in Nat
  BY LedgerAssumption DEF TypeOK, CreditCommits, TxHashUnused
<1>6. f[d] = 0 /\ g[d] = Points[d] /\ \A e \in Deposits : e # d => f[e] = g[e]
  <2>1. rows'[d] = 1 /\ \A e \in Deposits : e # d => rows'[e] = rows[e]
    BY <1>5 DEF TypeOK
  <2>2. f[d] = 0 * Points[d] /\ g[d] = 1 * Points[d]
    BY <1>1, <1>5, <2>1 DEF Worth
  <2>3. \A e \in Deposits : e # d => f[e] = g[e]
    BY <1>1, <2>1 DEF Worth
  <2> QED BY <1>5, <2>2, <2>3
<1>7. PICK before, after, b, sp, pts :
        /\ before = SumFunctionOnSet(f, S) /\ after = SumFunctionOnSet(g, S)
        /\ b = balance[u] /\ sp = spent[u] /\ pts = Points[d]
  OBVIOUS
<1>8. /\ b \in Nat /\ sp \in Nat /\ pts \in Nat /\ before \in Nat /\ after \in Nat
      /\ b + sp = before /\ spent'[u] = sp
  <2>1. before \in Nat /\ after \in Nat
    BY <1>2, <1>4, <1>7, SumType
  <2>2. b + sp = before
    BY <1>2, <1>7 DEF BooksBalance
  <2>3. b \in Nat /\ sp \in Nat /\ spent'[u] = sp
    BY <1>7 DEF TypeOK, CreditCommits
  <2> QED BY <1>5, <1>7, <2>1, <2>2, <2>3
<1>9. CASE UserOf[d] = u
  <2>1. d \in S /\ \A e \in S \ {d} : f[e] = g[e]
    BY <1>1, <1>2, <1>6, <1>9
  <2>2. after + f[d] = before + g[d]
    BY <1>2, <1>4, <1>7, <2>1, SumOneChanged
  <2>3. balance'[u] = b + pts
    BY <1>7, <1>9 DEF CreditCommits
  <2>4. after = before + pts
    BY <1>6, <1>7, <1>8, <2>2
  <2> QED BY <1>2, <1>7, <1>8, <2>3, <2>4
<1>10. CASE UserOf[d] # u
  <2>1. \A e \in S : f[e] = g[e]
    BY <1>1, <1>6, <1>10
  <2>2. after = before
    BY <1>2, <1>7, <2>1, SumSame
  <2>3. balance'[u] = b
    BY <1>7, <1>8, <1>10 DEF CreditCommits
  <2> QED BY <1>2, <1>7, <1>8, <2>2, <2>3
<1> QED BY <1>9, <1>10

(* A payment moves points from the balance to what is spent.                *)
LEMMA SubscribeKeepsBooks ==
  ASSUME LedgerInv, BooksBalance, NEW r \in Requests, SubscribePays(r)
  PROVE  BooksBalance'
<1> SUFFICES ASSUME NEW u \in Users
             PROVE  balance'[u] >= 0 /\ balance'[u] + spent'[u] = Deposited(u)'
  BY DEF BooksBalance
<1>1. rows' = rows
  BY DEF SubscribePays
<1>2. Deposited(u)' = Deposited(u)
  BY <1>1 DEF Deposited, Worth
<1>3. balance[u] \in Nat /\ spent[u] \in Nat /\ balance[u] + spent[u] = Deposited(u)
  BY DEF LedgerInv, TypeOK, BooksBalance
<1>4. CASE UNCHANGED userVars
  BY <1>2, <1>3, <1>4 DEF userVars
<1>5. CASE /\ BalanceStaysPositive(r)
           /\ balance' = [balance EXCEPT ![Subscriber[r]] = @ - Price[r]]
           /\ spent' = [spent EXCEPT ![Subscriber[r]] = @ + Price[r]]
  <2>1. Price[r] \in Nat /\ Subscriber[r] \in Users
    BY LedgerAssumption
  <2>2. CASE u = Subscriber[r]
    <3>1. balance'[u] = balance[u] - Price[r] /\ spent'[u] = spent[u] + Price[r]
      BY <1>5, <2>1, <2>2 DEF LedgerInv, TypeOK
    <3>2. balance[u] - Price[r] >= 0
      BY <1>5, <2>2 DEF BalanceStaysPositive
    <3>3. balance'[u] + spent'[u] = balance[u] + spent[u]
      BY <1>3, <2>1, <3>1
    <3> QED BY <1>2, <1>3, <3>1, <3>2, <3>3
  <2>3. CASE u # Subscriber[r]
    <3>1. balance'[u] = balance[u] /\ spent'[u] = spent[u]
      BY <1>5, <2>1, <2>3 DEF LedgerInv, TypeOK
    <3> QED BY <1>2, <1>3, <3>1
  <2> QED BY <2>2, <2>3
<1> QED BY <1>4, <1>5 DEF SubscribePays

(* No other step touches a row or an account.                               *)
LEMMA BooksNext == LedgerInv /\ BooksBalance /\ [Next]_vars => BooksBalance'
<1> SUFFICES ASSUME LedgerInv, BooksBalance, [Next]_vars PROVE BooksBalance'
  OBVIOUS
<1>1. CASE \E d \in Deposits : CreditCommits(d)
  BY <1>1, CreditKeepsBooks
<1>2. CASE \E r \in Requests : SubscribePays(r)
  BY <1>2, SubscribeKeepsBooks
<1>3. CASE UNCHANGED <<rows, balance, spent>>
  BY <1>3 DEF BooksBalance, Deposited, Worth
<1>4. \/ \E d \in Deposits : CreditCommits(d)
      \/ \E r \in Requests : SubscribePays(r)
      \/ UNCHANGED <<rows, balance, spent>>
  <2>1. ASSUME NEW d \in Deposits, CheckEvent(d) \/ EventFails(d) \/ RecordEvent(d)
        PROVE  UNCHANGED <<rows, balance, spent>>
    BY <2>1 DEF CheckEvent, EventFails, RecordEvent, userVars
  <2>2. ASSUME PollInitialises \/ PollScans \/ PollEnds
        PROVE  UNCHANGED <<rows, balance, spent>>
    BY <2>2 DEF PollInitialises, PollScans, PollEnds, userVars
  <2>3. ASSUME NEW r \in Requests, SubscribeChecks(r)
        PROVE  UNCHANGED <<rows, balance, spent>>
    BY <2>3 DEF SubscribeChecks, userVars
  <2>4. ASSUME MineBlock \/ Crash \/ UNCHANGED vars
        PROVE  UNCHANGED <<rows, balance, spent>>
    BY <2>4 DEF MineBlock, Crash, vars, userVars
  <2> QED BY <2>1, <2>2, <2>3, <2>4 DEF Next, ListenerStep, RequestStep
<1> QED BY <1>1, <1>2, <1>3, <1>4

----------------------------------------------------------------------------
(* Every step preserves the invariant.                                      *)
LEMMA LedgerNextInv == LedgerInv /\ [Next]_vars => LedgerInv'
  BY CreditCommitsInv, RecordEventInv, ListenerInv, OutsideInv DEF Next, ListenerStep

(* The invariant holds throughout.                                          *)
LEMMA LedgerInvariant == Spec => []LedgerInv
  BY LedgerInitInv, LedgerNextInv, PTL DEF Spec

(* Every variable keeps its type; in particular no balance goes below zero, *)
(* however many requests of a user run at once.                             *)
THEOREM LedgerTypeCorrect == Spec => []TypeOK
<1>1. LedgerInv => TypeOK
  BY DEF LedgerInv
<1> QED BY <1>1, LedgerInvariant, PTL

(* No vault transaction is credited twice, however often crashes and failed *)
(* writes make the listener scan its block again.                           *)
THEOREM LedgerCreditedAtMostOnce == Spec => []CreditedAtMostOnce
<1>1. LedgerInv => CreditedAtMostOnce
  BY DEF LedgerInv
<1> QED BY <1>1, LedgerInvariant, PTL

(* RecordDepositEvent never marks a transaction whose points were not       *)
(* credited.                                                                *)
THEOREM LedgerProcessedImpliesCredited == Spec => []ProcessedImpliesCredited
<1>1. LedgerInv => ProcessedImpliesCredited
  BY DEF LedgerInv
<1> QED BY <1>1, LedgerInvariant, PTL

(* What a user has and has spent is what the DEPOSIT rows are worth: no     *)
(* interleaving of the listener, its crashes and the subscribe requests     *)
(* creates, loses or overdraws a point.                                     *)
THEOREM LedgerBooksBalance == Spec => []BooksBalance
  BY LedgerInitInv, LedgerNextInv, BooksInit, BooksNext, PTL DEF Spec
=============================================================================
