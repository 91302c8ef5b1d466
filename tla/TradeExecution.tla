--------------------------- MODULE TradeExecution ---------------------------
(***************************************************************************)
(* What the sentinel's two executors have in common: the calls of          *)
(* executeSignal, the TradeExecution record each of them fills in, and the *)
(* execution history that getStats counts.                                 *)
(*                                                                         *)
(* A call is identified by the stream event it handles: the n-th time the  *)
(* platform streams a signal as ACTIVE.  Calls overlap in the event loop:  *)
(* every await of a call is a point where another call may run.            *)
(***************************************************************************)
EXTENDS SentinelTypes

VARIABLES
    pc,                     \* where each call of executeSignal stands
    result,                 \* how each call ended: status and error of its record
    history                 \* executionHistory, as the entries of each status

execVars == <<pc, result, history>>

Calls == Signals \X (1..MaxPublished)
SignalOf(c) == c[1]

\* preparing and sending the order, or waiting for the keeper; in between the
\* awaits a call does not give way, so these are the only places others run
Awaiting == {"order", "wait"}
Stages == {"idle", "returned", "done", "threw"} \union Awaiting

Results == {"none", "executed", "failed"}      \* the record's status

InFlight == {c \in Calls : pc[c] \in Awaiting}
Executed == {c \in Calls : result[c] = "executed"}
Failed == {c \in Calls : result[c] = "failed"}

\* push the finished record on the history and return it to handleSignal
Conclude(c, r) ==
    /\ pc' = [pc EXCEPT ![c] = "returned"]
    /\ result' = [result EXCEPT ![c] = r]
    /\ history' = IF r = "executed"
                  THEN [history EXCEPT !.executed = @ + 1]
                  ELSE [history EXCEPT !.failed = @ + 1]

\* BigInt(NaN) throws before there is a record: the caller gets an exception
Throw(c) ==
    /\ pc' = [pc EXCEPT ![c] = "threw"]
    /\ UNCHANGED <<result, history>>

Await(c, stage) ==
    /\ pc' = [pc EXCEPT ![c] = stage]
    /\ UNCHANGED <<result, history>>

ExecInit ==
    /\ pc = [c \in Calls |-> "idle"]
    /\ result = [c \in Calls |-> "none"]
    /\ history = [executed |-> 0, failed |-> 0]

\* a new process: the history is gone with the old one
ExecReset ==
    /\ pc' = [c \in Calls |-> "idle"]
    /\ result' = [c \in Calls |-> "none"]
    /\ history' = [executed |-> 0, failed |-> 0]

ExecTypeOK ==
    /\ pc \in [Calls -> Stages]
    /\ result \in [Calls -> Results]
    /\ history \in [executed : Nat, failed : Nat]
=============================================================================
