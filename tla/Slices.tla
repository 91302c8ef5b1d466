------------------------------- MODULE Slices -------------------------------
(* The loop that fills a slice with the elements of another that pass a     *)
(* test, in order: filterAfter of internal/ratelimit/limiter.go and         *)
(* getVerifiedAgents of contracts/AgentRegistry.sol.                        *)
EXTENDS Naturals, Sequences

Keep(list, wanted) ==
  LET kept[i \in 0 .. Len(list)] ==
        IF i = 0 THEN <<>>
        ELSE IF list[i] \in wanted THEN Append(kept[i - 1], list[i]) ELSE kept[i - 1]
  IN kept[Len(list)]
=============================================================================
