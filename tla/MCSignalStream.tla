---------------------------- MODULE MCSignalStream ----------------------------
(* Four configurations, each with the events its question needs: two V2        *)
(* streams of one user race for the cache entry, one V2 stream filters, a      *)
(* stream of one node next to a public one is where channels fill up and       *)
(* clients leave while others are served, and of two public streams the second *)
(* comes from the address of the first.                                        *)
EXTENDS SignalStream, TLC

CONSTANTS p1, s1, s2, anAddress

TwoOfOneUser == s1 :> "v2" @@ s2 :> "v2"
Filtered == s1 :> "v2" @@ s2 :> "none"
Unfiltered == s1 :> "node" @@ s2 :> "public"
SameAddress == s1 :> "public" @@ s2 :> "public"

MCMaxEvents ==
    TwoOfOneUser :> 0 @@ Filtered :> 1 @@ Unfiltered :> 3 @@ SameAddress :> 2
MCConfigurations == DOMAIN MCMaxEvents
MCNodeAsked == [s \in Sessions |-> [provider |-> p1, spelled |-> "lower"]]
MCRemoteAddr == [s \in Sessions |-> anAddress]
=============================================================================
