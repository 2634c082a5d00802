--------------------- MODULE MCFetcherOverRetryingClient ---------------------
(* An index of two hits, read a page of one hit at a time.                    *)
EXTENDS FetcherOverRetryingClient

CONSTANTS a, b

MCAgentConfigs == {a, b}
MCIndex == [r \in 0..MaxRev |-> <<a, b>>]
=============================================================================
