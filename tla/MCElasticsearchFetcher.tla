----------------------- MODULE MCElasticsearchFetcher -----------------------
(* Small instances of ElasticsearchFetcher.  The index grows from one page to *)
(* two and shrinks to none, so that a refresh takes up to three requests and  *)
(* a later cache is longer or shorter than the one it replaces.               *)
EXTENDS ElasticsearchFetcher, TLC

CONSTANTS a, b, d

MCAgentConfigs == {a, b, d}
MCIndex == [r \in 0..MaxRev |-> CASE r = 0 -> <<a>> [] r = 1 -> <<b, d>> [] OTHER -> <<>>]
Symmetry == Permutations(Clients) \cup Permutations(ScrollIds)
=============================================================================
