---------------------- MODULE FetcherOverRetryingClient ----------------------
(***************************************************************************)
(* ElasticsearchFetcher over the client of configelasticsearch, whose      *)
(* transport sends a request again when its answer is lost                 *)
(* (src/config/configelasticsearch/esclient.go:126-142).  A scroll request *)
(* is not idempotent: Elasticsearch has moved the scroll on, and the       *)
(* second sending is answered with the page after the lost one.            *)
(***************************************************************************)
EXTENDS ElasticsearchFetcher

\* The answer to a scroll request is lost, the transport sends it again, and
\* singlePageRefresh sees only the second answer.
ScrollRetried ==
    LET r == scrolls[scrollID].rev
        lost == PageEnd(r, scrolls[scrollID].pos)
    IN  /\ pc = "request" /\ scrollID # NoScroll /\ ~Aborted
        /\ scrollID \in Open
        /\ scrolls' = [scrolls EXCEPT ![scrollID] = [rev |-> r, pos |-> PageEnd(r, lost)]]
        /\ buffer' = [buffer EXCEPT !.hits = @ \o Page(r, lost)]
        /\ pc' = IF Page(r, lost) = <<>> THEN "clearOk" ELSE "request"
        /\ UNCHANGED <<rev, scrollID, expired, ctxDone, sharedVars, clientVars,
                       beginRev, orphans>>

RetryNext == Next \/ ScrollRetried

RetrySpec == Init /\ [][RetryNext]_vars

\* What TestRefreshCacheScroll requires of a refresh that pages through a scroll
\* without an error (elasticsearch_test.go:125-131): the cache holds the hits of
\* every page.
RefreshKeepsEveryPage ==
    pc = "mark" => cache.arr.hits = Index[cache.arr.rev]
=============================================================================
