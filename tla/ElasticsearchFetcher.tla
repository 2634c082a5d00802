------------------------ MODULE ElasticsearchFetcher ------------------------
(***************************************************************************)
(* ElasticsearchFetcher (src/agentcfg/elasticsearch.go): one goroutine in  *)
(* Run refreshes a cache from an Elasticsearch index, page by page through *)
(* a scroll, while the goroutines of Clients call Fetch.                   *)
(*                                                                         *)
(* Atomicity.  A step is one statement that touches shared state: an       *)
(* atomic load or store, a lock operation with the first of the two words  *)
(* of the slice header f.cache that matter (array pointer, length), or one *)
(* request to Elasticsearch with its outcome.  A slice header is not read  *)
(* or written at once, which is why the code needs f.mu.                   *)
(*                                                                         *)
(* Elasticsearch is external: revisions of one index and open scrolls,     *)
(* each a cursor over the revision its search saw.  A request whose reply  *)
(* is late has, for the fetcher, the outcome of one whose reply is lost.   *)
(***************************************************************************)
EXTENDS Integers, Sequences, FiniteSets

CONSTANTS
    Clients,         \* goroutines calling Fetch
    AgentConfigs,    \* documents an index may hold
    MaxRev,          \* bound: number of changes of the index
    Index,           \* contents of the index at each revision
    SearchSize,      \* searchSize, hits in a page
    ScrollIds,       \* bound: scrolls open at once
    NoScroll         \* the empty scroll id

ASSUME MaxRevAssumption == MaxRev \in Nat
ASSUME IndexAssumption == Index \in [0..MaxRev -> Seq(AgentConfigs)]
ASSUME SearchSizeAssumption == SearchSize \in Nat \ {0}
ASSUME NoScrollAssumption == NoScroll \notin ScrollIds

VARIABLES
    \* Elasticsearch
    rev,               \* revision the index is at
    scrolls,           \* for each scroll id, the revision it pages through and how far
    \* Run and refreshCache
    pc,                \* where Run is
    scrollID,          \* scrollID of refreshCache
    buffer,            \* buffer of refreshCache: [rev, hits], rev being a ghost
    expired,           \* the context of refreshCache has timed out
    ctxDone,           \* the context of Run has been cancelled
    \* the fetcher
    cache,             \* f.cache: [arr, len], arr being a former buffer
    cacheInitialized,
    invalidESCfg,
    \* Fetch
    cpc,               \* where each client is
    hdr,               \* the array each client has read from f.cache
    ans,               \* the last answer each client got
    \* ghosts
    beginRev,          \* revision of the index when the refresh began
    orphans            \* open scrolls the fetcher cannot clear any more

esVars == <<rev, scrolls>>
runVars == <<pc, scrollID, buffer, expired, ctxDone>>
sharedVars == <<cache, cacheInitialized, invalidESCfg>>
clientVars == <<cpc, hdr, ans>>
vars == <<rev, scrolls, pc, scrollID, buffer, expired, ctxDone, cache,
          cacheInitialized, invalidESCfg, cpc, hdr, ans, beginRev, orphans>>

NoRev == -1
Revs == 0..MaxRev

\* An array of configurations; rev says which revision it was filled from.
Array == [rev : Revs \cup {NoRev}, hits : Seq(AgentConfigs)]
NilArray == [rev |-> NoRev, hits |-> <<>>]

Cursor == [rev : Revs \cup {NoRev}, pos : Nat]
Closed == [rev |-> NoRev, pos |-> 0]
Open == {s \in ScrollIds : scrolls[s].rev # NoRev}

\* Run before its first select, waiting for an answer to a search or scroll
\* request, to the request that clears the scroll after success or after an
\* error, blocked in Lock, between the two writes of f.cache, before the Store
\* of cacheInitialized, in the select of its loop, returned nil or ctx.Err().
RunState == {"start", "request", "clearOk", "clearErr", "lock", "write", "mark",
             "idle", "stopped", "cancelled"}
Refreshing == {"request", "clearOk", "clearErr", "lock", "write", "mark"}

\* Not in Fetch, before RLock, holding the read lock with the array read, or
\* past the first test of Fetch and about to load invalidESCfg.
ClientState == {"idle", "rlock", "read", "loadInvalid"}

AnswerKind == {"none", "ok", "notReady", "invalid"}
Answer == [kind : AnswerKind, rev : Revs \cup {NoRev}, hits : Seq(AgentConfigs), len : Nat]
NoAnswer == [kind |-> "none", rev |-> NoRev, hits |-> <<>>, len |-> 0]

\* The context refreshCache gives its requests is done.
Aborted == expired \/ ctxDone

PageEnd(r, p) == IF p + SearchSize <= Len(Index[r]) THEN p + SearchSize ELSE Len(Index[r])

\* The hits after position p of revision r, at most SearchSize of them.
Page(r, p) == SubSeq(Index[r], p + 1, PageEnd(r, p))

Init ==
    /\ rev = 0
    /\ scrolls = [s \in ScrollIds |-> Closed]
    /\ pc = "start"
    /\ scrollID = NoScroll
    /\ buffer = NilArray
    /\ expired = FALSE
    /\ ctxDone = FALSE
    /\ cache = [arr |-> NilArray, len |-> 0]
    /\ cacheInitialized = FALSE
    /\ invalidESCfg = FALSE
    /\ cpc = [c \in Clients |-> "idle"]
    /\ hdr = [c \in Clients |-> NilArray]
    /\ ans = [c \in Clients |-> NoAnswer]
    /\ beginRev = 0
    /\ orphans = {}

-----------------------------------------------------------------------------
(* Run and refreshCache                                                    *)

\* Mutant: the loop of Run does not look at its context.
RunCancelledAtStart ==
    /\ pc = "start" /\ ctxDone
    /\ pc' = "cancelled"
    /\ UNCHANGED <<esVars, scrollID, buffer, expired, ctxDone, sharedVars, clientVars,
                   beginRev, orphans>>

\* A select of Run takes the branch of ctx.Done().
RunCancelled ==
    /\ pc \in {"start", "idle"}
    /\ ctxDone
    /\ pc' = "cancelled"
    /\ UNCHANGED <<esVars, scrollID, buffer, expired, ctxDone, sharedVars, clientVars,
                   beginRev, orphans>>

\* Mutant: a refresh goes on with the scroll and the hits of the one before.
BeginRefreshResumes ==
    /\ \/ pc = "idle"
       \/ pc = "start" /\ ~ctxDone
    /\ pc' = "request"
    /\ expired' = FALSE
    /\ beginRev' = rev
    /\ UNCHANGED <<esVars, scrollID, buffer, ctxDone, sharedVars, clientVars, orphans>>

\* Mutant: the ticker fires once.
BeginRefreshOnce ==
    /\ pc = "start" /\ ~ctxDone
    /\ pc' = "request"
    /\ scrollID' = NoScroll
    /\ buffer' = NilArray
    /\ expired' = FALSE
    /\ beginRev' = rev
    /\ UNCHANGED <<esVars, ctxDone, sharedVars, clientVars, orphans>>

\* refreshCache begins: in the first select only if the context is not done, at
\* a tick whether it is done or not, since select chooses freely among ready
\* branches.
BeginRefresh ==
    /\ \/ pc = "idle"
       \/ pc = "start" /\ ~ctxDone
    /\ pc' = "request"
    /\ scrollID' = NoScroll
    /\ buffer' = NilArray
    /\ expired' = FALSE
    /\ beginRev' = rev
    /\ UNCHANGED <<esVars, ctxDone, sharedVars, clientVars, orphans>>

\* The first request opens a scroll and answers its first page.
SearchPage ==
    /\ pc = "request" /\ scrollID = NoScroll /\ ~Aborted
    /\ \E s \in ScrollIds \ Open :
        /\ scrolls' = [scrolls EXCEPT ![s] = [rev |-> rev, pos |-> PageEnd(rev, 0)]]
        /\ scrollID' = s
    /\ buffer' = [rev |-> rev, hits |-> Page(rev, 0)]
    /\ pc' = IF Page(rev, 0) = <<>> THEN "clearOk" ELSE "request"
    /\ UNCHANGED <<rev, expired, ctxDone, sharedVars, clientVars, beginRev, orphans>>

\* Elasticsearch moves scroll s on by a page, under the same id or a new one.
MoveScroll(s, next) ==
    LET r == scrolls[s].rev
        p == scrolls[s].pos
    IN  /\ s \in Open
        /\ next = s \/ next \in ScrollIds \ Open
        /\ scrolls' = [scrolls EXCEPT ![s] = Closed,
                                      ![next] = [rev |-> r, pos |-> PageEnd(r, p)]]

\* A further request answers the next page; an empty one ends the loop.
ScrollPage ==
    /\ pc = "request" /\ scrollID # NoScroll /\ ~Aborted
    /\ \E next \in ScrollIds : MoveScroll(scrollID, next) /\ scrollID' = next
    /\ LET page == Page(scrolls[scrollID].rev, scrolls[scrollID].pos)
       IN  /\ buffer' = [buffer EXCEPT !.hits = @ \o page]
           /\ pc' = IF page = <<>> THEN "clearOk" ELSE "request"
    /\ UNCHANGED <<rev, expired, ctxDone, sharedVars, clientVars, beginRev, orphans>>

\* Mutant: an error returns without clearScroll.
PageFailedReturns ==
    /\ pc = "request"
    /\ pc' = IF invalidESCfg THEN "stopped" ELSE "idle"
    /\ UNCHANGED <<esVars, scrollID, buffer, expired, ctxDone, sharedVars, clientVars,
                   beginRev, orphans>>

\* Mutant: an error ends the loop and the hits received so far are published.
PageFailedPublishes ==
    /\ pc = "request"
    /\ pc' = "clearOk"
    /\ UNCHANGED <<esVars, scrollID, buffer, expired, ctxDone, sharedVars, clientVars,
                   beginRev, orphans>>

\* The request has no effect: an error of the transport, the context done, a
\* status >= 400 other than 401 and 403.
PageFailed ==
    /\ pc = "request"
    /\ pc' = "clearErr"
    /\ UNCHANGED <<esVars, scrollID, buffer, expired, ctxDone, sharedVars, clientVars,
                   beginRev, orphans>>

\* Elasticsearch answers 401 or 403.
PageDenied ==
    /\ pc = "request" /\ ~Aborted
    /\ invalidESCfg' = TRUE
    /\ pc' = "clearErr"
    /\ UNCHANGED <<esVars, scrollID, buffer, expired, ctxDone, cache, cacheInitialized,
                   clientVars, beginRev, orphans>>

\* Elasticsearch executes the search or scroll request and its answer is lost,
\* or cannot be decoded: an id it carried stays unknown.
PageLost ==
    /\ pc = "request" /\ ~Aborted
    /\ \/ /\ scrollID = NoScroll
          /\ \E s \in ScrollIds \ Open :
                /\ scrolls' = [scrolls EXCEPT ![s] = [rev |-> rev, pos |-> PageEnd(rev, 0)]]
                /\ orphans' = orphans \cup {s}
       \/ /\ scrollID # NoScroll
          /\ \E next \in ScrollIds :
                /\ MoveScroll(scrollID, next)
                /\ orphans' = orphans \cup ({next} \ {scrollID})
    /\ pc' = "clearErr"
    /\ UNCHANGED <<rev, scrollID, buffer, expired, ctxDone, sharedVars, clientVars, beginRev>>

\* What follows clearScroll: the cache is replaced after success; after an error
\* Run stops for good if the configuration has been found invalid.
AfterClear ==
    pc' = CASE pc = "clearOk" -> "lock"
            [] pc = "clearErr" /\ invalidESCfg -> "stopped"
            [] pc = "clearErr" /\ ~invalidESCfg -> "idle"

\* clearScroll reaches Elasticsearch; with the empty id, after a first request
\* that failed, it is answered with an error.
ClearScroll ==
    /\ pc \in {"clearOk", "clearErr"} /\ ~Aborted
    /\ scrolls' = [s \in ScrollIds |-> IF s = scrollID THEN Closed ELSE scrolls[s]]
    /\ AfterClear
    /\ UNCHANGED <<rev, scrollID, buffer, expired, ctxDone, sharedVars, clientVars,
                   beginRev, orphans>>

\* clearScroll fails, as it must once the context is done; it is only logged.
ClearFailed ==
    /\ pc \in {"clearOk", "clearErr"}
    /\ orphans' = orphans \cup ({scrollID} \cap Open)
    /\ AfterClear
    /\ UNCHANGED <<esVars, scrollID, buffer, expired, ctxDone, sharedVars, clientVars, beginRev>>

Readers == {c \in Clients : cpc[c] = "read"}

\* Lock returns once no reader is left; the first word of f.cache is written.
WriteArray ==
    /\ pc = "lock"
    /\ Readers = {}
    /\ cache' = [cache EXCEPT !.arr = buffer]
    /\ pc' = "write"
    /\ UNCHANGED <<esVars, scrollID, buffer, expired, ctxDone, cacheInitialized, invalidESCfg,
                   clientVars, beginRev, orphans>>

\* Mutant: the length is one short.
WriteLenShort ==
    /\ pc = "write"
    /\ cache' = [cache EXCEPT !.len = Len(buffer.hits) - 1]
    /\ pc' = "mark"
    /\ UNCHANGED <<esVars, scrollID, buffer, expired, ctxDone, cacheInitialized, invalidESCfg,
                   clientVars, beginRev, orphans>>

\* The second word, and Unlock.
WriteLen ==
    /\ pc = "write"
    /\ cache' = [cache EXCEPT !.len = Len(buffer.hits)]
    /\ pc' = "mark"
    /\ UNCHANGED <<esVars, scrollID, buffer, expired, ctxDone, cacheInitialized, invalidESCfg,
                   clientVars, beginRev, orphans>>

\* cacheInitialized.Store(true); refreshCache returns without an error.
MarkInitialized ==
    /\ pc = "mark"
    /\ cacheInitialized' = TRUE
    /\ pc' = "idle"
    /\ UNCHANGED <<esVars, scrollID, buffer, expired, ctxDone, cache, invalidESCfg,
                   clientVars, beginRev, orphans>>

-----------------------------------------------------------------------------
(* Fetch                                                                   *)

\* Mutant: the two tests of Fetch are swapped.
FetchBeginSwapped(c) ==
    /\ cpc[c] = "idle"
    /\ cpc' = [cpc EXCEPT ![c] =
                 IF cacheInitialized /\ ~invalidESCfg THEN "rlock" ELSE "loadInvalid"]
    /\ UNCHANGED <<esVars, runVars, sharedVars, hdr, ans, beginRev, orphans>>

\* Fetch loads cacheInitialized.
FetchBegin(c) ==
    /\ cpc[c] = "idle"
    /\ cpc' = [cpc EXCEPT ![c] = IF cacheInitialized THEN "rlock" ELSE "loadInvalid"]
    /\ UNCHANGED <<esVars, runVars, sharedVars, hdr, ans, beginRev, orphans>>

\* Mutant: Fetch takes no lock.
FetchWithoutLock(c) ==
    /\ cpc[c] = "rlock"
    /\ hdr' = [hdr EXCEPT ![c] = cache.arr]
    /\ cpc' = [cpc EXCEPT ![c] = "read"]
    /\ UNCHANGED <<esVars, runVars, sharedVars, ans, beginRev, orphans>>

\* Mutant: a lock whose readers overtake a writer that waits.
FetchRLockOvertakes(c) ==
    /\ cpc[c] = "rlock"
    /\ pc # "write"
    /\ hdr' = [hdr EXCEPT ![c] = cache.arr]
    /\ cpc' = [cpc EXCEPT ![c] = "read"]
    /\ UNCHANGED <<esVars, runVars, sharedVars, ans, beginRev, orphans>>

\* RLock, which a Lock held or waiting excludes, and the first word of f.cache.
FetchRLock(c) ==
    /\ cpc[c] = "rlock"
    /\ pc \notin {"lock", "write"}
    /\ hdr' = [hdr EXCEPT ![c] = cache.arr]
    /\ cpc' = [cpc EXCEPT ![c] = "read"]
    /\ UNCHANGED <<esVars, runVars, sharedVars, ans, beginRev, orphans>>

\* Mutant: RLock is taken again while the first one is held.
FetchReadLocksTwice(c) ==
    /\ cpc[c] = "read"
    /\ pc # "lock"
    /\ ans' = [ans EXCEPT ![c] = [kind |-> "ok", rev |-> hdr[c].rev,
                                  hits |-> hdr[c].hits, len |-> cache.len]]
    /\ cpc' = [cpc EXCEPT ![c] = "idle"]
    /\ UNCHANGED <<esVars, runVars, sharedVars, hdr, beginRev, orphans>>

\* The second word; matchAgentConfig runs over that slice, and RUnlock.
FetchRead(c) ==
    /\ cpc[c] = "read"
    /\ ans' = [ans EXCEPT ![c] = [kind |-> "ok", rev |-> hdr[c].rev,
                                  hits |-> hdr[c].hits, len |-> cache.len]]
    /\ cpc' = [cpc EXCEPT ![c] = "idle"]
    /\ UNCHANGED <<esVars, runVars, sharedVars, hdr, beginRev, orphans>>

\* Fetch loads invalidESCfg and returns one of its two errors.
LoadInvalid(c) ==
    /\ cpc[c] = "loadInvalid"
    /\ ans' = [ans EXCEPT ![c] =
                 [NoAnswer EXCEPT !.kind = IF invalidESCfg THEN "invalid" ELSE "notReady"]]
    /\ cpc' = [cpc EXCEPT ![c] = "idle"]
    /\ UNCHANGED <<esVars, runVars, sharedVars, hdr, beginRev, orphans>>

-----------------------------------------------------------------------------
(* The environment                                                         *)

\* The configurations are edited; open scrolls do not see it.
IndexChange ==
    /\ rev < MaxRev
    /\ rev' = rev + 1
    /\ UNCHANGED <<scrolls, runVars, sharedVars, clientVars, beginRev, orphans>>

\* The keep-alive of scroll s has passed.
ScrollExpires(s) ==
    /\ s \in Open
    /\ scrolls' = [scrolls EXCEPT ![s] = Closed]
    /\ orphans' = orphans \ {s}
    /\ UNCHANGED <<rev, runVars, sharedVars, clientVars, beginRev>>

\* refreshCacheTimeout has passed since refreshCache began.
Deadline ==
    /\ pc \in {"request", "clearOk", "clearErr"}
    /\ ~expired
    /\ expired' = TRUE
    /\ UNCHANGED <<esVars, pc, scrollID, buffer, ctxDone, sharedVars, clientVars,
                   beginRev, orphans>>

\* The caller of Run cancels its context.
Cancel ==
    /\ ~ctxDone
    /\ ctxDone' = TRUE
    /\ UNCHANGED <<esVars, pc, scrollID, buffer, expired, sharedVars, clientVars,
                   beginRev, orphans>>

-----------------------------------------------------------------------------
Run ==
    \/ RunCancelled \/ BeginRefresh
    \/ SearchPage \/ ScrollPage \/ PageFailed \/ PageDenied \/ PageLost
    \/ ClearScroll \/ ClearFailed
    \/ WriteArray \/ WriteLen \/ MarkInitialized

Fetch(c) == FetchBegin(c) \/ FetchRLock(c) \/ FetchRead(c) \/ LoadInvalid(c)

Environment == IndexChange \/ (\E s \in ScrollIds : ScrollExpires(s)) \/ Deadline \/ Cancel

Next == Run \/ (\E c \in Clients : Fetch(c)) \/ Environment

Spec == Init /\ [][Next]_vars

\* The ticker and the goroutine of Run go on; a select that finds its context
\* done again and again picks that branch some day (it chooses at random); time
\* passes, and a request whose context is done returns.  Goroutines in Fetch are
\* scheduled, and RWMutex admits the readers that wait when the writer unlocks,
\* before the next writer.  Elasticsearch forgets scrolls nobody uses.  Nothing
\* makes Elasticsearch answer, and nobody has to call Fetch or Cancel.
Fairness ==
    /\ WF_vars(BeginRefresh) /\ SF_vars(RunCancelled)
    /\ WF_vars(Deadline)
    /\ WF_vars(Aborted /\ PageFailed) /\ WF_vars(Aborted /\ ClearFailed)
    /\ WF_vars(WriteArray) /\ WF_vars(WriteLen) /\ WF_vars(MarkInitialized)
    /\ \A c \in Clients :
        SF_vars(FetchRLock(c)) /\ WF_vars(FetchRead(c)) /\ WF_vars(LoadInvalid(c))
    /\ WF_vars(\E s \in orphans : ScrollExpires(s))

FairSpec == Spec /\ Fairness

-----------------------------------------------------------------------------
(* Properties                                                              *)

\* Every variable has its type.
TypeOK ==
    /\ rev \in Revs /\ beginRev \in Revs
    /\ scrolls \in [ScrollIds -> Cursor]
    /\ pc \in RunState
    /\ scrollID \in ScrollIds \cup {NoScroll}
    /\ buffer \in Array
    /\ cache \in [arr : Array, len : Nat]
    /\ {expired, ctxDone, cacheInitialized, invalidESCfg} \subseteq BOOLEAN
    /\ cpc \in [Clients -> ClientState]
    /\ hdr \in [Clients -> Array]
    /\ ans \in [Clients -> Answer]
    /\ orphans \subseteq ScrollIds

\* A Fetch that is served is served from one whole revision of the index: never
\* from the pages of two revisions, from a refresh that failed half way, or from
\* a slice header of which one word was read before a refresh and one after.
AnswersAreSnapshots ==
    \A c \in Clients : ans[c].kind = "ok" =>
        /\ ans[c].rev \in Revs
        /\ ans[c].hits = Index[ans[c].rev]
        /\ ans[c].len = Len(ans[c].hits)

\* When a refresh has replaced the cache, the cache is not older than the index
\* was when that refresh began, however many pages and changes lay between.
PublishedIsFresh ==
    pc = "mark" => cache.arr.rev >= beginRev

\* A client served once is served for ever, never with an older revision: no
\* failed, cancelled or denied refresh takes the cache away or sets it back.
NeverRefusedAfterServed ==
    [][\A c \in Clients :
         ans[c].kind = "ok" => ans'[c].kind = "ok" /\ ans'[c].rev >= ans[c].rev]_vars

\* Between refreshes, and after Run has returned, the only scrolls left open are
\* those whose id the fetcher never learnt or whose clear request failed: every
\* way out of refreshCache clears the scroll it holds.
NoUnexplainedLeak ==
    pc \in {"idle", "stopped", "cancelled"} => Open \subseteq orphans

\* Every refresh ends, whatever Elasticsearch does and however many clients read.
RefreshTerminates == pc \in Refreshing ~> pc \notin Refreshing

\* Run returns after its context is cancelled, also when a tick is always ready.
CancelStops == ctxDone ~> pc \in {"stopped", "cancelled"}

\* Every call of Fetch returns, although refreshes keep taking the lock.
FetchReturns == \A c \in Clients : cpc[c] # "idle" ~> cpc[c] = "idle"

Fault ==
    \/ PageFailed \/ PageDenied \/ PageLost \/ Deadline
    \/ \E s \in ScrollIds \ orphans : ScrollExpires(s)

\* Once requests succeed and in time, the cache catches up with the index and
\* stays with it, unless Run has returned.
EventuallyFresh ==
    <>[][~Fault]_vars /\ []~ctxDone /\ [](pc # "stopped")
        => <>[](cacheInitialized /\ cache.arr.rev = rev)

\* The fetcher keeps the promise of AgentConfigCache.
View == IF cacheInitialized THEN cache.arr.rev ELSE NoRev

CallOf(c) == CASE cpc[c] = "idle" -> "none"
               [] cpc[c] = "loadInvalid" -> "early"
               [] OTHER -> "late"

Promise == INSTANCE AgentConfigCache WITH
    view <- View, denied <- invalidESCfg, call <- [c \in Clients |-> CallOf(c)]

KeepsPromise == Promise!Spec
=============================================================================
