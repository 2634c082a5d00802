--------------------- MODULE ElasticsearchFetcher_proofs ---------------------
(* The inductive invariant of ElasticsearchFetcher and its consequences, for *)
(* any number of clients, scrolls and changes, any contents of the index and *)
(* any size of page.                                                         *)
EXTENDS ElasticsearchFetcher, SequenceTheorems, TLAPS

\* The array holds the whole of a revision.
Whole(arr) == arr.rev \in Revs /\ arr.hits = Index[arr.rev]

\* The first n hits of revision r.
Prefix(r, n) == SubSeq(Index[r], 1, n)

\* Between pages the buffer is a prefix of the revision the search saw, and the
\* scroll, if Elasticsearch still has it, stands right after that prefix.
BufferInv ==
    /\ pc = "request" /\ scrollID # NoScroll =>
        /\ buffer.rev \in Revs
        /\ \E n \in 0..Len(Index[buffer.rev]) :
            /\ buffer.hits = Prefix(buffer.rev, n)
            /\ scrollID \in Open => scrolls[scrollID] = [rev |-> buffer.rev, pos |-> n]
        /\ beginRev <= buffer.rev
    /\ pc \in {"clearOk", "lock", "write", "mark"} =>
        Whole(buffer) /\ beginRev <= buffer.rev

\* What is cached is never ahead of the refresh under way, nor that of the index.
RevInv ==
    /\ beginRev <= rev
    /\ buffer.rev <= rev
    /\ cache.arr.rev <= rev
    /\ pc \notin {"write", "mark"} => cache.arr.rev <= IF pc \in Refreshing THEN beginRev ELSE rev

\* The cache is nil or a whole revision, its two words belong together except
\* while the lock is held, and it is a revision once cacheInitialized is set.
CacheInv ==
    /\ cache.arr = NilArray \/ Whole(cache.arr)
    /\ pc # "write" => cache.len = Len(cache.arr.hits)
    /\ pc \in {"write", "mark"} => cache.arr = buffer
    /\ cacheInitialized => cache.arr # NilArray

\* Readers hold the array that is cached, and keep the writer out; nobody who
\* has been served is refused.
ClientInv ==
    \A c \in Clients :
        /\ cpc[c] = "read" => hdr[c] = cache.arr /\ pc # "write"
        /\ cpc[c] \in {"rlock", "read"} => cacheInitialized
        /\ ans[c].kind = "ok" =>
            /\ cacheInitialized
            /\ cpc[c] # "loadInvalid"
            /\ ans[c].rev <= cache.arr.rev

\* Every open scroll is an orphan or the one refreshCache is about to clear.
ScrollInv ==
    \A s \in Open :
        \/ s \in orphans
        \/ s = scrollID /\ pc \in {"request", "clearOk", "clearErr"}

IInv ==
    /\ TypeOK
    /\ BufferInv
    /\ RevInv
    /\ CacheInv
    /\ ClientInv
    /\ ScrollInv
    /\ AnswersAreSnapshots

-----------------------------------------------------------------------------
(* Pages                                                                     *)

\* The pages of a revision follow one another, and an empty one comes after all
\* of its hits.
LEMMA PageProperties ==
    ASSUME NEW r \in Revs, NEW p \in 0..Len(Index[r])
    PROVE  /\ PageEnd(r, p) \in 0..Len(Index[r])
           /\ Page(r, p) \in Seq(AgentConfigs)
           /\ Prefix(r, p) \o Page(r, p) = Prefix(r, PageEnd(r, p))
           /\ Page(r, p) = <<>> => PageEnd(r, p) = Len(Index[r])
<1> DEFINE e == PageEnd(r, p)
<1>1. Index[r] \in Seq(AgentConfigs) /\ Len(Index[r]) \in Nat
  BY IndexAssumption, LenProperties DEF Revs
<1>2. e \in p..Len(Index[r]) /\ (e = p => p = Len(Index[r]))
  BY <1>1, SearchSizeAssumption DEF PageEnd
<1>3. Page(r, p) \in Seq(AgentConfigs) /\ Len(Page(r, p)) = e - p
  <2>1. \A k \in p + 1..e : Index[r][k] \in AgentConfigs
    BY <1>1, <1>2, ElementOfSeq
  <2>2. QED
    BY <1>1, <1>2, <2>1, SubSeqProperties DEF Page
<1>4. Prefix(r, p) \o Page(r, p) = Prefix(r, e)
  <2>1. 1 \in 1..Len(Index[r]) + 1 /\ p \in 1 - 1..Len(Index[r]) /\ e \in p..Len(Index[r])
    BY <1>1, <1>2
  <2>2. QED
    BY <1>1, <2>1, ConcatAdjacentSubSeq DEF Prefix, Page
<1>5. Page(r, p) = <<>> => e = Len(Index[r])
  BY <1>2, <1>3
<1>6. QED
  BY <1>1, <1>2, <1>3, <1>4, <1>5

\* The empty prefix and the whole one.
LEMMA PrefixEnds ==
    ASSUME NEW r \in Revs
    PROVE  Prefix(r, 0) = <<>> /\ Prefix(r, Len(Index[r])) = Index[r]
<1>1. Index[r] \in Seq(AgentConfigs) /\ Len(Index[r]) \in Nat
  BY IndexAssumption, LenProperties DEF Revs
<1>2. QED
  BY <1>1, SubSeqEmpty, SubSeqFull DEF Prefix

\* The first page alone is a prefix.
LEMMA FirstPage ==
    ASSUME NEW r \in Revs
    PROVE  /\ PageEnd(r, 0) \in 0..Len(Index[r])
           /\ Page(r, 0) \in Seq(AgentConfigs)
           /\ Page(r, 0) = Prefix(r, PageEnd(r, 0))
           /\ Page(r, 0) = <<>> => PageEnd(r, 0) = Len(Index[r])
<1>1. 0 \in 0..Len(Index[r])
  BY IndexAssumption, LenProperties DEF Revs
<1>2. Page(r, 0) \in Seq(AgentConfigs) /\ Prefix(r, 0) = <<>>
  BY <1>1, PageProperties, PrefixEnds
<1>3. Prefix(r, 0) \o Page(r, 0) = Page(r, 0)
  BY <1>2, ConcatEmptySeq
<1>4. QED
  BY <1>1, <1>3, PageProperties

-----------------------------------------------------------------------------
(* Initial states and types                                                  *)

\* The initial state satisfies the invariant.
LEMMA InitIInv == Init => IInv
<1> SUFFICES ASSUME Init PROVE IInv
  OBVIOUS
<1> USE DEF Init, NilArray, NoRev, Revs
<1>1. NilArray \in Array /\ Len(NilArray.hits) = 0
  BY EmptySeq DEF Array
<1>2. TypeOK
  <2>1. NoAnswer \in Answer /\ Closed \in Cursor /\ 0 \in Revs
    BY MaxRevAssumption, EmptySeq DEF NoAnswer, Answer, AnswerKind, Closed, Cursor
  <2>2. cache \in [arr : Array, len : Nat] /\ scrolls \in [ScrollIds -> Cursor]
    BY <1>1, <2>1
  <2>3. ans \in [Clients -> Answer] /\ hdr \in [Clients -> Array] /\ cpc \in [Clients -> ClientState]
    BY <1>1, <2>1 DEF ClientState
  <2>4. QED
    BY <1>1, <2>1, <2>2, <2>3 DEF TypeOK, RunState
<1>3. BufferInv /\ RevInv
  BY MaxRevAssumption DEF BufferInv, RevInv, Refreshing
<1>4. CacheInv /\ ClientInv /\ ScrollInv /\ AnswersAreSnapshots
  BY <1>1 DEF CacheInv, ClientInv, ScrollInv, AnswersAreSnapshots, NoAnswer, Open, Closed
<1>5. QED
  BY <1>2, <1>3, <1>4 DEF IInv

\* A cursor Elasticsearch moves stays a cursor.
LEMMA CursorType ==
    ASSUME NEW r \in Revs, NEW p \in Nat
    PROVE  [rev |-> r, pos |-> PageEnd(r, p)] \in Cursor
<1>1. Len(Index[r]) \in Nat
  BY IndexAssumption, LenProperties DEF Revs
<1>2. QED
  BY <1>1, SearchSizeAssumption DEF Cursor, PageEnd

\* A step of Elasticsearch on an open scroll keeps the type of the scrolls.
LEMMA MoveScrollType ==
    ASSUME TypeOK, NEW s \in ScrollIds, NEW next \in ScrollIds, MoveScroll(s, next)
    PROVE  scrolls' \in [ScrollIds -> Cursor]
<1> DEFINE r == scrolls[s].rev
           p == scrolls[s].pos
<1>1. r \in Revs /\ p \in Nat
  BY DEF TypeOK, MoveScroll, Open, Cursor
<1>2. [rev |-> r, pos |-> PageEnd(r, p)] \in Cursor /\ Closed \in Cursor
  BY <1>1, CursorType DEF Closed, Cursor
<1> HIDE DEF r, p
<1>3. scrolls' = [scrolls EXCEPT ![s] = Closed, ![next] = [rev |-> r, pos |-> PageEnd(r, p)]]
  BY DEF MoveScroll, r, p
<1>4. QED
  BY <1>2, <1>3 DEF TypeOK

-----------------------------------------------------------------------------
(* Steps of Run preserve the invariant                                       *)

\* What a step that leaves the clients and the cache alone has to show.
LEMMA RunFrame ==
    ASSUME IInv, UNCHANGED <<cache, cacheInitialized, clientVars>>,
           TypeOK', BufferInv', RevInv', ScrollInv',
           pc' = pc \/ pc' \notin {"write", "mark"}, pc' # "write" => pc # "write",
           pc' \in {"write", "mark"} => buffer' = buffer
    PROVE  IInv'
<1>1. CacheInv'
  BY DEF IInv, CacheInv, Whole
<1>2. ClientInv'
  BY DEF IInv, ClientInv, clientVars
<1>3. AnswersAreSnapshots'
  BY DEF IInv, AnswersAreSnapshots, clientVars
<1>4. QED
  BY <1>1, <1>2, <1>3 DEF IInv

LEMMA RunCancelledIInv == IInv /\ RunCancelled => IInv'
<1> SUFFICES ASSUME IInv, RunCancelled PROVE IInv'
  OBVIOUS
<1> USE DEF RunCancelled, esVars, sharedVars
<1>1. TypeOK'
  BY DEF IInv, TypeOK, RunState, clientVars
<1>2. BufferInv' /\ RevInv' /\ ScrollInv'
  BY DEF IInv, BufferInv, RevInv, ScrollInv, Refreshing, Open
<1>3. QED
  BY <1>1, <1>2, RunFrame

LEMMA BeginRefreshIInv == IInv /\ BeginRefresh => IInv'
<1> SUFFICES ASSUME IInv, BeginRefresh PROVE IInv'
  OBVIOUS
<1> USE DEF BeginRefresh, esVars, sharedVars
<1>1. TypeOK'
  BY EmptySeq DEF IInv, TypeOK, RunState, clientVars, NilArray, Array
<1>2. BufferInv' /\ ScrollInv'
  BY DEF IInv, BufferInv, ScrollInv, Open
<1>3. RevInv'
  BY DEF IInv, TypeOK, RevInv, Refreshing, NilArray, NoRev, Revs
<1>4. QED
  BY <1>1, <1>2, <1>3, RunFrame

LEMMA SearchPageIInv == IInv /\ SearchPage => IInv'
<1> SUFFICES ASSUME IInv, SearchPage PROVE IInv'
  OBVIOUS
<1> USE DEF SearchPage, sharedVars
<1>1. PICK s \in ScrollIds \ Open :
        /\ scrolls' = [scrolls EXCEPT ![s] = [rev |-> rev, pos |-> PageEnd(rev, 0)]]
        /\ scrollID' = s
  OBVIOUS
<1>2. /\ rev \in Revs /\ rev \in Nat /\ rev # NoRev /\ beginRev <= rev
      /\ scrolls \in [ScrollIds -> Cursor] /\ s # NoScroll
  BY NoScrollAssumption, MaxRevAssumption DEF IInv, TypeOK, RevInv, Revs, NoRev
<1>3. /\ PageEnd(rev, 0) \in 0..Len(Index[rev])
      /\ Page(rev, 0) \in Seq(AgentConfigs)
      /\ Page(rev, 0) = Prefix(rev, PageEnd(rev, 0))
      /\ Page(rev, 0) = <<>> => PageEnd(rev, 0) = Len(Index[rev])
      /\ Prefix(rev, Len(Index[rev])) = Index[rev]
  BY <1>2, FirstPage, PrefixEnds
<1>4. scrolls' \in [ScrollIds -> Cursor] /\ scrolls'[s] = [rev |-> rev, pos |-> PageEnd(rev, 0)]
  BY <1>1, <1>2, CursorType
<1>5. TypeOK'
  BY <1>1, <1>2, <1>3, <1>4 DEF IInv, TypeOK, RunState, Array, clientVars
<1>6. BufferInv'
  BY <1>1, <1>2, <1>3, <1>4 DEF BufferInv, Whole
<1>7. RevInv'
  BY <1>2 DEF IInv, RevInv, Refreshing
<1>8. ScrollInv'
  <2>1. ASSUME NEW t \in Open', t # s PROVE t \in Open /\ t \in orphans
    BY <1>1, <1>2, <2>1, NoScrollAssumption DEF IInv, ScrollInv, Open
  <2>2. s \in Open' => pc' \in {"request", "clearOk"}
    OBVIOUS
  <2>3. QED
    BY <1>1, <2>1, <2>2 DEF ScrollInv
<1>9. QED
  BY <1>5, <1>6, <1>7, <1>8, RunFrame

LEMMA ScrollPageIInv == IInv /\ ScrollPage => IInv'
<1> SUFFICES ASSUME IInv, ScrollPage PROVE IInv'
  OBVIOUS
<1> USE DEF ScrollPage, sharedVars
<1>1. PICK next \in ScrollIds : MoveScroll(scrollID, next) /\ scrollID' = next
  OBVIOUS
<1> DEFINE r == buffer.rev
<1>2. PICK n \in 0..Len(Index[r]) :
        /\ r \in Revs /\ r # NoRev /\ beginRev <= r /\ r <= rev
        /\ buffer.hits = Prefix(r, n)
        /\ scrolls[scrollID] = [rev |-> r, pos |-> n]
        /\ scrollID \in ScrollIds /\ scrolls \in [ScrollIds -> Cursor]
  BY <1>1 DEF IInv, TypeOK, BufferInv, RevInv, MoveScroll, Open, Revs, NoRev
<1> DEFINE e == PageEnd(r, n)
<1>3. /\ e \in 0..Len(Index[r])
      /\ Page(r, n) \in Seq(AgentConfigs)
      /\ Prefix(r, n) \o Page(r, n) = Prefix(r, e)
      /\ Page(r, n) = <<>> => Prefix(r, e) = Index[r]
  BY <1>2, PageProperties, PrefixEnds
<1>4. /\ buffer'.rev = r /\ buffer'.hits = Prefix(r, e)
      /\ buffer' = [buffer EXCEPT !.hits = Prefix(r, e)]
  <2>1. buffer \in Array /\ buffer' = [buffer EXCEPT !.hits = buffer.hits \o Page(r, n)]
    BY <1>2 DEF IInv, TypeOK
  <2>2. buffer' = [rev |-> buffer.rev, hits |-> buffer.hits \o Page(r, n)]
    BY <2>1 DEF Array
  <2>3. buffer.hits \o Page(r, n) = Prefix(r, e)
    BY <1>2, <1>3
  <2>4. QED
    BY <2>1, <2>2, <2>3
<1>5. pc' = IF Page(r, n) = <<>> THEN "clearOk" ELSE "request"
  BY <1>2
<1> HIDE DEF r, e
<1>6. /\ scrolls' = [scrolls EXCEPT ![scrollID] = Closed, ![next] = [rev |-> r, pos |-> e]]
      /\ next = scrollID \/ next \in ScrollIds \ Open
  BY <1>1, <1>2 DEF MoveScroll, r, e
<1>7. scrolls'[next] = [rev |-> r, pos |-> e]
  BY <1>2, <1>6
<1>8. buffer' \in Array
  <2>1. Prefix(r, n) \in Seq(AgentConfigs)
    BY <1>2 DEF IInv, TypeOK, Array, r
  <2>2. Prefix(r, e) \in Seq(AgentConfigs)
    BY <1>3, <2>1, ConcatProperties DEF e
  <2>3. QED
    BY <1>4, <2>2 DEF IInv, TypeOK, Array
<1>9. TypeOK'
  BY <1>1, <1>2, <1>5, <1>8, MoveScrollType DEF IInv, TypeOK, RunState, clientVars
<1>10. BufferInv'
  <2>1. beginRev' = beginRev /\ r \in Revs /\ beginRev <= r /\ e \in 0..Len(Index[r])
    BY <1>2, <1>3 DEF r, e
  <2>2. pc' = "request" => \E m \in 0..Len(Index[r]) :
          /\ buffer'.hits = Prefix(r, m)
          /\ scrolls'[scrollID'] = [rev |-> r, pos |-> m]
    BY <1>1, <1>4, <1>7, <2>1
  <2>3. pc' = "clearOk" => buffer'.hits = Index[r]
    BY <1>3, <1>4, <1>5 DEF r, e
  <2>4. pc' \in {"request", "clearOk"}
    BY <1>5
  <2>5. QED
    BY <1>4, <2>1, <2>2, <2>3, <2>4 DEF BufferInv, Whole, Prefix
<1>11. RevInv'
  BY <1>2, <1>4, <1>5 DEF IInv, RevInv, Refreshing
<1>12. ScrollInv'
  BY <1>1, <1>2, <1>5, <1>6 DEF IInv, ScrollInv, Open, Closed
<1>13. QED
  BY <1>5, <1>9, <1>10, <1>11, <1>12, RunFrame

LEMMA PageFailedIInv == IInv /\ (PageFailed \/ PageDenied) => IInv'
<1> SUFFICES ASSUME IInv, PageFailed \/ PageDenied PROVE IInv'
  OBVIOUS
<1>1. /\ pc = "request" /\ pc' = "clearErr" /\ invalidESCfg' \in BOOLEAN
      /\ UNCHANGED <<rev, scrolls, scrollID, buffer, expired, ctxDone, cache,
                     cacheInitialized, clientVars, beginRev, orphans>>
  BY DEF PageFailed, PageDenied, esVars, sharedVars, IInv, TypeOK
<1>2. TypeOK'
  BY <1>1 DEF IInv, TypeOK, RunState, clientVars
<1>3. BufferInv' /\ RevInv' /\ ScrollInv'
  BY <1>1 DEF IInv, BufferInv, RevInv, ScrollInv, Refreshing, Open
<1>4. QED
  BY <1>1, <1>2, <1>3, RunFrame

LEMMA PageLostIInv == IInv /\ PageLost => IInv'
<1> SUFFICES ASSUME IInv, PageLost PROVE IInv'
  OBVIOUS
<1>1. /\ pc = "request" /\ pc' = "clearErr"
      /\ UNCHANGED <<rev, scrollID, buffer, expired, ctxDone, sharedVars, clientVars, beginRev>>
      /\ scrolls \in [ScrollIds -> Cursor] /\ orphans \subseteq ScrollIds /\ rev \in Revs
  BY DEF PageLost, IInv, TypeOK
<1>2. /\ scrolls' \in [ScrollIds -> Cursor] /\ orphans' \subseteq ScrollIds
      /\ \A t \in Open' : t \in orphans' \/ t = scrollID
  <2>1. CASE scrollID = NoScroll
    <3>1. PICK s \in ScrollIds \ Open :
            /\ scrolls' = [scrolls EXCEPT ![s] = [rev |-> rev, pos |-> PageEnd(rev, 0)]]
            /\ orphans' = orphans \cup {s}
      BY <2>1 DEF PageLost
    <3>2. [rev |-> rev, pos |-> PageEnd(rev, 0)] \in Cursor
      BY <1>1, CursorType
    <3>3. ASSUME NEW t \in Open', t # s PROVE t \in orphans \/ t = scrollID
      BY <1>1, <3>1, <3>3 DEF IInv, ScrollInv, Open
    <3>4. QED
      BY <1>1, <3>1, <3>2, <3>3
  <2>2. CASE scrollID # NoScroll
    <3>1. PICK next \in ScrollIds :
            MoveScroll(scrollID, next) /\ orphans' = orphans \cup ({next} \ {scrollID})
      BY <2>2 DEF PageLost
    <3>2. scrollID \in ScrollIds
      BY <2>2 DEF IInv, TypeOK
    <3>3. scrolls' \in [ScrollIds -> Cursor]
      BY <3>1, <3>2, MoveScrollType DEF IInv
    <3>4. ASSUME NEW t \in Open', t # next PROVE t \in orphans
      BY <1>1, <3>1, <3>2, <3>4 DEF IInv, ScrollInv, MoveScroll, Open, Closed
    <3>5. QED
      BY <1>1, <3>1, <3>3, <3>4
  <2>3. QED
    BY <2>1, <2>2
<1>3. TypeOK'
  BY <1>1, <1>2 DEF IInv, TypeOK, RunState, sharedVars, clientVars
<1>4. BufferInv' /\ RevInv' /\ ScrollInv'
  BY <1>1, <1>2 DEF IInv, BufferInv, RevInv, ScrollInv, Refreshing, sharedVars
<1>5. QED
  BY <1>1, <1>3, <1>4, RunFrame DEF sharedVars

\* Both outcomes of clearScroll.
LEMMA ClearIInv == IInv /\ (ClearScroll \/ ClearFailed) => IInv'
<1> SUFFICES ASSUME IInv, ClearScroll \/ ClearFailed PROVE IInv'
  OBVIOUS
<1>1. /\ pc \in {"clearOk", "clearErr"} /\ AfterClear
      /\ UNCHANGED <<rev, scrollID, buffer, expired, ctxDone, sharedVars, clientVars, beginRev>>
      /\ scrolls \in [ScrollIds -> Cursor] /\ orphans \subseteq ScrollIds
  BY DEF ClearScroll, ClearFailed, IInv, TypeOK, esVars
<1>2. /\ pc = "clearOk" => pc' = "lock"
      /\ pc = "clearErr" => pc' \in {"stopped", "idle"}
  BY <1>1 DEF AfterClear
<1>3. /\ scrolls' \in [ScrollIds -> Cursor] /\ orphans' \subseteq ScrollIds
      /\ Open' \subseteq orphans'
  <2>1. CASE ClearScroll
    <3>1. /\ scrolls' = [s \in ScrollIds |-> IF s = scrollID THEN Closed ELSE scrolls[s]]
          /\ orphans' = orphans /\ Closed \in Cursor
      BY <2>1 DEF ClearScroll, Closed, Cursor
    <3>2. ASSUME NEW t \in Open' PROVE t \in orphans
      BY <1>1, <3>1, <3>2 DEF IInv, ScrollInv, Open, Closed
    <3>3. QED
      BY <1>1, <3>1, <3>2
  <2>2. CASE ClearFailed
    <3>1. scrolls' = scrolls /\ orphans' = orphans \cup ({scrollID} \cap Open)
      BY <2>2 DEF ClearFailed, esVars
    <3>2. QED
      BY <1>1, <3>1 DEF IInv, ScrollInv, Open
  <2>3. QED
    BY <2>1, <2>2
<1>4. TypeOK'
  BY <1>1, <1>2, <1>3 DEF IInv, TypeOK, RunState, sharedVars, clientVars
<1>5. BufferInv' /\ RevInv' /\ ScrollInv'
  <2>1. BufferInv' /\ ScrollInv'
    BY <1>1, <1>2, <1>3 DEF IInv, BufferInv, ScrollInv, Whole
  <2>2. {rev, beginRev, cache.arr.rev} \subseteq Int
    BY DEF IInv, TypeOK, Array, Revs, NoRev
  <2>3. beginRev <= rev /\ cache.arr.rev <= beginRev /\ buffer.rev <= rev
    BY <1>1, <2>2 DEF IInv, RevInv, Refreshing
  <2>4. RevInv'
    BY <1>1, <1>2, <2>2, <2>3 DEF RevInv, Refreshing, sharedVars
  <2>5. QED
    BY <2>1, <2>4
<1>6. QED
  BY <1>1, <1>2, <1>4, <1>5, RunFrame DEF sharedVars

LEMMA WriteArrayIInv == IInv /\ WriteArray => IInv'
<1> SUFFICES ASSUME IInv, WriteArray PROVE IInv'
  OBVIOUS
<1>1. /\ pc = "lock" /\ Readers = {} /\ pc' = "write"
      /\ cache'.arr = buffer /\ cache' = [cache EXCEPT !.arr = buffer]
      /\ UNCHANGED <<rev, scrolls, scrollID, buffer, expired, ctxDone, cacheInitialized,
                     invalidESCfg, clientVars, beginRev, orphans>>
  BY DEF WriteArray, esVars, IInv, TypeOK
<1>2. TypeOK'
  BY <1>1 DEF IInv, TypeOK, RunState, clientVars
<1>3. Whole(buffer) /\ cache.arr.rev <= buffer.rev
  BY <1>1 DEF IInv, TypeOK, BufferInv, RevInv, Refreshing, Whole, Array, Revs, NoRev
<1>4. BufferInv' /\ RevInv' /\ ScrollInv'
  <2>1. BufferInv' /\ ScrollInv'
    BY <1>1 DEF IInv, BufferInv, ScrollInv, Open, Whole
  <2>2. RevInv'
    BY <1>1 DEF IInv, RevInv, Refreshing
  <2>3. QED
    BY <2>1, <2>2
<1>5. CacheInv'
  BY <1>1, <1>3 DEF IInv, CacheInv, Whole, NilArray, Revs, NoRev
<1>6. ClientInv'
  <2> SUFFICES ASSUME NEW c \in Clients
               PROVE  /\ cpc[c] # "read"
                      /\ cpc[c] \in {"rlock", "read"} => cacheInitialized
                      /\ ans[c].kind = "ok" => /\ cacheInitialized
                                               /\ cpc[c] # "loadInvalid"
                                               /\ ans[c].rev <= buffer.rev
    BY <1>1 DEF ClientInv, clientVars
  <2>1. cpc[c] # "read"
    BY <1>1 DEF Readers
  <2>2. ans[c].kind = "ok" => ans[c].rev \in Int /\ ans[c].rev <= cache.arr.rev
    BY DEF IInv, ClientInv, AnswersAreSnapshots, Revs
  <2>3. cache.arr.rev \in Int /\ buffer.rev \in Int
    BY DEF IInv, TypeOK, Array, Revs, NoRev
  <2>4. QED
    BY <1>3, <2>1, <2>2, <2>3 DEF IInv, ClientInv
<1>7. AnswersAreSnapshots'
  BY <1>1 DEF IInv, AnswersAreSnapshots, clientVars
<1>8. QED
  BY <1>2, <1>4, <1>5, <1>6, <1>7 DEF IInv

LEMMA WriteLenIInv == IInv /\ WriteLen => IInv'
<1> SUFFICES ASSUME IInv, WriteLen PROVE IInv'
  OBVIOUS
<1>1. /\ pc = "write" /\ pc' = "mark" /\ Len(buffer.hits) \in Nat
      /\ cache'.arr = cache.arr /\ cache'.len = Len(buffer.hits)
      /\ cache' = [cache EXCEPT !.len = Len(buffer.hits)]
      /\ UNCHANGED <<rev, scrolls, scrollID, buffer, expired, ctxDone, cacheInitialized,
                     invalidESCfg, clientVars, beginRev, orphans>>
  BY LenProperties DEF WriteLen, esVars, IInv, TypeOK, Array
<1>2. TypeOK'
  BY <1>1 DEF IInv, TypeOK, RunState, clientVars
<1>3. BufferInv' /\ RevInv' /\ ScrollInv'
  BY <1>1 DEF IInv, BufferInv, RevInv, ScrollInv, Refreshing, Open, Whole
<1>4. CacheInv' /\ ClientInv'
  BY <1>1 DEF IInv, CacheInv, ClientInv, Whole, clientVars
<1>5. AnswersAreSnapshots'
  BY <1>1 DEF IInv, AnswersAreSnapshots, clientVars
<1>6. QED
  BY <1>2, <1>3, <1>4, <1>5 DEF IInv

LEMMA MarkInitializedIInv == IInv /\ MarkInitialized => IInv'
<1> SUFFICES ASSUME IInv, MarkInitialized PROVE IInv'
  OBVIOUS
<1>1. /\ pc = "mark" /\ pc' = "idle" /\ cacheInitialized' = TRUE
      /\ UNCHANGED <<rev, scrolls, scrollID, buffer, expired, ctxDone, cache,
                     invalidESCfg, clientVars, beginRev, orphans>>
  BY DEF MarkInitialized, esVars
<1>2. TypeOK'
  BY <1>1 DEF IInv, TypeOK, RunState, clientVars
<1>3. BufferInv' /\ RevInv' /\ ScrollInv'
  BY <1>1 DEF IInv, BufferInv, RevInv, ScrollInv, Refreshing, Open
<1>4. CacheInv'
  BY <1>1 DEF IInv, BufferInv, CacheInv, Whole, NilArray, Revs, NoRev
<1>5. ClientInv' /\ AnswersAreSnapshots'
  BY <1>1 DEF IInv, ClientInv, AnswersAreSnapshots, clientVars
<1>6. QED
  BY <1>2, <1>3, <1>4, <1>5 DEF IInv

-----------------------------------------------------------------------------
(* Steps of Fetch and of the environment preserve the invariant              *)

\* What a step that changes neither Run nor Elasticsearch nor the cache has to
\* show.
LEMMA ClientFrame ==
    ASSUME IInv, UNCHANGED <<esVars, runVars, sharedVars, beginRev, orphans>>,
           TypeOK', ClientInv', AnswersAreSnapshots'
    PROVE  IInv'
<1> USE DEF esVars, runVars, sharedVars
<1>1. BufferInv' /\ ScrollInv'
  BY DEF IInv, BufferInv, ScrollInv, Open, Whole
<1>2. RevInv' /\ CacheInv'
  BY DEF IInv, RevInv, CacheInv, Refreshing, Whole
<1>3. QED
  BY <1>1, <1>2 DEF IInv

LEMMA FetchBeginIInv == ASSUME NEW c \in Clients, IInv, FetchBegin(c) PROVE IInv'
<1>1. /\ cpc[c] = "idle" /\ cpc \in [Clients -> ClientState]
      /\ cpc' = [cpc EXCEPT ![c] = IF cacheInitialized THEN "rlock" ELSE "loadInvalid"]
      /\ UNCHANGED <<esVars, runVars, sharedVars, hdr, ans, beginRev, orphans>>
  BY DEF FetchBegin, IInv, TypeOK
<1>2. TypeOK'
  BY <1>1 DEF IInv, TypeOK, ClientState, esVars, runVars, sharedVars
<1>3. ClientInv'
  BY <1>1 DEF IInv, ClientInv, runVars, sharedVars
<1>4. AnswersAreSnapshots'
  BY <1>1 DEF IInv, AnswersAreSnapshots
<1>5. QED
  BY <1>1, <1>2, <1>3, <1>4, ClientFrame

LEMMA FetchRLockIInv == ASSUME NEW c \in Clients, IInv, FetchRLock(c) PROVE IInv'
<1>1. /\ cpc[c] = "rlock" /\ pc \notin {"lock", "write"}
      /\ cpc \in [Clients -> ClientState] /\ hdr \in [Clients -> Array] /\ cache.arr \in Array
      /\ hdr' = [hdr EXCEPT ![c] = cache.arr]
      /\ cpc' = [cpc EXCEPT ![c] = "read"]
      /\ UNCHANGED <<esVars, runVars, sharedVars, ans, beginRev, orphans>>
  BY DEF FetchRLock, IInv, TypeOK
<1>2. TypeOK'
  BY <1>1 DEF IInv, TypeOK, ClientState, esVars, runVars, sharedVars
<1>3. ClientInv'
  BY <1>1 DEF IInv, ClientInv, runVars, sharedVars
<1>4. AnswersAreSnapshots'
  BY <1>1 DEF IInv, AnswersAreSnapshots
<1>5. QED
  BY <1>1, <1>2, <1>3, <1>4, ClientFrame

LEMMA FetchReadIInv == ASSUME NEW c \in Clients, IInv, FetchRead(c) PROVE IInv'
<1> DEFINE answer == [kind |-> "ok", rev |-> hdr[c].rev, hits |-> hdr[c].hits, len |-> cache.len]
<1>1. /\ cpc[c] = "read"
      /\ cpc \in [Clients -> ClientState] /\ ans \in [Clients -> Answer]
      /\ hdr[c] \in Array /\ cache.len \in Nat
      /\ ans' = [ans EXCEPT ![c] = answer]
      /\ cpc' = [cpc EXCEPT ![c] = "idle"]
      /\ UNCHANGED <<esVars, runVars, sharedVars, hdr, beginRev, orphans>>
  BY DEF FetchRead, IInv, TypeOK
<1>2. /\ cacheInitialized /\ hdr[c] = cache.arr
      /\ Whole(cache.arr) /\ cache.len = Len(cache.arr.hits)
  BY <1>1 DEF IInv, ClientInv, CacheInv
<1>3. answer \in Answer
  BY <1>1 DEF Answer, AnswerKind, Array
<1> HIDE DEF answer
<1>4. TypeOK'
  BY <1>1, <1>3 DEF IInv, TypeOK, ClientState, esVars, runVars, sharedVars
<1>5. answer.kind = "ok" /\ answer.rev = cache.arr.rev /\ answer.hits = cache.arr.hits
      /\ answer.len = cache.len /\ cache.arr.rev \in Int
  BY <1>1, <1>2 DEF answer, Array, Revs, NoRev
<1>6. ClientInv'
  BY <1>1, <1>2, <1>5 DEF IInv, ClientInv, runVars, sharedVars
<1>7. AnswersAreSnapshots'
  BY <1>1, <1>2, <1>5 DEF IInv, AnswersAreSnapshots, Whole
<1>8. QED
  BY <1>1, <1>4, <1>6, <1>7, ClientFrame

LEMMA LoadInvalidIInv == ASSUME NEW c \in Clients, IInv, LoadInvalid(c) PROVE IInv'
<1> DEFINE answer == [NoAnswer EXCEPT !.kind = IF invalidESCfg THEN "invalid" ELSE "notReady"]
<1>1. /\ cpc[c] = "loadInvalid"
      /\ cpc \in [Clients -> ClientState] /\ ans \in [Clients -> Answer]
      /\ ans' = [ans EXCEPT ![c] = answer]
      /\ cpc' = [cpc EXCEPT ![c] = "idle"]
      /\ UNCHANGED <<esVars, runVars, sharedVars, hdr, beginRev, orphans>>
  BY DEF LoadInvalid, IInv, TypeOK
<1>2. answer \in Answer /\ answer.kind # "ok"
  BY EmptySeq DEF NoAnswer, Answer, AnswerKind
<1> HIDE DEF answer
<1>3. TypeOK'
  BY <1>1, <1>2 DEF IInv, TypeOK, ClientState, esVars, runVars, sharedVars
<1>4. ClientInv'
  BY <1>1, <1>2 DEF IInv, ClientInv, runVars, sharedVars
<1>5. AnswersAreSnapshots'
  BY <1>1, <1>2 DEF IInv, AnswersAreSnapshots
<1>6. QED
  BY <1>1, <1>3, <1>4, <1>5, ClientFrame

LEMMA EnvironmentIInv == IInv /\ Environment => IInv'
<1> SUFFICES ASSUME IInv, Environment PROVE IInv'
  OBVIOUS
<1>1. CASE IndexChange
  <2>1. /\ rev' = rev + 1 /\ rev \in Revs /\ rev' \in Revs
        /\ UNCHANGED <<scrolls, runVars, sharedVars, clientVars, beginRev, orphans>>
    BY <1>1, MaxRevAssumption DEF IndexChange, IInv, TypeOK, Revs
  <2>2. TypeOK'
    BY <2>1 DEF IInv, TypeOK, runVars, sharedVars, clientVars
  <2>3. {beginRev, buffer.rev, cache.arr.rev, rev} \subseteq Int
    BY <2>1 DEF IInv, TypeOK, Array, Revs, NoRev
  <2>4. RevInv'
    BY <2>1, <2>3 DEF IInv, RevInv, Refreshing, runVars, sharedVars
  <2>5. BufferInv' /\ ScrollInv'
    BY <2>1 DEF IInv, BufferInv, ScrollInv, Open, Whole, runVars
  <2>6. QED
    BY <2>1, <2>2, <2>4, <2>5, RunFrame DEF runVars, sharedVars
<1>2. ASSUME NEW s \in ScrollIds, ScrollExpires(s) PROVE IInv'
  <2>1. /\ scrolls' = [scrolls EXCEPT ![s] = Closed] /\ orphans' = orphans \ {s}
        /\ scrolls \in [ScrollIds -> Cursor] /\ Closed \in Cursor
        /\ UNCHANGED <<rev, runVars, sharedVars, clientVars, beginRev>>
    BY <1>2 DEF ScrollExpires, IInv, TypeOK, Closed, Cursor
  <2>2. TypeOK'
    BY <2>1 DEF IInv, TypeOK, runVars, sharedVars, clientVars
  <2>3. \A t \in Open' : t \in Open /\ t # s /\ scrolls'[t] = scrolls[t]
    BY <2>1 DEF Open, Closed
  <2>4. BufferInv'
    BY <2>1, <2>3 DEF IInv, BufferInv, Whole, runVars
  <2>5. RevInv' /\ ScrollInv'
    BY <2>1, <2>3 DEF IInv, RevInv, ScrollInv, Refreshing, runVars, sharedVars
  <2>6. QED
    BY <2>1, <2>2, <2>4, <2>5, RunFrame DEF runVars, sharedVars
<1>3. CASE Deadline \/ Cancel
  <2>1. /\ expired' \in BOOLEAN /\ ctxDone' \in BOOLEAN
        /\ UNCHANGED <<esVars, pc, scrollID, buffer, sharedVars, clientVars, beginRev, orphans>>
    BY <1>3 DEF Deadline, Cancel, IInv, TypeOK
  <2>2. TypeOK'
    BY <2>1 DEF IInv, TypeOK, esVars, sharedVars, clientVars
  <2>3. BufferInv' /\ RevInv' /\ ScrollInv'
    BY <2>1 DEF IInv, BufferInv, RevInv, ScrollInv, Open, Whole, Refreshing, esVars, sharedVars
  <2>4. QED
    BY <2>1, <2>2, <2>3, RunFrame DEF sharedVars
<1>4. QED
  BY <1>1, <1>2, <1>3 DEF Environment

LEMMA StutterIInv == IInv /\ UNCHANGED vars => IInv'
<1> SUFFICES ASSUME IInv, UNCHANGED vars PROVE IInv'
  OBVIOUS
<1> USE DEF vars
<1>1. TypeOK'
  BY DEF IInv, TypeOK
<1>2. ClientInv' /\ AnswersAreSnapshots'
  BY DEF IInv, ClientInv, AnswersAreSnapshots
<1>3. QED
  BY <1>1, <1>2, ClientFrame DEF esVars, runVars, sharedVars

LEMMA NextIInv == IInv /\ [Next]_vars => IInv'
<1> SUFFICES ASSUME IInv, [Next]_vars PROVE IInv'
  OBVIOUS
<1>1. CASE Run
  BY <1>1, RunCancelledIInv, BeginRefreshIInv, SearchPageIInv, ScrollPageIInv, PageFailedIInv,
    PageLostIInv, ClearIInv, WriteArrayIInv, WriteLenIInv, MarkInitializedIInv DEF Run
<1>2. ASSUME NEW c \in Clients, Fetch(c) PROVE IInv'
  BY <1>2, FetchBeginIInv, FetchRLockIInv, FetchReadIInv, LoadInvalidIInv DEF Fetch
<1>3. CASE Environment
  BY <1>3, EnvironmentIInv
<1>4. QED
  BY <1>1, <1>2, <1>3, StutterIInv DEF Next

\* The invariant holds in every reachable state.
LEMMA InductiveInvariant == Spec => []IInv
BY InitIInv, NextIInv, PTL DEF Spec

-----------------------------------------------------------------------------
(* Theorems                                                                  *)

\* Every variable of the fetcher keeps its type.
THEOREM TypeCorrect == Spec => []TypeOK
<1>1. IInv => TypeOK
  BY DEF IInv
<1>2. QED
  BY <1>1, InductiveInvariant, PTL

\* Whatever fails, and however Fetch and refreshCache interleave, a Fetch is
\* served from one whole revision of the index.
THEOREM SnapshotAnswers == Spec => []AnswersAreSnapshots
<1>1. IInv => AnswersAreSnapshots
  BY DEF IInv
<1>2. QED
  BY <1>1, InductiveInvariant, PTL

\* A refresh that succeeds publishes nothing older than the index was when the
\* refresh began.
THEOREM FreshPublication == Spec => []PublishedIsFresh
<1>1. IInv => PublishedIsFresh
  BY DEF IInv, BufferInv, CacheInv, TypeOK, Array, PublishedIsFresh, Revs, NoRev
<1>2. QED
  BY <1>1, InductiveInvariant, PTL

\* Every way out of refreshCache clears the scroll it holds, or tries to.
THEOREM ScrollsCleared == Spec => []NoUnexplainedLeak
<1>1. IInv => NoUnexplainedLeak
  BY DEF IInv, ScrollInv, NoUnexplainedLeak
<1>2. QED
  BY <1>1, InductiveInvariant, PTL

\* A step never refuses a client that has been served, nor serves it anything
\* older.
LEMMA ServedStep ==
    ASSUME IInv, [Next]_vars, NEW c \in Clients, ans[c].kind = "ok"
    PROVE  ans'[c].kind = "ok" /\ ans'[c].rev >= ans[c].rev
<1>1. /\ ans[c].rev \in Int /\ cache.arr.rev \in Int
      /\ cpc[c] # "loadInvalid" /\ ans[c].rev <= cache.arr.rev
      /\ ans \in [Clients -> Answer]
  BY DEF IInv, TypeOK, ClientInv, AnswersAreSnapshots, Array, Revs, NoRev
<1>2. CASE ans' = ans
  BY <1>1, <1>2
<1>3. ASSUME NEW d \in Clients, FetchRead(d) PROVE ans'[c].kind = "ok" /\ ans'[c].rev >= ans[c].rev
  <2>1. hdr[d] = cache.arr
    BY <1>3 DEF FetchRead, IInv, ClientInv
  <2>2. ans' = [ans EXCEPT ![d] = [kind |-> "ok", rev |-> hdr[d].rev,
                                   hits |-> hdr[d].hits, len |-> cache.len]]
    BY <1>3 DEF FetchRead
  <2>3. QED
    BY <1>1, <2>1, <2>2
<1>4. ASSUME NEW d \in Clients, LoadInvalid(d) PROVE ans'[c] = ans[c]
  BY <1>1, <1>4 DEF LoadInvalid
<1>5. CASE Run \/ Environment \/ UNCHANGED vars
  BY <1>2, <1>5 DEF Run, RunCancelled, BeginRefresh, SearchPage, ScrollPage, PageFailed, PageDenied,
    PageLost, ClearScroll, ClearFailed, WriteArray, WriteLen, MarkInitialized,
    Environment, IndexChange, ScrollExpires, Deadline, Cancel, vars, clientVars
<1>6. ASSUME NEW d \in Clients, FetchBegin(d) \/ FetchRLock(d) PROVE ans' = ans
  BY <1>6 DEF FetchBegin, FetchRLock
<1>7. QED
  BY <1>1, <1>2, <1>3, <1>4, <1>5, <1>6 DEF Next, Fetch

\* No failed, cancelled or denied refresh takes the cache away from a client it
\* has served, or sets it back.
THEOREM ServedForever == Spec => NeverRefusedAfterServed
<1> DEFINE Step == \A c \in Clients :
        ans[c].kind = "ok" => ans'[c].kind = "ok" /\ ans'[c].rev >= ans[c].rev
<1>1. IInv /\ [Next]_vars => [Step]_vars
  BY ServedStep
<1>2. QED
  BY <1>1, InductiveInvariant, PTL DEF Spec, NeverRefusedAfterServed

-----------------------------------------------------------------------------
(* The fetcher implements AgentConfigCache                                   *)

\* The initial state of the fetcher is that of the promise.
LEMMA PromiseInit == Init => Promise!Init
<1> SUFFICES ASSUME Init PROVE Promise!Init
  OBVIOUS
<1>1. View = NoRev /\ [c \in Clients |-> CallOf(c)] = [c \in Clients |-> "none"]
  BY DEF Init, View, CallOf
<1>2. QED
  BY <1>1 DEF Init, Promise!Init, Promise!NoRev, NoRev, NoAnswer, Promise!NoAnswer

\* Steps that show nothing to the callers.
LEMMA PromiseStutter ==
    ASSUME UNCHANGED <<rev, cache, cacheInitialized, invalidESCfg, clientVars>>
    PROVE  UNCHANGED Promise!vars
BY DEF clientVars, View, CallOf, Promise!vars

\* Where Run publishes.
LEMMA PromisePublish ==
    ASSUME IInv, WriteArray \/ WriteLen \/ MarkInitialized
    PROVE  Promise!Publish \/ UNCHANGED Promise!vars
<1>1. UNCHANGED <<rev, invalidESCfg, clientVars>>
  BY DEF WriteArray, WriteLen, MarkInitialized, esVars
<1>2. UNCHANGED <<ans, [c \in Clients |-> CallOf(c)]>>
  BY <1>1 DEF clientVars, CallOf
<1>3. /\ {rev, beginRev, buffer.rev, cache.arr.rev} \subseteq Int
      /\ cache \in [arr : Array, len : Nat]
  BY DEF IInv, TypeOK, Array, Revs, NoRev
<1>4. View' = View \/ (View' \in 0..rev /\ View' >= View)
  <2>1. CASE WriteArray
    <3>1. cache'.arr = buffer /\ cacheInitialized' = cacheInitialized
      BY <1>3, <2>1 DEF WriteArray
    <3>2. buffer.rev \in 0..rev /\ cache.arr.rev <= buffer.rev
      BY <1>3, <2>1 DEF WriteArray, IInv, BufferInv, RevInv, Whole, Refreshing, Revs
    <3>3. CASE cacheInitialized
      <4>1. View' = buffer.rev /\ View = cache.arr.rev
        BY <3>1, <3>3 DEF View
      <4>2. QED
        BY <3>2, <4>1
    <3>4. CASE ~cacheInitialized
      BY <3>1, <3>4 DEF View
    <3>5. QED
      BY <3>3, <3>4
  <2>2. CASE WriteLen
    <3>1. cache'.arr = cache.arr /\ cacheInitialized' = cacheInitialized
      BY <1>3, <2>2 DEF WriteLen
    <3>2. QED
      BY <3>1 DEF View
  <2>3. CASE MarkInitialized
    <3>1. cache' = cache /\ cacheInitialized' = TRUE
      BY <2>3 DEF MarkInitialized
    <3>2. cache.arr.rev \in 0..rev
      BY <1>3, <2>3 DEF MarkInitialized, IInv, BufferInv, CacheInv, RevInv, Whole, Revs
    <3>3. QED
      BY <3>1, <3>2 DEF View, NoRev
  <2>4. QED
    BY <2>1, <2>2, <2>3
<1>5. QED
  BY <1>1, <1>2, <1>4 DEF Promise!Publish, Promise!vars

\* The steps of a Fetch.
LEMMA PromiseFetch ==
    ASSUME IInv, NEW c \in Clients, Fetch(c)
    PROVE  Promise!Begin(c) \/ Promise!Serve(c) \/ Promise!Refuse(c) \/ UNCHANGED Promise!vars
<1> DEFINE calls == [d \in Clients |-> CallOf(d)]
<1>1. cpc \in [Clients -> ClientState] /\ (View = NoRev <=> ~cacheInitialized)
  BY DEF IInv, TypeOK, CacheInv, View, Whole, NilArray, Revs, NoRev
<1>2. UNCHANGED <<rev, View, invalidESCfg>>
  BY DEF Fetch, FetchBegin, FetchRLock, FetchRead, LoadInvalid, esVars, sharedVars, View
<1>3. CASE FetchBegin(c)
  <2>1. calls[c] = "none" /\ calls' = [calls EXCEPT ![c] = IF View = NoRev THEN "early" ELSE "late"]
    BY <1>1, <1>3 DEF FetchBegin, CallOf, ClientState
  <2>2. QED
    BY <1>2, <1>3, <2>1 DEF FetchBegin, Promise!Begin, Promise!NoRev, NoRev
<1>4. CASE FetchRLock(c)
  <2>1. calls' = calls /\ ans' = ans
    BY <1>1, <1>4 DEF FetchRLock, CallOf, ClientState
  <2>2. QED
    BY <1>2, <2>1 DEF Promise!vars
<1>5. CASE FetchRead(c)
  <2>1. calls[c] = "late" /\ calls' = [calls EXCEPT ![c] = "none"]
    BY <1>1, <1>5 DEF FetchRead, CallOf, ClientState
  <2>2. /\ hdr[c] = cache.arr /\ cacheInitialized
        /\ Whole(cache.arr) /\ cache.len = Len(cache.arr.hits)
    BY <1>5 DEF FetchRead, IInv, ClientInv, CacheInv
  <2>3. ans' = [ans EXCEPT ![c] = Promise!Snapshot(View)]
    BY <1>5, <2>2 DEF FetchRead, Promise!Snapshot, View, Whole
  <2>4. QED
    BY <1>2, <2>1, <2>3 DEF Promise!Serve
<1>6. CASE LoadInvalid(c)
  <2>1. calls[c] = "early" /\ calls' = [calls EXCEPT ![c] = "none"]
    BY <1>1, <1>6 DEF LoadInvalid, CallOf, ClientState
  <2>2. ans' = [ans EXCEPT ![c] = Promise!Refusal(IF invalidESCfg THEN "invalid" ELSE "notReady")]
    BY <1>6 DEF LoadInvalid, Promise!Refusal, Promise!NoAnswer, NoAnswer, Promise!NoRev, NoRev
  <2>3. QED
    BY <1>2, <2>1, <2>2 DEF Promise!Refuse
<1>7. QED
  BY <1>3, <1>4, <1>5, <1>6 DEF Fetch

\* Every step of the fetcher is a step of the promise or shows nothing.
LEMMA PromiseNext == IInv /\ [Next]_vars => [Promise!Next]_(Promise!vars)
<1> SUFFICES ASSUME IInv, [Next]_vars PROVE Promise!Next \/ UNCHANGED Promise!vars
  OBVIOUS
<1>1. CASE \/ RunCancelled \/ BeginRefresh \/ SearchPage \/ ScrollPage \/ PageFailed \/ PageLost
           \/ ClearScroll \/ ClearFailed
  BY <1>1, PromiseStutter DEF RunCancelled, BeginRefresh, SearchPage, ScrollPage, PageFailed,
    PageLost, ClearScroll, ClearFailed, esVars, sharedVars
<1>2. CASE PageDenied
  <2>1. invalidESCfg' = TRUE /\ UNCHANGED <<rev, cache, cacheInitialized, clientVars>>
    BY <1>2 DEF PageDenied, esVars
  <2>2. UNCHANGED <<ans, View, [c \in Clients |-> CallOf(c)]>>
    BY <2>1 DEF clientVars, View, CallOf
  <2>3. QED
    BY <2>1, <2>2 DEF Promise!Deny, Promise!Next
<1>3. CASE WriteArray \/ WriteLen \/ MarkInitialized
  BY <1>3, PromisePublish DEF Promise!Next
<1>4. ASSUME NEW c \in Clients, Fetch(c) PROVE Promise!Next \/ UNCHANGED Promise!vars
  BY <1>4, PromiseFetch DEF Promise!Next
<1>5. CASE IndexChange
  <2>1. rev < MaxRev /\ rev' = rev + 1 /\ UNCHANGED <<sharedVars, clientVars>>
    BY <1>5 DEF IndexChange
  <2>2. UNCHANGED <<ans, View, invalidESCfg, [c \in Clients |-> CallOf(c)]>>
    BY <2>1 DEF sharedVars, clientVars, View, CallOf
  <2>3. QED
    BY <2>1, <2>2 DEF Promise!Change, Promise!Next
<1>6. CASE (\E s \in ScrollIds : ScrollExpires(s)) \/ Deadline \/ Cancel \/ UNCHANGED vars
  BY <1>6, PromiseStutter DEF ScrollExpires, Deadline, Cancel, vars, esVars, sharedVars, clientVars
<1>7. QED
  BY <1>1, <1>2, <1>3, <1>4, <1>5, <1>6 DEF Next, Run, Environment

\* To its callers the fetcher is a view of the index that is always one whole
\* revision, only moves forward, and serves every Fetch begun after the first
\* publication.
THEOREM Refinement == Spec => KeepsPromise
BY PromiseInit, PromiseNext, InductiveInvariant, PTL DEF Spec, KeepsPromise, Promise!Spec
=============================================================================
