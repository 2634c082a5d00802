-------------------------- MODULE AgentConfigCache --------------------------
(***************************************************************************)
(* What an ElasticsearchFetcher promises its callers, without pages,       *)
(* scrolls, locks or flags: a view of the index that is always one whole   *)
(* revision, that only moves forward, and that every Fetch begun after the *)
(* first publication is served from.                                       *)
(***************************************************************************)
EXTENDS Integers, Sequences

CONSTANTS
    Clients,         \* goroutines calling Fetch
    AgentConfigs,    \* documents an index may hold
    MaxRev,          \* bound: number of changes of the index, a natural number
    Index            \* contents of the index at each revision, [0..MaxRev -> Seq(AgentConfigs)]


VARIABLES
    rev,             \* revision the index is at
    view,            \* revision callers are served from, NoRev before the first
    denied,          \* Elasticsearch answered 401 or 403
    call,            \* state of each client's call
    ans              \* last answer of each client

vars == <<rev, view, denied, call, ans>>

NoRev == -1

\* A Fetch begun before the first publication may be refused, one begun after
\* it may not.
CallState == {"none", "early", "late"}

NoAnswer == [kind |-> "none", rev |-> NoRev, hits |-> <<>>, len |-> 0]
Refusal(k) == [NoAnswer EXCEPT !.kind = k]
Snapshot(r) == [kind |-> "ok", rev |-> r, hits |-> Index[r], len |-> Len(Index[r])]

Init ==
    /\ rev = 0
    /\ view = NoRev
    /\ denied = FALSE
    /\ call = [c \in Clients |-> "none"]
    /\ ans = [c \in Clients |-> NoAnswer]

Change ==
    /\ rev < MaxRev
    /\ rev' = rev + 1
    /\ UNCHANGED <<view, denied, call, ans>>

\* The view moves to a revision that is neither older than it nor ahead of the
\* index.
Publish ==
    /\ view' \in 0..rev
    /\ view' >= view
    /\ UNCHANGED <<rev, denied, call, ans>>

Deny ==
    /\ denied' = TRUE
    /\ UNCHANGED <<rev, view, call, ans>>

Begin(c) ==
    /\ call[c] = "none"
    /\ call' = [call EXCEPT ![c] = IF view = NoRev THEN "early" ELSE "late"]
    /\ UNCHANGED <<rev, view, denied, ans>>

Serve(c) ==
    /\ call[c] = "late"
    /\ ans' = [ans EXCEPT ![c] = Snapshot(view)]
    /\ call' = [call EXCEPT ![c] = "none"]
    /\ UNCHANGED <<rev, view, denied>>

Refuse(c) ==
    /\ call[c] = "early"
    /\ ans' = [ans EXCEPT ![c] = Refusal(IF denied THEN "invalid" ELSE "notReady")]
    /\ call' = [call EXCEPT ![c] = "none"]
    /\ UNCHANGED <<rev, view, denied>>

Next ==
    \/ Change \/ Publish \/ Deny
    \/ \E c \in Clients : Begin(c) \/ Serve(c) \/ Refuse(c)

Spec == Init /\ [][Next]_vars
=============================================================================
