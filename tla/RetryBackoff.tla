---------------------------- MODULE RetryBackoff ----------------------------
(***************************************************************************)
(* The retries of the Elasticsearch client that ToClient builds            *)
(* (src/config/configelasticsearch/esclient.go): all the requests of the   *)
(* client share one ExponentialBackOff, which is not safe for concurrent   *)
(* use, behind the function createElasticsearchBackoffFunc returns.        *)
(*                                                                         *)
(* External: the transport, which sends a request again after it failed as *)
(* long as retries are left, and asks that function how long to wait first;*)
(* and the ExponentialBackOff, whose interval grows by half up to its      *)
(* maximum.  Its random factor is left out: a wait is the interval it is   *)
(* drawn around.  A request that has ended stands for the next one too.    *)
(***************************************************************************)
EXTENDS Integers, FiniteSets

CONSTANTS
    Requests,            \* goroutines sending requests through the client
    Settings,            \* RetrySettings to look at
    LibInitialInterval,  \* intervals of backoff.NewExponentialBackOff
    LibMaxInterval,
    defaultMaxRetries,
    Stop                 \* backoff.Stop, -1, which no interval is

ASSUME RequestsAssumption == IsFiniteSet(Requests)
ASSUME SettingsAssumption ==
    Settings \subseteq [Enabled : BOOLEAN, MaxRetries : Nat,
                        InitialInterval : Int, MaxInterval : Int]
ASSUME LibAssumption ==
    LibInitialInterval \in Nat \ {0} /\ LibMaxInterval \in Nat \ {0}
ASSUME DefaultAssumption == defaultMaxRetries \in Nat
ASSUME StopAssumption == Stop \in Int /\ Stop < 0

VARIABLES
    retry,               \* the RetrySettings of the client
    current,             \* the interval of the shared ExponentialBackOff
    late,                \* its maximum elapsed time has passed since its last Reset
    pc,                  \* where each request is
    attempts,            \* failures of each request so far
    wait,                \* what NextBackOff returns to a request, 0 outside its wait
    reg,                 \* the interval a request is about to replace, 0 if none
    disturbed            \* ghost: another request has used the backoff since the
                         \* first failure of this one

shared == <<current, late>>
local == <<attempts, wait, reg>>
vars == <<retry, current, late, pc, attempts, wait, reg, disturbed>>

\* Being sent, in the backoff function before Reset, before the interval is read,
\* read again and replaced, waiting for the timer, ended.
RequestState == {"send", "reset", "next", "load", "store", "wait", "done", "failed"}

-----------------------------------------------------------------------------
(* The settings ToClient hands to the transport                            *)

maxRetries == IF retry.MaxRetries # 0 THEN retry.MaxRetries ELSE defaultMaxRetries

\* Mutant: an interval that is not set is taken as it is.
InitialAsConfigured == retry.InitialInterval

Initial == IF retry.InitialInterval > 0 THEN retry.InitialInterval ELSE LibInitialInterval

Maximum == IF retry.MaxInterval > 0 THEN retry.MaxInterval ELSE LibMaxInterval

\* incrementCurrentInterval with the multiplier 3/2.
Increment(n) == IF 3 * n >= 2 * Maximum THEN Maximum ELSE (3 * n) \div 2

Init ==
    /\ retry \in Settings
    /\ current = Initial
    /\ late = FALSE
    /\ pc = [r \in Requests |-> "send"]
    /\ attempts = [r \in Requests |-> 0]
    /\ wait = [r \in Requests |-> 0]
    /\ reg = [r \in Requests |-> 0]
    /\ disturbed = [r \in Requests |-> FALSE]

Move(r, from, to) ==
    /\ pc[r] = from
    /\ pc' = [pc EXCEPT ![r] = to]

\* The ghost: r uses the backoff, the series of every other request is disturbed.
Disturb(r) == disturbed' = [q \in Requests |-> disturbed[q] \/ q # r]

-----------------------------------------------------------------------------
Succeed(r) ==
    /\ Move(r, "send", "done")
    /\ UNCHANGED <<retry, shared, local, disturbed>>

\* The request fails and is not sent again.
GiveUp(r) ==
    /\ Move(r, "send", "failed")
    /\ ~retry.Enabled \/ attempts[r] >= maxRetries
    /\ UNCHANGED <<retry, shared, local, disturbed>>

\* Mutant: the first attempt does not reset the backoff.
FailWithoutReset(r) ==
    /\ Move(r, "send", "next")
    /\ retry.Enabled /\ attempts[r] < maxRetries
    /\ attempts' = [attempts EXCEPT ![r] = @ + 1]
    /\ disturbed' = [disturbed EXCEPT ![r] = @ /\ attempts[r] # 0]
    /\ UNCHANGED <<retry, shared, wait, reg>>

\* Mutant: attempts are not counted.
FailUncounted(r) ==
    /\ Move(r, "send", "reset")
    /\ retry.Enabled
    /\ UNCHANGED <<retry, shared, local, disturbed>>

\* The request fails and the backoff function is called with one attempt more;
\* the first attempt resets the backoff.
Fail(r) ==
    /\ Move(r, "send", IF attempts[r] = 0 THEN "reset" ELSE "next")
    /\ retry.Enabled /\ attempts[r] < maxRetries
    /\ attempts' = [attempts EXCEPT ![r] = @ + 1]
    /\ disturbed' = [disturbed EXCEPT ![r] = @ /\ attempts[r] # 0]
    /\ UNCHANGED <<retry, shared, wait, reg>>

\* Mutant: Reset does not see the interval that is configured.
ResetToDefault(r) ==
    /\ Move(r, "reset", "next")
    /\ current' = LibInitialInterval
    /\ late' = FALSE
    /\ Disturb(r)
    /\ UNCHANGED <<retry, local>>

\* The first attempt of any request sets the shared backoff back.
Reset(r) ==
    /\ Move(r, "reset", "next")
    /\ current' = Initial
    /\ late' = FALSE
    /\ Disturb(r)
    /\ UNCHANGED <<retry, local>>

\* NextBackOff: what it will return, and the two halves of its update.
NextBackOff(r) ==
    /\ Move(r, "next", "load")
    /\ wait' = [wait EXCEPT ![r] = IF late THEN Stop ELSE current]
    /\ UNCHANGED <<retry, shared, attempts, reg, disturbed>>

LoadInterval(r) ==
    /\ Move(r, "load", "store")
    /\ reg' = [reg EXCEPT ![r] = current]
    /\ UNCHANGED <<retry, shared, attempts, wait, disturbed>>

StoreInterval(r) ==
    /\ Move(r, "store", "wait")
    /\ current' = Increment(reg[r])
    /\ reg' = [reg EXCEPT ![r] = 0]
    /\ Disturb(r)
    /\ UNCHANGED <<retry, late, attempts, wait>>

\* The timer fires, at once if the wait is negative.
Resend(r) ==
    /\ Move(r, "wait", "send")
    /\ wait' = [wait EXCEPT ![r] = 0]
    /\ UNCHANGED <<retry, shared, attempts, reg, disturbed>>

\* The context of the request is done while it waits.
Abandon(r) ==
    /\ Move(r, "wait", "failed")
    /\ wait' = [wait EXCEPT ![r] = 0]
    /\ UNCHANGED <<retry, shared, attempts, reg, disturbed>>

\* The goroutine sends its next request.
Again(r) ==
    /\ pc[r] \in {"done", "failed"}
    /\ pc' = [pc EXCEPT ![r] = "send"]
    /\ attempts' = [attempts EXCEPT ![r] = 0]
    /\ UNCHANGED <<retry, shared, wait, reg, disturbed>>

\* MaxElapsedTime (15 minutes, which the code leaves as it is) passes after the
\* last Reset.  A request may take that long to fail, the backoff function takes
\* no time.
TimePasses ==
    /\ ~late
    /\ \A r \in Requests : pc[r] \in {"send", "wait", "done", "failed"}
    /\ late' = TRUE
    /\ UNCHANGED <<retry, current, pc, local, disturbed>>

Backoff(r) == Fail(r) \/ Reset(r) \/ NextBackOff(r) \/ LoadInterval(r) \/ StoreInterval(r)

Next ==
    \/ \E r \in Requests : Succeed(r) \/ GiveUp(r) \/ Backoff(r) \/ Resend(r) \/ Abandon(r) \/ Again(r)
    \/ TimePasses

Spec == Init /\ [][Next]_vars

\* A request that is sent is answered or fails, the backoff function runs, and
\* the timer fires.
FairSpec ==
    /\ Spec
    /\ \A r \in Requests :
        WF_vars(Succeed(r) \/ GiveUp(r) \/ Backoff(r) \/ Resend(r) \/ Abandon(r))

-----------------------------------------------------------------------------
(* Properties                                                              *)

\* Every variable has its type.
TypeOK ==
    /\ retry \in Settings
    /\ current \in Nat \ {0}
    /\ late \in BOOLEAN
    /\ pc \in [Requests -> RequestState]
    /\ attempts \in [Requests -> Nat]
    /\ wait \in [Requests -> Nat \cup {Stop}]
    /\ reg \in [Requests -> Nat]
    /\ disturbed \in [Requests -> BOOLEAN]

\* The n-th interval of a backoff nobody else uses.
Rung[n \in 1..maxRetries] == IF n = 1 THEN Initial ELSE Increment(Rung[n - 1])

\* However requests interleave in the shared backoff, losing and repeating its
\* updates, an interval it returns lies between the first one and the maximum.
WaitsInRange ==
    \A r \in Requests : pc[r] = "wait" /\ wait[r] # Stop =>
        \/ wait[r] = Initial \/ wait[r] = Maximum
        \/ Initial < wait[r] /\ wait[r] < Maximum

\* A request whose series no other request has disturbed waits the n-th interval
\* after its n-th failure: nothing is left over from requests before it.
BacksOffAlone ==
    \A r \in Requests : pc[r] = "wait" /\ ~disturbed[r] /\ wait[r] # Stop =>
        wait[r] = Rung[attempts[r]]

\* Every request ends.
RequestEnds == \A r \in Requests : pc[r] = "send" ~> pc[r] \in {"done", "failed"}

\* "InitialInterval configures the initial waiting time if a request failed"
\* (configclient.go:101).
FirstWaitIsInitial ==
    \A r \in Requests : pc[r] = "wait" /\ attempts[r] = 1 /\ wait[r] # Stop =>
        wait[r] = Initial

\* "Failed sends are retried with exponential backoff" (configclient.go:95): a
\* request is sent again only after a wait.
RetriesArePaced == \A r \in Requests : pc[r] = "wait" => wait[r] > 0
=============================================================================
