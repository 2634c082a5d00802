# Formal models of opentelemetry-lib

TLA+ models of the Go code of this repository, checked with TLC on small
instances, and theorems about them checked with TLAPS for every value of the
constants. `PROJECT.json` lists, for every definition, the source lines it
models; the hazards of the code with the properties that cover them; and the
disagreements between code and documentation that the models show.

## 1. Inventory

### agentcfg: central configuration of APM agents

**`ElasticsearchFetcher`** (`agentcfg/elasticsearch.go`). Caches all agent
configurations of an Elasticsearch index.
State: `cache` (a slice: array and length, behind the RWMutex `mu`),
`cacheInitialized` and `invalidESCfg` (atomic booleans).
Operations: `Run` (a goroutine: refresh at start and on every tick, return on
cancellation or on a 401/403), `refreshCache` (search, scroll page by page,
clear the scroll on every way out, replace the cache), `Fetch` (called from any
goroutine).
Interactions: with Elasticsearch, through the client of `configelasticsearch`,
whose transport retries; with `matchAgentConfig`, which Fetch applies to the
slice it has read.
Hard: readers race with the writer of a two-word slice header; the order of the
write of the cache and of the flag; requests that fail, are denied, time out or
lose their answer at every page; an index that changes during a refresh; a
scroll left open; cancellation while a refresh is under way.
Correct if: every answer is computed from one whole revision of the index, a
successful refresh is not older than its beginning, a client that has been
served is never refused or set back, no scroll is left open unless clearing it
failed, and refreshes, `Run` and `Fetch` end.

**`matchAgentConfig`** (`agentcfg/fetch.go`). One loop over the cached slice
that keeps three pointers and breaks at an exact match.
Correct if: the most specific configuration is answered wherever it stands, and
ties are resolved always in the same way.

**The model types** (`agentcfg/model.go`). `Query`, `Result`, `zeroResult`.

### config/configelasticsearch: the Elasticsearch client

**Retries** (`esclient.go`). `ToClient` hands the transport a maximum of retries
and a backoff function. State: one `ExponentialBackOff`, not synchronised,
shared by all requests of the client. Hard: `Reset`, the read and the update of
the interval interleave between requests; the library's maximum elapsed time;
settings that are zero. Correct if: waits stay in range, a request alone climbs
the ladder of intervals from its first step, and every request ends.

**`ClientConfig`** (`configclient.go`, `ToClient` in `esclient.go`).
State: the fields of the configuration, never written, and the environment
variable `ELASTICSEARCH_URL` of the process.
Operations: `Validate` checks the endpoints (`endpoints`, `parseCloudID`,
`validateEndpoint`) and the settings; `ToClient` finds the endpoints anew and
builds a client from them.
Interactions: a collector calls `Validate` and, later, the component that needs
a client calls `ToClient`; neither asks whether the other ran. `confighttp`
validates and builds the HTTP client, `elasticsearch.NewClient` parses the
addresses again.
Hard: endpoints in any combination of three fields; the environment, which
counts only if no field is set and is read twice; an empty list, for which the
library would take addresses of its own; settings only `Validate` refuses.
Correct if: a client has the addresses of exactly one source, and, once
`Validate` has accepted, `ToClient` does not fail over endpoints, the addresses
speak HTTP and a request is sent as often as the settings say.

**`clientLogger`** (`esclient.go`). The transport calls `LogRoundTrip` after
every attempt; the logger reads to their ends the bodies it logs.
Hard: the bodies are streams that the server and the caller need as well; the
request is sent again, and its body may be compressed.
Correct if: logging takes nothing from the server or the caller, and a record
shows what was sent and answered.

### remappers: OTel metrics to Elastic metrics

**`remappedmetric`**: `Metric.Valid`, `Add`, `ChainedMutator`.
**`hostmetrics`** and **`kubernetesmetrics`**: `Remap` selects a remap function
by the last element of the scope's name, and that function reads the scope's
metrics and appends metrics to `out`. No state is kept between calls. Seven
functions (cpu, memory, load, process, processes, kubelet, cluster) fold the
scope into local variables and append at the end; filesystem, disk and network
append while they read, and filesystem also keeps a map of devices.
Hard: points come in any order and some are missing; timestamps may be zero,
and a metric without one is dropped by `Add`; totals and parts are computed
separately; `out` may be the slice being read; a map is ranged over.
Correct if: totals agree with their parts in every order of the points, a
folding remapper appends all or nothing, every device gets its totals once, and
nothing appended is remapped again.

**`common`** holds attribute names, **`testutils`** and **`tools`** serve tests
and builds.

## 2. Modules

| Module | What it models |
|---|---|
| `AgentConfigCache` | abstract: what the fetcher promises to callers of `Fetch` |
| `ElasticsearchFetcher` | the fetcher in detail, with Elasticsearch as environment; `Promise == INSTANCE AgentConfigCache` |
| `FetcherOverRetryingClient` | the fetcher over a transport that sends a request again when its answer is lost (extends the above) |
| `AgentConfigMatch` | the loop of `matchAgentConfig` |
| `ClientConfig` | a configuration, `Validate` and `ToClient`, with the environment changing |
| `ElasticsearchClient` | a request of the client built: attempts, retries and `clientLogger` (extends the above) |
| `RetryBackoff` | requests of one client sharing one backoff |
| `RemappedMetric` | `Metric`, `Valid`, `Add`, `ChainedMutator` as operators |
| `FoldedMetrics` | the seven folding remap functions as operators |
| `DeviceMetrics` | filesystem, disk and network as operators |
| `ScopeRemapper` | one call of `Remap` of either package, point by point (extends the two above, and with them `RemappedMetric`) |
| `MC...` | constants of the small instances |
| `..._proofs` | theorems and proofs |

### ElasticsearchFetcher

The program counter `pc` follows `Run` and `refreshCache`: `start`, `request`
(a page is awaited), `clearOk` and `clearErr` (the call of `clearScroll`
after success or failure, on success before the lock is taken), `lock`,
`write`, `mark`, `idle`, `stopped` (after 401/403), `cancelled`. Each access to
shared state is an action of its own: `WriteArray` and `WriteLen` are the two
words of the slice, so a read without the lock is a torn read; `MarkInitialized`
follows; `FetchBegin` loads the flag, `FetchRLock` and `FetchRead` read under the
read lock, `LoadInvalid` is the other branch of `Fetch`. An outcome of a request
is an action: a page (`SearchPage`, `ScrollPage`), an error (`PageFailed`), 401
or 403 (`PageDenied`), an answer that was lost although Elasticsearch opened or
moved the scroll (`PageLost`), the same for clearing. The environment changes the
index (`IndexChange`), lets scrolls expire, lets the refresh time out
(`Deadline`) and cancels (`Cancel`). A revision of the index is a number and its
contents the constant `Index`. `beginRev`, `orphans` and the revision kept with
a page are ghosts.

Left out: logging, `f.last` (written, never read), the contents of documents.

### AgentConfigMatch

Action by action the branches of the loop, in the order of the code, with the
`break` of the exact match and the assignments of the others; `Pick` is the code
after the loop. Names and environments include the empty string, which stands
for "any" in a configuration and for "none" in a query.

### RetryBackoff

`Fail` calls the backoff function; `Reset`, `NextBackOff` and the two halves of
the library's update of the interval (`LoadInterval`, `StoreInterval`) are steps,
so that requests interleave as goroutines do. The random factor (each wait is
within half of its interval on either side) is left out: `wait` is the interval
it is applied to. `TimePasses` is the passing of the 15 minutes of
`MaxElapsedTime`, and happens while no request is inside the backoff function.

### ClientConfig and ElasticsearchClient

An address is what `Validate` and `url.Parse` can see of a URL: its scheme, the
labels of its host, and whether blanks surround it (`strings.TrimSpace` is
applied to the environment only). A cloud id is what `parseCloudID` asks of it:
a colon, base64, the parts between the dollar signs. `endpoints` has the order
of the code: a cloud id that cannot be read is an error before fields are
counted. `Validate`, `Setenv` (any other code of the process) and the outcomes
of `ToClient` interleave until there is a client or an error; `Validate` may be
called never or repeatedly. `Vouched` says that it has accepted what `ToClient`
finds.

`ElasticsearchClient` then follows one request. The transport is external:
`Send`, `RoundTrip` (the connection fails, or the server answers with some
status), `Log` and `Return` are modelled from the contract the code relies on,
which is that the transport duplicates a body for the logger exactly if
`RequestBodyEnabled` or `ResponseBodyEnabled` asks for it, and rewinds the
request before it sends it again. A body is `whole` or `spent`, and `record`
holds what the last log record shows of each body.

Left out: the discovery settings and the instrumentation, which are handed to
the library unread; the fields of a log record other than the bodies.

### ScopeRemapper

A metric with its points is flattened into points that know whether they are
their metric's first (what `At(0)` reads). The environment chooses the points
one at a time and `seen` keeps them for the properties. The locals of a folding
remapper are a function `acc`; what a point does to them (`Effect`) is a set of
assignments and of increments, written from the `switch` of each function.
Values are ratios `<<n, d>>`, floats in hundredths, and arithmetic is exact.
Timestamps count units of which `Millisecond` make a millisecond: `10^6` in the
code, two in the instances, where a point may be taken in the millisecond of the
process's start. `UnixMilli` and `RFC3339` cut off what is finer, as the code
does before it subtracts (`ProcessRuntime`) and when it puts the start into an
attribute.
`inPlace` says that `src.Metrics()` and `out` are one slice, which the interface
allows: the loops ask for `src.Len()` on every turn, so they read on into what
they have appended (`ReadBack`). Inputs are points as the receivers document
them: each metric has the documented type and at least one point.
`LookedAt` and `Inert` say which metrics a remapper passes over. Four facts
about the constants are assumptions, which TLC evaluates for the instances:
`MillisecondAssumption` (a millisecond is at least one unit),
`InputsAssumption` (points have the fields and kinds of a data point, and the
filesystem reports counts that are not negative), `EarlierAssumption` (`out`
holds what an earlier call of the same remapper has left) and `NamesAssumption`
(a name that disk or network puts together, `system.diskio.` or
`system.network.` and more, is none of those they look at, which the prover,
having no theory of joined strings, cannot see).

## 3. Runs

| Run | What it checks | Distinct states |
|---|---|---|
| `agent_config_match` | precedence and ties for all slices of up to 3 of 18 configurations and 9 queries | 297 k |
| `fetcher_safety` | two clients against refreshes of one to three requests with every failure: snapshots, freshness, scrolls, no refusal after service, and the refinement of `AgentConfigCache` (`KeepsPromise`) | 604 k |
| `fetcher_liveness` | refreshes, `Run` after cancellation and `Fetch` end; the cache catches up once faults and changes have ceased | 65 k |
| `retry_backoff` | two requests, four settings: range of waits, the ladder of an undisturbed request, termination | 54 k |
| `elasticsearch_client` | every combination of the endpoint fields with five values of the environment, which may change at any time, and every combination of the settings: `Validate` against `ToClient`, the number of attempts, and what the logger leaves and shows | 897 k |
| `remap_folds` | every scope of up to 3 points for the folding remappers, and scopes that are ignored | 63 k |
| `remap_devices` | every scope of up to 4 points for filesystem, disk and network, in place and not, without the data stream that `remap_folds` configures | 335 k |

Five more runs end in a violation, of what a comment or a test of the repository says:

| Run | What it shows |
|---|---|
| `insecure_agents` | `Query.InsecureAgents` is documented to restrict the settings answered; no code reads it |
| `scroll_retried` | a scroll request whose answer is lost is sent again by the transport and returns the next page: one page is missing from a refresh that succeeds |
| `backoff_first_wait` | a request that fails for the first time does not wait `InitialInterval` if another fails at the same time |
| `backoff_stop` | after 15 minutes without `Reset`, `NextBackOff` returns `Stop` (-1), taken as a duration: retries go out without a wait |
| `remap_processor` | no metric gets the `event.processor` attribute described with the `Remapper` types |

### Bounds

* Fetcher: `MaxRev` 2 gives indices of one page, of two pages and empty, so a
  cache is replaced by a longer and by a shorter one; `SearchSize` 1 makes every
  document a page; two scroll ids are a scroll in use and one that was not
  cleared; two clients are a reader that holds the lock and one that waits.
  The liveness run has one client, one change of the index and no symmetry.
* Match: three configurations are the least with one pointer set twice and then
  overruled by a more specific match.
* Backoff: with two requests every update can be lost or repeated; the settings
  are the defaults, all left to the library, an initial interval above the
  maximum, and retries disabled. Intervals are in units of 100 ms.
* Client: an address is empty, HTTP, without a scheme, of another scheme,
  unparsable or padded, in each of the places where it may stand; there is a
  cloud id for every branch of `parseCloudID` and one whose address does not
  parse. `MaxRetries` is -1 (refused), 0 (the default of two), 1 and 2; the
  list of statuses to retry is the default one or unset, when the transport has
  a list of its own, and there is a status for either list and for none. Combinations of endpoints are checked with
  default settings, and combinations of settings with one endpoint: only which
  of two errors `Validate` reports depends on both.
* Remappers: three points are enough for a core count before, between and after
  two utilisations, and for the three states of a process's time; four for two
  points of each of two devices. Points repeat labels, lack a timestamp, an
  attribute or the expected kind of value; those of a process are taken in the
  millisecond of its start, in the next but less than one later, or later still,
  or before a start another point reports. `Earlier` puts the metric of an
  earlier call into the slice.

`CHECK_DEADLOCK FALSE` stands where the code modelled is a function that returns.

### Fairness

* Fetcher: `Run` and `refreshCache` do not stop between two statements (WF of
  their steps). The select of `Run` chooses at random among ready channels, so a
  cancellation that stays pending is chosen in the end (SF of `RunCancelled`).
  Go's RWMutex lets waiting readers in before the next writer (SF of
  `FetchRLock`). A refresh has a deadline, and an aborted request returns an
  error (WF of `Deadline`, and of the failures once aborted). Elasticsearch
  drops scrolls nobody uses. It is never obliged to answer, and nobody to call
  `Fetch` or `Cancel`.
* Backoff: a request sent is answered or fails, the backoff function runs, the
  timer fires (WF). That a request sent ends is due to its caller's context,
  to which the fetcher gives a deadline: the `Timeout` of 90 s in
  `NewDefaultClientConfig` does not apply, as `ToClient` passes on only the
  `Transport` of the HTTP client.
* Client: safety only.
* Remappers: sequential code that waits for nothing (WF of `Next`); what `Returns`
  checks is that a loop in place does not feed itself.
* Match: safety only, as a `range` over a slice ends.

## 4. Theorems

The theorems hold for every value of the constants under the assumptions the
modules name: any set of clients, any index and page size, any slice and
query, any retry settings, any number of requests.

* `AgentConfigMatch_proofs`: `TypeCorrect`, `MatchPrecedence`
  (`MostSpecificWins`) and `MatchTies` (`TieBreak`). The invariant says of each
  pointer what the part of the slice already read implies: no exact match
  before, and the pointer at the last match of its kind, or 0 if there is none.
* `ElasticsearchFetcher_proofs`: `TypeCorrect`, `SnapshotAnswers`,
  `FreshPublication`, `ScrollsCleared`, `ServedForever`, and `Refinement` (the
  fetcher implements `AgentConfigCache`). None of the properties is inductive:
  that an answer is a snapshot depends on the header a reader holds, that on
  what the cache was when it took the lock, and that on the buffer of a refresh
  being a prefix of one revision as long as the scroll's position. `IInv` names
  these parts: `BufferInv` (the buffer against the scroll it comes from),
  `RevInv` (the cache is not ahead of the refresh, nor that of the index), `CacheInv` (the cache is whole except between
  its two writes), `ClientInv` (what a reader under the lock has read),
  `ScrollInv` (which scrolls are open at each point). For the refinement,
  `view` is the revision of the cache once it is marked; `MarkInitialized` after
  the first refresh and `WriteArray` in a later one are `Publish`, a denied
  request is `Deny`, a change of the index `Change`, the steps of `Fetch` are
  `Begin`, `Serve` and `Refuse`, and every other step is a stutter. The proofs
  have one lemma for each action.
* `RetryBackoff_proofs`: `TypeCorrect` (the interval stays positive),
  `WaitsBetween` (`WaitsInRange`): the shared interval, and each copy a request
  holds of it, are in the range, so that lost and repeated updates cannot leave
  it; and `LadderClimbed` (`BacksOffAlone`): `LadderInv` says of every request
  that is not disturbed where it stands on the ladder (`OnLadder`: the shared
  interval, its copy and its wait against the rung of its attempts), and of all
  requests how attempts are counted. The ladder is a recursive function; that it
  exists for any number of retries (`LadderExists`) is shown by induction, in the
  form that the natural numbers are contained in every set closed under
  successor (`NatSetInduction`), which needs no operator as a parameter.
* `ElasticsearchClient_proofs`: `TypeCorrect`, `AddressesValidated`,
  `FailuresForeseen`, `SingleSource`, `AttemptsBounded`, `LoggerTransparent` and
  `LoggerTruthful`, for any configurations, environments and statuses.
  `ConfigInv`: the verdict is that on the environment `Validate` saw, and the
  client or the error is that of the present environment, which does not change
  after `ToClient`. `AttemptsInv`: how the attempts made stand to the client's
  settings at each point. `BodiesInv`: a request about to be sent is whole, and
  the last record is true.
* `RemappedMetric_proofs`: what the loop of `Add` does to any slice
  (`AddLoop`, `AddExtends`, `AddAll`), by the same induction.
* `ScopeRemapper_proofs`: `EveryOutputMarked` (`OutputsMarked`), `TypeCorrect`
  (`TypeOK`), `NothingFedBack` (`InPlaceInert`) and `NoNilDereference`
  (`NoPanic`). `MarksInv`: `out` is the metrics it held before and then marked
  ones, and past its early returns `Remap` knows its scope; the proof rests on no
  remapper overwriting a mark but with itself (`DeviceMutators`,
  `FoldedMutators`), and on the chain of mutators keeping what its first has put
  (`AppendedMarked`). `TypeInv` adds to the types that every metric in `out` is
  inert (`OutType`): every name a remapper writes is outside the set of those it
  looks at (`FoldedMetricsType`, `PointMetricsType`, `DeviceTotalsType`,
  `PassedMetricsType`), so a metric read back changes nothing (`ReadInert`). All
  the other invariants need this, since a loop in place reads what it appends.
  The module also has the lemmas about sums over the points read (`SumToStep`,
  `SumToAgree`, `SumToType`).
* `FoldedRemapper_proofs`, for the remappers that fold: `AppendsAllOrNothing`
  (`AllOrNothing`), `CpuAddsUp` (`CpuBalanced`), `MemoryAddsUp`
  (`MemoryBalanced`), `TotalsAddUp` (`TotalsCoverParts`) and `RunsForward`
  (`RuntimePositive`). All of these speak of the metrics in the end; `FoldInv`
  is what holds at every turn of the loop. `AppendedAtEnd`: `out` is untouched
  until the call appends its metrics, all at once. `StampsKept`: each timestamp
  local is one of those of the points looked at, and zero only if all of them
  are. `SumsKept` relates the locals to sums over the points read so far, and
  says more than the balance in the end does. Where a state is reported at most
  once, as `MemoryBalanced` supposes, the locals
  `used.bytes` and `free` add up to zero at every turn (a `free` point takes
  from the one what it puts in the other, and the total joins `used.bytes` only
  on the way out), and as long as no `free` was read both are zero; the parts
  of the processor's time are the sums of their states and the core count is
  that of the last point that has one. `MemoryEffect`, `ProcessEffect`,
  `ProcessesEffect` and `CpuEffect` say what one point does to the locals, the
  `...Step` lemmas what that does to the sums, and `CpuAppended`,
  `ProcessAppended` and `ProcessesAppended` where each local stands among the
  metrics appended. `RunsForward` needs of the cut to milliseconds that it keeps
  the order of timestamps, and strictly that of timestamps a millisecond apart
  (`UnixMilliOrder`). It does not say that the share of the processor is always
  finite: a point taken less than a millisecond after the start may give a run
  time of zero, and the model has such behaviours.
* `DeviceRemapper_proofs`, for those that append while they read:
  `PointsConveyed` (`EveryPointOnce`) and `DevicesAddUp` (`FilesystemBalanced`).
  `PassInv` says at every turn of disk and network that the metrics appended are
  as many as the points that pass, and that each point is at its rank.
  `DeviceInv` says for each device that the bytes measured are those appended
  and those dropped for want of a timestamp (`Balance`), with the used bytes
  between zero and the total, and that exactly the devices the last loop has
  visited have their totals (`Totalled`). In the second loop no order of the
  devices is assumed; metrics of different devices do not mix because their
  attributes tell their keys apart (`KeysApart`).

The inductive invariants named above hold in the instances of `remap_folds` and
of `remap_devices` (there with scopes of up to 3 points) when TLC is given them
as invariants.

Every invariant that a run checks, each action property and the refinement are
theorems. Only model-checked: liveness (`RefreshTerminates`,
`CancelStops`, `FetchReturns`, `EventuallyFresh`, `RequestEnds`, `Returns`),
which is outside the prover's reach, and the violations.

## 5. Not modelled

* Of `ClientConfig`: the discovery settings and the instrumentation, which
  `ToClient` hands to the library and never reads; the contents of the HTTP
  settings, which `confighttp` validates (`httpValid`).
* `Settings.UnmarshalJSON` and `newResult` (`model.go`): conversions that no
  code of the repository but its tests calls; the fetcher decodes settings into
  a plain map.
* `testutils`, `tools`: they serve tests and builds.
* Widths of integers and rounding of floats: the sums concerned are of byte
  counts and shares, far from the limits. The `hazards` list keeps them.
* Panics on metrics of undocumented shape (`At(0)` of a metric without points,
  `Sum()` of a gauge): the receivers do not produce them; that remapped metrics
  do not cause them either is checked (`NoPanic`).

## 6. Plan

Done: the fetcher and its refinement, the match, the backoff, the client and its
configuration, the remappers; theorems about each, for every safety property
checked. Next:

1. A fetcher composed with `AgentConfigMatch`, so that what `Fetch` answers is
   stated of the index and the query, with the theorem that it is the most
   specific configuration of one revision.
2. An abstract specification of a call of `Remap` (nothing, then all the metrics
   of the points read) that the folding remappers implement, from `FoldInv`.
3. The bound of the number of scrolls left open by the failures that left them,
   and the time budget of a refresh split over its requests.
