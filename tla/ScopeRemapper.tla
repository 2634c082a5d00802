----------------------------- MODULE ScopeRemapper -----------------------------
(***************************************************************************)
(* One call of Remap(src, out, resource) of remappers/hostmetrics or of    *)
(* remappers/kubernetesmetrics, point by point.                            *)
(*                                                                         *)
(* The scope's points are chosen one at a time as the loop reads them, and *)
(* seen keeps them.  out may hold metrics of an earlier call already.  The *)
(* interface takes two slices and does not forbid that they are one: then  *)
(* (inPlace) the loop, which asks for src.Len() on every turn, also reads  *)
(* the metrics in out, behind those of the scope.                          *)
(***************************************************************************)
EXTENDS FoldedMetrics, DeviceMetrics

CONSTANTS
  Scopes,              \* scope names: [receiver, base], base being the last path element
  Inputs,              \* Inputs[base]: the points the receiver may report in the scope
  Resources,           \* the attributes of a resource, as functions from labels
  Earlier,             \* what out holds when Remap is called
  IntegrationDataset,  \* WithSystemIntegrationDataset, WithKubernetesIntegrationDataset
  MaxPoints            \* bound: points of a scope

VARIABLES
  pc,         \* idle, loop, tail, devices, done
  package,    \* the package of the Remapper called
  scope,      \* the arguments of the call ...
  resource,
  inPlace,    \* ... and whether src.Metrics() and out are the same slice
  seen,       \* the points of the scope read so far
  fed,        \* the number of points of out the loop has read
  out,
  acc,        \* the locals of a remapper that folds the scope
  devices,    \* deviceMetricsMap of the filesystem remapper
  left,       \* the devices its last loop has not visited
  timestamp,
  startTimestamp

call == <<package, scope, resource, inPlace>>
locals == <<acc, devices, timestamp, startTimestamp>>
vars == <<pc, call, seen, fed, out, locals, left>>

HostDatasets ==
  [cpuscraper |-> "system.cpu", diskscraper |-> "system.diskio",
   filesystemscraper |-> "system.filesystem", loadscraper |-> "system.load",
   memoryscraper |-> "system.memory", networkscraper |-> "system.network",
   pagingscraper |-> "system.memory", processesscraper |-> "system.process.summary",
   processscraper |-> "system.process"]
KubernetesDatasets ==
  [kubeletstatsreceiver |-> "kubernetes.pod", k8sclusterreceiver |-> "kubernetes.node"]

Datasets == [hostmetrics |-> HostDatasets, kubernetesmetrics |-> KubernetesDatasets]
Packages == DOMAIN Datasets

\* The scrapers with a remap function: the paging scraper has only a dataset.
RemapFuncs ==
  [hostmetrics |-> {"cpuscraper", "memoryscraper", "loadscraper", "processscraper",
                    "processesscraper"} \union DeviceScrapers,
   kubernetesmetrics |-> {"kubeletstatsreceiver", "k8sclusterreceiver"}]

\* Remapper.Valid: the prefix of the scope's name is that of a receiver.
ValidScope(p, sc) ==
  IF p = "hostmetrics" THEN sc.receiver = "hostmetricsreceiver"
  ELSE sc.receiver \in {"kubeletstatsreceiver", "k8sclusterreceiver"}

\* The early returns of Remap: not our scope, no dataset, no remap function.
Handled(p, sc) ==
  /\ ValidScope(p, sc)
  /\ sc.base \in DOMAIN Datasets[p]
  /\ sc.base \in RemapFuncs[p]

\* Mutant: the data stream is put whether configured or not.
DatasetMutatorAlways ==
  LET dataset == Datasets[package][scope.base]
      labels == {EventDatasetLabel, DatastreamDatasetLabel}
                  \union (IF package = "hostmetrics" THEN {EventModuleLabel} ELSE {})
  IN  [l \in labels |-> IF l = EventModuleLabel THEN "system" ELSE dataset]

DatasetMutator ==
  LET dataset == Datasets[package][scope.base]
      labels == {EventDatasetLabel}
                  \union (IF package = "hostmetrics" THEN {EventModuleLabel} ELSE {})
                  \union (IF IntegrationDataset THEN {DatastreamDatasetLabel} ELSE {})
  IN  [l \in labels |-> IF l = EventModuleLabel THEN "system" ELSE dataset]

Folding == scope.base \in FoldScrapers
Filesystem == scope.base = "filesystemscraper"

\* The names of the metrics a remapper looks at.
LookedAt(base) ==
  CASE base \in FoldScrapers -> DOMAIN Single[base] \union DOMAIN Grouped[base]
    [] base = "filesystemscraper" -> FilesystemMetrics
    [] base = "diskscraper" -> DOMAIN DiskNames
    [] base = "networkscraper" -> DOMAIN NetworkNames
    [] OTHER -> {}

\* A metric in out that the remapper passes over if it reads it back.  That of
\* the network asks each metric for its Sum before it looks at its name.
Inert(base, dp) ==
  /\ dp.name \notin LookedAt(base)
  /\ base = "networkscraper" => dp.type = "Sum"

IsPoint(dp) ==
  /\ dp.type \in {"Sum", "Gauge"} /\ dp.first \in BOOLEAN
  /\ dp.kind \in {"int", "double", "empty"} /\ dp.value \in Int \X Int
  /\ dp.ts \in Nat /\ dp.start \in Nat

ASSUME BoundAssumption == MaxPoints \in Nat

\* The points of the receivers; the filesystem's are counts of bytes and inodes.
ASSUME InputsAssumption ==
  \A sc \in Scopes : \A dp \in Inputs[sc.base] :
    /\ IsPoint(dp)
    /\ sc.base = "filesystemscraper" => dp.value[1] \in Nat

\* A fact about the strings that are put together: they are none of the names
\* the remapper looks at, and not empty.
ASSUME NamesAssumption ==
  \A sc \in Scopes : \A dp \in Inputs[sc.base] :
    /\ sc.base = "diskscraper" /\ DiskPassesOn(dp) =>
         DiskMetric(dp).name \notin LookedAt(sc.base) \union {""}
    /\ sc.base = "networkscraper" /\ NetworkPassesOn(dp) =>
         NetworkMetric(dp).name \notin LookedAt(sc.base) \union {""}

\* The slice holds what an earlier call of the same remapper has appended.
ASSUME EarlierAssumption ==
  /\ Earlier \in Seq({Earlier[i] : i \in DOMAIN Earlier})
  /\ \A i \in DOMAIN Earlier :
       IsPoint(Earlier[i]) /\ \A sc \in Scopes : Inert(sc.base, Earlier[i])

-------------------------------------------------------------------------------
Init ==
  /\ pc = "idle"
  /\ package \in Packages
  /\ scope \in Scopes
  /\ resource \in Resources
  /\ inPlace \in BOOLEAN
  /\ seen = <<>>
  /\ fed = 0
  /\ out = Earlier
  /\ acc = IF Handled(package, scope) /\ Folding
           THEN [l \in Locals[scope.base] |-> 0] ELSE Empty
  /\ devices = Empty
  /\ left = {}
  /\ timestamp = 0
  /\ startTimestamp = 0

\* Remap returns without having touched out.
Ignore ==
  /\ pc = "idle"
  /\ ~Handled(package, scope)
  /\ pc' = "done"
  /\ UNCHANGED <<call, seen, fed, out, locals, left>>

Begin ==
  /\ pc = "idle"
  /\ Handled(package, scope)
  /\ pc' = "loop"
  /\ UNCHANGED <<call, seen, fed, out, locals, left>>

\* Mutant: a timestamp local takes every timestamp.
StampedAnew(stamp, t) == t

\* A timestamp local keeps the first that is not zero.
Stamped(stamp, t) == IF stamp = 0 THEN t ELSE stamp

\* Mutant: the start of the process is taken from the wrong timestamp.
ReadFoldedStartAtTimestamp(dp) ==
  /\ Folding
  /\ acc' = Folded(acc, Effect(scope.base, dp))
  /\ IF Relevant(scope.base, dp)
     THEN /\ timestamp' = Stamped(timestamp, dp.ts)
          /\ startTimestamp' = Stamped(startTimestamp, dp.ts)
     ELSE UNCHANGED <<timestamp, startTimestamp>>
  /\ UNCHANGED <<out, devices>>

ReadFolded(dp) ==
  /\ Folding
  /\ acc' = Folded(acc, Effect(scope.base, dp))
  /\ IF Relevant(scope.base, dp)
     THEN /\ timestamp' = Stamped(timestamp, dp.ts)
          /\ startTimestamp' = Stamped(startTimestamp, dp.start)
     ELSE UNCHANGED <<timestamp, startTimestamp>>
  /\ UNCHANGED <<out, devices>>

\* The timestamp is that of the last point read, one without a key included.
ReadFilesystem(dp) ==
  /\ Filesystem
  /\ IF dp.name \in FilesystemMetrics
     THEN /\ timestamp' = dp.ts
          /\ IF HasDeviceKey(dp)
             THEN /\ devices' = DeviceUsage(devices, dp)
                  /\ out' = Add(out, ChainedMutator(DatasetMutator, FilesystemAttrs(DeviceKey(dp))),
                                PointMetrics(dp))
             ELSE UNCHANGED <<devices, out>>
     ELSE UNCHANGED <<timestamp, devices, out>>
  /\ UNCHANGED <<acc, startTimestamp>>

ReadDisk(dp) ==
  /\ scope.base = "diskscraper"
  /\ out' = IF DiskPassesOn(dp)
            THEN Add(out, ChainedMutator(DatasetMutator, DiskAttrs(dp)), <<DiskMetric(dp)>>)
            ELSE out
  /\ UNCHANGED locals

ReadNetwork(dp) ==
  /\ scope.base = "networkscraper"
  /\ out' = IF NetworkPassesOn(dp)
            THEN Add(out, ChainedMutator(DatasetMutator, NetworkAttrs(dp)), <<NetworkMetric(dp)>>)
            ELSE out
  /\ UNCHANGED locals

Read(dp) ==
  \/ ReadFolded(dp)
  \/ ReadFilesystem(dp)
  \/ ReadDisk(dp)
  \/ ReadNetwork(dp)

\* A point that is not its metric's first follows one of the same metric.
ReadPoint(dp) ==
  /\ pc = "loop"
  /\ Len(seen) < MaxPoints
  /\ dp.first \/ (seen # <<>> /\ seen[Len(seen)].name = dp.name)
  /\ seen' = Append(seen, dp)
  /\ Read(dp)
  /\ UNCHANGED <<pc, call, fed, left>>

EndOfScope ==
  /\ pc = "loop"
  /\ pc' = "tail"
  /\ UNCHANGED <<call, seen, fed, out, locals, left>>

\* Mutant: the loop does not get past an appended metric, or skips every other.
ReadBackStays ==
  /\ pc = "tail" /\ inPlace /\ fed < Len(out)
  /\ Read(out[fed + 1])
  /\ UNCHANGED <<pc, call, seen, fed, left>>
ReadBackSkips ==
  /\ pc = "tail" /\ inPlace /\ fed < Len(out)
  /\ Read(out[fed + 1])
  /\ fed' = fed + 2
  /\ UNCHANGED <<pc, call, seen, left>>

\* In place, the loop goes on with what it and earlier calls have appended.
ReadBack ==
  /\ pc = "tail"
  /\ inPlace
  /\ fed < Len(out)
  /\ fed' = fed + 1
  /\ Read(out[fed + 1])
  /\ UNCHANGED <<pc, call, seen, left>>

LoopEnded == pc = "tail" /\ (inPlace => fed = Len(out))

AppendFolded ==
  /\ LoopEnded
  /\ Folding
  /\ pc' = "done"
  /\ out' = Add(out,
                ChainedMutator(DatasetMutator, OwnMutator(scope.base, resource, startTimestamp)),
                FoldedMetrics(scope.base, acc, timestamp, startTimestamp))
  /\ UNCHANGED <<call, seen, fed, locals, left>>

RangeDevices ==
  /\ LoopEnded
  /\ Filesystem
  /\ left' = DOMAIN devices
  /\ pc' = "devices"
  /\ UNCHANGED <<call, seen, fed, out, locals>>

\* A map is ranged over in no particular order.
AppendDevice(key) ==
  /\ pc = "devices"
  /\ key \in left
  /\ left' = left \ {key}
  /\ out' = Add(out, ChainedMutator(DatasetMutator, FilesystemAttrs(key)),
                DeviceTotals(devices[key], timestamp))
  /\ UNCHANGED <<pc, call, seen, fed, locals>>

Return ==
  /\ \/ LoopEnded /\ scope.base \in {"diskscraper", "networkscraper"}
     \/ pc = "devices" /\ left = {}
  /\ pc' = "done"
  /\ UNCHANGED <<call, seen, fed, out, locals, left>>

Next ==
  \/ Ignore
  \/ Begin
  \/ \E dp \in Inputs[scope.base] : ReadPoint(dp)
  \/ EndOfScope
  \/ ReadBack
  \/ AppendFolded
  \/ RangeDevices
  \/ \E key \in left : AppendDevice(key)
  \/ Return

Spec == Init /\ [][Next]_vars

\* Remap is sequential code that waits for nothing, over a finite scope.
FairSpec == Spec /\ WF_vars(Next)

-------------------------------------------------------------------------------
\* Type correctness: scalars, points and locals stay in their ranges, and a map
\* entry exists for every device the last loop has still to visit.
TypeOK ==
  /\ pc \in {"idle", "loop", "tail", "devices", "done"}
  /\ package \in Packages /\ scope \in Scopes /\ resource \in Resources
  /\ inPlace \in BOOLEAN
  /\ Len(seen) <= MaxPoints /\ \A i \in DOMAIN seen : seen[i] \in Inputs[scope.base]
  /\ fed \in 0..Len(out)
  /\ \A i \in DOMAIN out : IsPoint(out[i])
  /\ \A l \in DOMAIN acc : acc[l] \in Int
  /\ DOMAIN acc = IF Handled(package, scope) /\ Folding THEN Locals[scope.base] ELSE {}
  /\ \A key \in DOMAIN devices : devices[key] \in [DOMAIN NoUsage -> Int]
  /\ left \subseteq DOMAIN devices
  /\ timestamp \in Nat /\ startTimestamp \in Nat

\* What this call has appended.
Fresh == SubSeq(out, Len(Earlier) + 1, Len(out))

Returned(base) == pc = "done" /\ Handled(package, scope) /\ scope.base = base

\* The values appended under a name.
Emitted(name) == {Fresh[i].value : i \in {j \in DOMAIN Fresh : Fresh[j].name = name}}
TheValue(name) == CHOOSE v \in Emitted(name) : TRUE

\* The sum of w[i] for the i in I that are at most n.
SumTo(n, w, I) ==
  LET sum[k \in 0..n] ==
        IF k = 0 THEN 0 ELSE sum[k - 1] + (IF k \in I THEN w[k] ELSE 0)
  IN  sum[n]

\* What some points of the scope report, and the points of a metric by a label.
Numbers(s) == [i \in DOMAIN s |-> Number(s[i])]
Reported(I) == SumTo(Len(seen), Numbers(seen), I)
Labelled(dp, metric, key, labels) ==
  dp.name = metric /\ key \in DOMAIN dp.attrs /\ dp.attrs[key] \in labels
ReportedAs(metric, key, labels) ==
  Reported({i \in DOMAIN seen : Labelled(seen[i], metric, key, labels)})

\* Each attribute value is reported once, as a receiver does in one scrape.
OncePerLabel(metric, key) ==
  \A i, j \in DOMAIN seen :
    /\ seen[i].name = metric /\ seen[j].name = metric
    /\ Str(seen[i], key) = Str(seen[j], key)
    => i = j

\* The number of processors as last reported, 0 if it is not.
CoreCounts == {i \in DOMAIN seen : seen[i].name = "system.cpu.logical.count" /\ seen[i].first}
Cores ==
  IF CoreCounts = {} THEN 0
  ELSE IntValue(seen[CHOOSE i \in CoreCounts : \A j \in CoreCounts : j <= i])

\* The share of the processor reported for a part.
CpuReported(part) ==
  ReportedAs("system.cpu.utilization", "state",
             CASE part = "total" -> DOMAIN CpuBusy
               [] part = "idle" -> {"idle"}
               [] OTHER -> {state \in DOMAIN CpuBusy : CpuBusy[state] = part})

\* remapCPUMetrics: whatever the order of the points, the total is the sum of
\* all states but idle, it agrees with the parts appended beside it, and the
\* normalised metrics are there exactly when the core count is known (also if
\* it is reported last), each the plain one over that count.
CpuBalanced ==
  Returned("cpuscraper") /\ Fresh # <<>> =>
    LET Share(part) == TheValue(CpuPct[part])[1] IN
    /\ \A part \in {CpuParts[i] : i \in DOMAIN CpuParts} :
         /\ Emitted(CpuPct[part]) = {<<CpuReported(part), 1>>}
         /\ Emitted(CpuNorm[part]) =
              IF Cores = 0 THEN {} ELSE {<<CpuReported(part), Cores>>}
    /\ Share("total") = Share("system") + Share("user") + Share("steal") + Share("iowait")
                          + Share("nice") + Share("irq") + Share("softirq")

\* remapMemoryMetrics: with each state reported once, in any order and with
\* states missing, used and free memory make up the total, and so do what is
\* actually used and actually free; the total is of the four disjoint states.
MemoryBalanced ==
  LET usage == "system.memory.usage"
      Bytes(name) == TheValue(name)[1]
  IN  Returned("memoryscraper") /\ Fresh # <<>> /\ OncePerLabel(usage, "state") =>
        /\ Bytes("system.memory.total") =
             ReportedAs(usage, "state", {"cached", "free", "used", "buffered"})
        /\ Bytes("system.memory.used.bytes") + Bytes("system.memory.free") =
             Bytes("system.memory.total")
        /\ Bytes("system.memory.actual.used.bytes") + Bytes("system.memory.actual.free") =
             Bytes("system.memory.total")

\* The points that count processes of a status with no part of its own.
OtherStatus ==
  {i \in DOMAIN seen : /\ seen[i].name = "system.processes.count"
                       /\ "status" \in DOMAIN seen[i].attrs
                       /\ seen[i].attrs["status"] \notin DOMAIN ProcessStatus}

\* remapProcessesMetrics, remapProcessMetrics: with each label reported once, a
\* total is never less than the parts appended with it, and what it has beyond
\* them is what was reported under the labels that have no part of their own.
TotalsCoverParts ==
  LET Summary(part) == TheValue(ProcessesSummary[part])[1]
      Ticks(name) == TheValue(name)[1]
  IN  Fresh # <<>> =>
        /\ Returned("processesscraper") /\ OncePerLabel("system.processes.count", "status") =>
             Summary("total") = Summary("idle") + Summary("sleeping") + Summary("stopped")
                                  + Summary("zombie") + Summary("running")
                                  + Reported(OtherStatus)
        /\ Returned("processscraper") /\ OncePerLabel("process.cpu.time", "state") =>
             Ticks("system.process.cpu.total.ticks") =
               Ticks("system.process.cpu.system.ticks") + Ticks("system.process.cpu.user.ticks")
                 + 1000 * ReportedAs("process.cpu.time", "state", {"wait"})

\* A remapper that folds appends all its metrics or none: none only if no point
\* it looked at had a timestamp, and otherwise all with the timestamp of one of
\* those points, and the core count's metrics with the rest of the processor's.
AllOrNothing ==
  pc = "done" /\ Handled(package, scope) /\ Folding =>
    LET stamps == {seen[i].ts : i \in {j \in DOMAIN seen : Relevant(scope.base, seen[j])}} \ {0}
        all == FoldedMetrics(scope.base, acc, timestamp, startTimestamp)
    IN  IF stamps = {} THEN Fresh = <<>>
        ELSE /\ Len(Fresh) = Len(all)
             /\ \E t \in stamps : \A i \in DOMAIN Fresh : Fresh[i].ts = t

\* remapProcessMetrics: the two ends of the run time may come from different
\* points and are cut to milliseconds before they are subtracted.  If no point was
\* taken before a start reported, the share of the processor is not of negative
\* time; it is of no time at all, which makes it infinite or undefined, only if
\* some point was taken less than a millisecond after a start.  A start that is
\* missing is that of the epoch.
RuntimePositive ==
  LET read == {i \in DOMAIN seen : Relevant("processscraper", seen[i])}
      starts == {seen[i].start : i \in read} \cup {0}
      TakenAfter(n) == \A i \in read : \A t \in starts : seen[i].ts = 0 \/ seen[i].ts >= t + n
      runtime == TheValue("system.process.cpu.total.pct")[2]
  IN  Returned("processscraper") /\ Fresh # <<>> =>
        /\ TakenAfter(0) => runtime >= 0
        /\ TakenAfter(Millisecond) => runtime > 0

\* Every metric a call appends is marked as remapped, belongs to the dataset of
\* its scraper and to no data stream unless so configured, and has a timestamp:
\* a mutator chained later does not undo what an earlier one has put.
OutputsMarked ==
  \A i \in DOMAIN Fresh :
    LET dataset == Datasets[package][scope.base]
        attrs == Fresh[i].attrs
        Has(label, v) == label \in DOMAIN attrs /\ attrs[label] = v
    IN  /\ Fresh[i].ts # 0
        /\ Has(OTelRemappedLabel, TRUE)
        /\ Has(EventDatasetLabel, dataset)
        /\ package = "hostmetrics" => Has(EventModuleLabel, "system")
        /\ IF IntegrationDataset THEN Has(DatastreamDatasetLabel, dataset)
           ELSE DatastreamDatasetLabel \notin DOMAIN attrs

\* The points of a device that have been dropped for want of a timestamp, and
\* what has been appended for a device under a name.
Dropped(key) ==
  {i \in DOMAIN seen : /\ Labelled(seen[i], FilesystemUsage, "state", {"used", "free"})
                       /\ HasDeviceKey(seen[i]) /\ DeviceKey(seen[i]) = key /\ seen[i].ts = 0}
OfDevice(name, key) ==
  {i \in DOMAIN Fresh : /\ Fresh[i].name = name
                        /\ \A l \in DOMAIN FilesystemAttrs(key) :
                             Fresh[i].attrs[l] = FilesystemAttrs(key)[l]}
SumOfDevice(name, key) ==
  SumTo(Len(Fresh), [i \in DOMAIN Fresh |-> Fresh[i].value[1]], OfDevice(name, key))

\* remapFilesystemMetrics: for each device (not for its name alone: a device
\* may be mounted twice) the total appended is the sum of the used and free
\* bytes appended, plus those dropped for want of a timestamp; it is appended
\* once, the share used lies in 0..1, and no device is without its totals
\* unless the last timestamp read was zero.
FilesystemBalanced ==
  Returned("filesystemscraper") =>
    \A key \in {DeviceKey(seen[i]) : i \in {j \in DOMAIN seen : HasDeviceKey(seen[j])}} :
      LET Sum(name) == SumOfDevice(name, key)
          bytes == Sum("system.filesystem.used.bytes") + Sum("system.filesystem.free")
                     + Reported(Dropped(key))
          totals == OfDevice("system.filesystem.total", key)
          shares == OfDevice("system.filesystem.used.pct", key)
      IN  /\ Sum("system.filesystem.available") = Sum("system.filesystem.free")
          /\ IF bytes = 0 \/ timestamp = 0 THEN totals = {} /\ shares = {}
             ELSE \E i, j \in DOMAIN Fresh :
                    /\ totals = {i} /\ Fresh[i].value[1] = bytes
                    /\ shares = {j} /\ Fresh[j].value[2] > 0
                    /\ Fresh[j].value[1] \in 0..Fresh[j].value[2]

\* The points that become a metric: those that have a device, a direction if the
\* remapper asks for one, a value and a timestamp.
Passed ==
  {i \in DOMAIN seen :
     /\ IF scope.base = "diskscraper"
        THEN DiskPassesOn(seen[i]) /\ seen[i].kind # "empty"
        ELSE NetworkPassesOn(seen[i])
     /\ seen[i].ts # 0}

\* remapDiskMetrics, remapNetworkMetrics: each point of a device that has a
\* value and a timestamp becomes one metric, none twice even when the loop
\* reads back what it appended; the order, the device and the point's own
\* timestamp are kept, and a time is in milliseconds.
EveryPointOnce ==
  \A base \in {"diskscraper", "networkscraper"} : Returned(base) =>
    LET Place(i) == SumTo(i, [j \in DOMAIN seen |-> 1], Passed)
        label == IF base = "diskscraper" THEN "system.diskio.name" ELSE "system.network.name"
        Scale(dp) == IF dp.name \in {"system.disk.operation_time", "system.disk.io_time"}
                     THEN 1000 ELSE 1
        Value(dp) == IF base = "diskscraper" THEN dp.value[1] ELSE IntValue(dp)
    IN  /\ Len(Fresh) = Place(Len(seen))
        /\ \A i \in Passed :
             /\ Fresh[Place(i)].ts = seen[i].ts
             /\ Fresh[Place(i)].attrs[label] = seen[i].attrs["device"]
             /\ Fresh[Place(i)].value[1] = Scale(seen[i]) * Value(seen[i])

\* Source and output may be one slice: no remapper takes a metric that one of
\* these calls has appended for a metric to remap, so nothing is counted twice
\* and the loop does not feed itself.
InPlaceInert == [][fed' # fed => UNCHANGED <<out, locals>>]_vars

\* In the same setting, no appended metric is read through the accessor of
\* another type than its own, which dereferences a nil pointer.
NoPanic ==
  inPlace /\ Handled(package, scope) =>
    \A i \in DOMAIN out :
      LET dp == out[i] IN
      CASE Folding ->
             Relevant(scope.base, dp) =>
               dp.type = IF dp.name \in ReadAsGauge THEN "Gauge" ELSE "Sum"
        [] Filesystem -> dp.name \in FilesystemMetrics => dp.type = "Sum"
        [] scope.base = "diskscraper" -> dp.name \in DOMAIN DiskNames => dp.type = "Sum"
        [] scope.base = "networkscraper" -> dp.type = "Sum"

\* A call returns, also when it reads what it appends.
Returns == <>(pc = "done")

\* The doc comments of the two Remapper types: "Each datapoint translated using
\* the remapper has the `event.processor` attribute set to `hostmetrics`" (or
\* to `kubernetes`).
ProcessorMarked ==
  \A i \in DOMAIN Fresh :
    /\ "event.processor" \in DOMAIN Fresh[i].attrs
    /\ Fresh[i].attrs["event.processor"]
         = IF package = "hostmetrics" THEN "hostmetrics" ELSE "kubernetes"
===============================================================================
