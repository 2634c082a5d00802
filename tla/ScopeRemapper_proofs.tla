------------------------- MODULE ScopeRemapper_proofs -------------------------
(* What holds of the metrics a call of Remap appends, whatever the scope, its  *)
(* points, the resource and the metrics already there.                         *)
EXTENDS ScopeRemapper, RemappedMetric_proofs

-------------------------------------------------------------------------------
(* The metrics given to Add                                                      *)

LEMMA PointMetricsSeq == ASSUME NEW dp PROVE IsSeq(PointMetrics(dp))
<1>1. PICK n \in Nat : DOMAIN PassedOn(dp) = 1..n
  <2>1. PassedOn(dp) \in {<<"system.filesystem.used.bytes">>,
                         <<"system.filesystem.free", "system.filesystem.available">>,
                         <<"system.filesystem.free_files">>, <<>>}
    BY DEF PassedOn
  <2>2. \A a, b : DOMAIN <<a>> = 1..1 /\ DOMAIN <<a, b>> = 1..2 /\ DOMAIN <<>> = 1..0
    OBVIOUS
  <2>3. 0 \in Nat /\ 1 \in Nat /\ 2 \in Nat
    OBVIOUS
  <2>4. QED
    BY <2>1, <2>2, <2>3
<1>2. PointMetrics(dp) = [i \in 1..n |-> PointMetrics(dp)[i]]
  BY <1>1 DEF PointMetrics
<1>3. QED
  BY <1>2, FunctionIsSeq

LEMMA DeviceTotalsSeq == ASSUME NEW d, NEW ts PROVE IsSeq(DeviceTotals(d, ts))
<1>1. \A a, b : IsSeq(<<a, b>>) /\ IsSeq(<<a>>) /\ IsSeq(<<>>)
  <2>1. \A a, b : <<a, b>> \in Seq({a, b}) /\ <<a>> \in Seq({a}) /\ <<>> \in Seq({})
    OBVIOUS
  <2>2. QED
    BY <2>1, SeqIsSeq
<1>2. QED
  BY <1>1, ConcatIsSeq DEF DeviceTotals

LEMMA CpuMetricsSeq == ASSUME NEW a, NEW ts PROVE IsSeq(CpuMetrics(a, ts))
<1> DEFINE Pct(part) == DoubleGauge(CpuPct[part], <<a[part], 1>>, ts)
           Norm(part) == DoubleGauge(CpuNorm[part], <<a[part], a["cores"]>>, ts)
           pcts == [i \in DOMAIN CpuParts |-> Pct(CpuParts[i])]
           norms == [i \in DOMAIN CpuParts |-> Norm(CpuParts[i])]
           cores == <<IntSum("system.cpu.cores", a["cores"], ts),
                      IntSum("system.load.cores", a["cores"], ts)>>
<1>1. DOMAIN CpuParts = 1..9
  BY DEF CpuParts
<1>2. IsSeq(pcts) /\ IsSeq(norms)
  <2>1. pcts = [i \in 1..9 |-> pcts[i]] /\ norms = [i \in 1..9 |-> norms[i]]
    BY <1>1
  <2> HIDE DEF pcts, norms
  <2>2. QED
    BY <2>1, FunctionIsSeq
<1>3. IsSeq(cores) /\ IsSeq(<<>>)
  <2>1. \A b, c : <<b, c>> \in Seq({b, c}) /\ <<>> \in Seq({})
    OBVIOUS
  <2>2. QED
    BY <2>1, SeqIsSeq
<1>4. CpuMetrics(a, ts) = pcts \o IF a["cores"] = 0 THEN <<>> ELSE cores \o norms
  BY DEF CpuMetrics
<1> HIDE DEF pcts, norms, cores
<1>5. QED
  BY <1>2, <1>3, <1>4, ConcatIsSeq

LEMMA FoldedMetricsSeq ==
    ASSUME NEW s \in FoldScrapers, NEW a, NEW ts, NEW start
    PROVE  IsSeq(FoldedMetrics(s, a, ts, start))
<1>1. s \in {"cpuscraper", "memoryscraper", "loadscraper", "processscraper", "processesscraper",
            "kubeletstatsreceiver", "k8sclusterreceiver"}
  BY DEF FoldScrapers, Locals
<1>2. IsSeq(CpuMetrics(a, ts))
  BY CpuMetricsSeq
<1>3. IsSeq(MemoryMetrics(a, ts))
  <2>1. MemoryMetrics(a, ts) = [i \in 1..8 |-> MemoryMetrics(a, ts)[i]]
    BY DEF MemoryMetrics
  <2>2. QED
    BY <2>1, FunctionIsSeq
<1>4. IsSeq(LoadMetrics(a, ts))
  <2>1. LoadMetrics(a, ts) = [i \in 1..3 |-> LoadMetrics(a, ts)[i]]
    BY DEF LoadMetrics
  <2>2. QED
    BY <2>1, FunctionIsSeq
<1>5. IsSeq(ProcessMetrics(a, ts, start))
  <2>1. ProcessMetrics(a, ts, start) = [i \in 1..16 |-> ProcessMetrics(a, ts, start)[i]]
    BY DEF ProcessMetrics
  <2>2. QED
    BY <2>1, FunctionIsSeq
<1>6. IsSeq(ProcessesMetrics(a, ts))
  <2>1. ProcessesMetrics(a, ts) = [i \in 1..6 |-> ProcessesMetrics(a, ts)[i]]
    BY DEF ProcessesMetrics, ProcessesParts
  <2>2. QED
    BY <2>1, FunctionIsSeq
<1>7. IsSeq(KubeletMetrics(a, ts))
  <2>1. KubeletMetrics(a, ts) = [i \in 1..6 |-> KubeletMetrics(a, ts)[i]]
    BY DEF KubeletMetrics
  <2>2. QED
    BY <2>1, FunctionIsSeq
<1>8. IsSeq(ClusterMetrics(a, ts))
  <2>1. ClusterMetrics(a, ts) = [i \in 1..2 |-> ClusterMetrics(a, ts)[i]]
    BY DEF ClusterMetrics
  <2>2. QED
    BY <2>1, FunctionIsSeq
<1>9. QED
  BY <1>1, <1>2, <1>3, <1>4, <1>5, <1>6, <1>7, <1>8 DEF FoldedMetrics

-------------------------------------------------------------------------------
(* The marks                                                                     *)

\* The point carries the marks of the call.
Marked(m) ==
  LET dataset == Datasets[package][scope.base]
      Has(label, v) == label \in DOMAIN m.attrs /\ m.attrs[label] = v
  IN  /\ m.ts # 0
      /\ Has(OTelRemappedLabel, TRUE)
      /\ Has(EventDatasetLabel, dataset)
      /\ package = "hostmetrics" => Has(EventModuleLabel, "system")
      /\ IF IntegrationDataset THEN Has(DatastreamDatasetLabel, dataset)
         ELSE DatastreamDatasetLabel \notin DOMAIN m.attrs

\* A mutator that overwrites no mark but with itself.
KeepsMarks(mutator) ==
  /\ {OTelRemappedLabel, EventModuleLabel, DatastreamDatasetLabel} \cap DOMAIN mutator = {}
  /\ EventDatasetLabel \in DOMAIN mutator =>
       mutator[EventDatasetLabel] = Datasets[package][scope.base]

\* A point gets the marks although the attributes of the scraper come after.
LEMMA AppendedMarked ==
    ASSUME NEW mutator, KeepsMarks(mutator), NEW m, Valid(m)
    PROVE  Marked(Appended(m, ChainedMutator(DatasetMutator, mutator)))
<1> DEFINE dataset == Datasets[package][scope.base]
           attrs == Appended(m, ChainedMutator(DatasetMutator, mutator)).attrs
<1>1. attrs = Put(OTelRemappedLabel, TRUE) ++ (DatasetMutator ++ mutator)
  BY DEF Appended, ChainedMutator
<1>2. /\ EventDatasetLabel \in DOMAIN DatasetMutator /\ DatasetMutator[EventDatasetLabel] = dataset
      /\ package = "hostmetrics" =>
           /\ EventModuleLabel \in DOMAIN DatasetMutator
           /\ DatasetMutator[EventModuleLabel] = "system"
      /\ IF IntegrationDataset
         THEN /\ DatastreamDatasetLabel \in DOMAIN DatasetMutator
              /\ DatasetMutator[DatastreamDatasetLabel] = dataset
         ELSE DatastreamDatasetLabel \notin DOMAIN DatasetMutator
      /\ OTelRemappedLabel \notin DOMAIN DatasetMutator
  BY DEF DatasetMutator, Empty, EventDatasetLabel, EventModuleLabel, DatastreamDatasetLabel,
    OTelRemappedLabel, Put, ++
<1>3. \A label \in DOMAIN DatasetMutator :
        /\ label \in DOMAIN attrs
        /\ label \notin DOMAIN mutator => attrs[label] = DatasetMutator[label]
        /\ label \in DOMAIN mutator => attrs[label] = mutator[label]
  BY <1>1 DEF ++
<1>4. \A label \in DOMAIN attrs :
        label \in DOMAIN mutator \/ label \in DOMAIN DatasetMutator \/ label = OTelRemappedLabel
  BY <1>1 DEF Put, ++
<1>5. OTelRemappedLabel \in DOMAIN attrs /\ attrs[OTelRemappedLabel] = TRUE
  BY <1>1, <1>2 DEF Put, ++, KeepsMarks
<1>6. Appended(m, ChainedMutator(DatasetMutator, mutator)).ts # 0
  BY DEF Appended, Valid
<1>7. DatastreamDatasetLabel # OTelRemappedLabel
  BY DEF DatastreamDatasetLabel, OTelRemappedLabel
<1> HIDE DEF attrs, dataset
<1>8. /\ EventDatasetLabel \in DOMAIN attrs /\ attrs[EventDatasetLabel] = dataset
      /\ package = "hostmetrics" =>
           EventModuleLabel \in DOMAIN attrs /\ attrs[EventModuleLabel] = "system"
  BY <1>2, <1>3 DEF KeepsMarks, dataset
<1>9. IF IntegrationDataset
      THEN DatastreamDatasetLabel \in DOMAIN attrs /\ attrs[DatastreamDatasetLabel] = dataset
      ELSE DatastreamDatasetLabel \notin DOMAIN attrs
  BY <1>2, <1>3, <1>4, <1>7 DEF KeepsMarks
<1> USE DEF attrs, dataset
<1>10. QED
  BY <1>5, <1>6, <1>8, <1>9 DEF Marked

LEMMA DeviceMutators ==
    ASSUME NEW key, NEW dp
    PROVE  KeepsMarks(FilesystemAttrs(key)) /\ KeepsMarks(DiskAttrs(dp)) /\ KeepsMarks(NetworkAttrs(dp))
<1> USE DEF KeepsMarks, EventDatasetLabel, EventModuleLabel, DatastreamDatasetLabel,
            OTelRemappedLabel, Put, ++
<1>1. KeepsMarks(FilesystemAttrs(key))
  BY DEF FilesystemAttrs
<1>2. KeepsMarks(DiskAttrs(dp)) /\ KeepsMarks(NetworkAttrs(dp))
  BY DEF DiskAttrs, NetworkAttrs
<1>3. QED
  BY <1>1, <1>2

\* The dataset the processes remapper puts is that of its package anyway.
LEMMA FoldedMutators ==
    ASSUME package \in Packages, Handled(package, scope), Folding
    PROVE  KeepsMarks(OwnMutator(scope.base, resource, startTimestamp))
<1> USE DEF KeepsMarks, EventDatasetLabel, EventModuleLabel, DatastreamDatasetLabel,
            OTelRemappedLabel
<1>1. CASE scope.base = "processscraper"
  <2>1. DOMAIN ProcessResources(resource, startTimestamp) \subseteq
          {"process.parent.pid", "user.name", "process.executable", "process.name",
           "system.process.cmdline", "system.process.cpu.start_time", "system.process.state"}
    BY DEF ProcessResources, Empty, Put, ++
  <2>2. QED
    BY <1>1, <2>1 DEF OwnMutator
<1>2. CASE scope.base = "processesscraper"
  <2>1. package = "hostmetrics"
    BY <1>2 DEF Handled, Packages, Datasets, RemapFuncs
  <2>2. Datasets[package][scope.base] = "system.process.summary"
    BY <1>2, <2>1 DEF Datasets, HostDatasets
  <2>3. QED
    BY <1>2, <2>2 DEF OwnMutator, Put
<1>3. CASE scope.base \notin {"processscraper", "processesscraper"}
  <2>1. DOMAIN OwnMutator(scope.base, resource, startTimestamp) \subseteq {"service.type"}
    BY <1>3 DEF OwnMutator, Empty, Put
  <2>2. QED
    BY <2>1
<1>4. QED
  BY <1>1, <1>2, <1>3

-------------------------------------------------------------------------------
(* The invariant                                                                 *)

\* s holds what was in out before the call, and then marked points.
MarkedAfterEarlier(s) ==
  /\ IsSeq(s)
  /\ Len(Earlier) <= Len(s)
  /\ \A i \in Len(Earlier) + 1..Len(s) : Marked(s[i])

\* Past its early returns, Remap knows its package and scope.
Began == pc \in {"loop", "tail", "devices"} => Handled(package, scope)

MarksInv == MarkedAfterEarlier(out) /\ package \in Packages /\ Began

\* A call of Add with the mutators of a remapper leaves marked points behind.
LEMMA AddMarked ==
    ASSUME NEW mutator, KeepsMarks(mutator), NEW metrics, IsSeq(metrics), MarkedAfterEarlier(out)
    PROVE  MarkedAfterEarlier(Add(out, ChainedMutator(DatasetMutator, mutator), metrics))
<1> DEFINE mu == ChainedMutator(DatasetMutator, mutator)
           new == Add(out, mu, metrics)
<1>1. Extends(new, out, AddedPoints(mu, metrics))
  BY AddExtends, IsSeqDomain DEF MarkedAfterEarlier
<1>2. \A m \in AddedPoints(mu, metrics) : Marked(m)
  BY AppendedMarked DEF AddedPoints
<1> HIDE DEF mu, new
<1>3. Len(Earlier) \in Nat /\ Len(out) \in Nat /\ Len(new) \in Nat
  BY <1>1, IsSeqDomain, EarlierAssumption DEF IsSeq, Extends, MarkedAfterEarlier
<1>4. \A i \in Len(Earlier) + 1..Len(new) : Marked(new[i])
  BY <1>1, <1>2, <1>3 DEF Extends, MarkedAfterEarlier
<1> USE DEF mu, new
<1>5. QED
  BY <1>1, <1>3, <1>4 DEF Extends, MarkedAfterEarlier

\* The invariant of a state that makes the same call from one that holds it.
LEMMA SameCall ==
    ASSUME MarksInv, UNCHANGED <<package, scope>>, MarkedAfterEarlier(out'),
           pc' \in {"loop", "tail", "devices"} => Handled(package, scope)
    PROVE  MarksInv'
BY DEF MarksInv, MarkedAfterEarlier, Began, Marked, IsSeq, Handled, ValidScope

\* Reading any point at all keeps what the call has appended marked.
LEMMA ReadMarked ==
    ASSUME MarksInv, NEW dp, Read(dp), UNCHANGED <<package, scope>>
    PROVE  MarkedAfterEarlier(out')
<1>1. CASE ReadFolded(dp)
  BY <1>1 DEF ReadFolded, MarksInv
<1>2. CASE ReadFilesystem(dp)
  <2>1. KeepsMarks(FilesystemAttrs(DeviceKey(dp))) /\ IsSeq(PointMetrics(dp))
    BY DeviceMutators, PointMetricsSeq
  <2>2. QED
    BY <1>2, <2>1, AddMarked DEF ReadFilesystem, MarksInv
<1>3. CASE ReadDisk(dp)
  <2>1. KeepsMarks(DiskAttrs(dp)) /\ IsSeq(<<DiskMetric(dp)>>)
    BY DeviceMutators DEF IsSeq
  <2>2. QED
    BY <1>3, <2>1, AddMarked DEF ReadDisk, MarksInv
<1>4. CASE ReadNetwork(dp)
  <2>1. KeepsMarks(NetworkAttrs(dp)) /\ IsSeq(<<NetworkMetric(dp)>>)
    BY DeviceMutators DEF IsSeq
  <2>2. QED
    BY <1>4, <2>1, AddMarked DEF ReadNetwork, MarksInv
<1>5. QED
  BY <1>1, <1>2, <1>3, <1>4 DEF Read

LEMMA InitMarks == Init => MarksInv
<1> SUFFICES ASSUME Init PROVE MarksInv
  OBVIOUS
<1>1. IsSeq(Earlier) /\ Len(Earlier) \in Nat
  BY EarlierAssumption DEF IsSeq
<1>2. MarkedAfterEarlier(out)
  BY <1>1 DEF Init, MarkedAfterEarlier
<1>3. QED
  BY <1>2 DEF Init, MarksInv, Began

LEMMA NextMarks == MarksInv /\ [Next]_vars => MarksInv'
<1> SUFFICES ASSUME MarksInv, [Next]_vars PROVE MarksInv'
  OBVIOUS
<1> USE DEF call
<1>0. MarkedAfterEarlier(out) /\ Began
  BY DEF MarksInv
<1>1. CASE Ignore
  BY <1>0, <1>1, SameCall DEF Ignore
<1>2. CASE Begin
  BY <1>0, <1>2, SameCall DEF Begin
<1>3. ASSUME NEW dp \in Inputs[scope.base], ReadPoint(dp) PROVE MarksInv'
  <2>1. MarkedAfterEarlier(out')
    BY <1>3, ReadMarked DEF ReadPoint
  <2>2. QED
    BY <1>0, <1>3, <2>1, SameCall DEF ReadPoint, Began
<1>4. CASE EndOfScope
  BY <1>0, <1>4, SameCall DEF EndOfScope, Began
<1>5. CASE ReadBack
  <2>1. MarkedAfterEarlier(out')
    BY <1>5, ReadMarked DEF ReadBack
  <2>2. QED
    BY <1>0, <1>5, <2>1, SameCall DEF ReadBack, Began
<1>6. CASE AppendFolded
  <2>1. Handled(package, scope) /\ Folding /\ package \in Packages
    BY <1>0, <1>6 DEF AppendFolded, LoopEnded, Began, MarksInv
  <2>2. KeepsMarks(OwnMutator(scope.base, resource, startTimestamp))
    BY <2>1, FoldedMutators
  <2>3. IsSeq(FoldedMetrics(scope.base, acc, timestamp, startTimestamp))
    BY <2>1, FoldedMetricsSeq DEF Folding
  <2>4. MarkedAfterEarlier(out')
    BY <1>0, <1>6, <2>2, <2>3, AddMarked DEF AppendFolded
  <2>5. QED
    BY <1>6, <2>4, SameCall DEF AppendFolded
<1>7. CASE RangeDevices
  BY <1>0, <1>7, SameCall DEF RangeDevices, LoopEnded, Began
<1>8. ASSUME NEW key \in left, AppendDevice(key) PROVE MarksInv'
  <2>1. KeepsMarks(FilesystemAttrs(key)) /\ IsSeq(DeviceTotals(devices[key], timestamp))
    BY DeviceMutators, DeviceTotalsSeq
  <2>2. MarkedAfterEarlier(out')
    BY <1>0, <1>8, <2>1, AddMarked DEF AppendDevice
  <2>3. QED
    BY <1>0, <1>8, <2>2, SameCall DEF AppendDevice, Began
<1>9. CASE Return
  BY <1>0, <1>9, SameCall DEF Return
<1>10. CASE UNCHANGED vars
  BY <1>0, <1>10, SameCall DEF vars, Began
<1>11. QED
  BY <1>1, <1>2, <1>3, <1>4, <1>5, <1>6, <1>7, <1>8, <1>9, <1>10 DEF Next

\* What the call has appended is what lies behind the metrics already there.
LEMMA FreshPoints ==
    ASSUME MarkedAfterEarlier(out), NEW i \in DOMAIN Fresh
    PROVE  \E j \in Len(Earlier) + 1..Len(out) : Fresh[i] = out[j]
<1>1. Len(Earlier) \in Nat /\ Len(out) \in Nat /\ DOMAIN out = 1..Len(out)
  BY EarlierAssumption, IsSeqDomain DEF MarkedAfterEarlier
<1>2. DOMAIN Fresh = 1..Len(out) - Len(Earlier)
  BY <1>1 DEF Fresh, MarkedAfterEarlier
<1>3. Fresh[i] = out[Len(Earlier) + i]
  BY <1>1, <1>2 DEF Fresh, MarkedAfterEarlier
<1>4. QED
  BY <1>1, <1>2, <1>3

\* Whatever the scope, its points and their number, and also when the loop
\* reads back what it appends, every metric a call of Remap appends has the
\* marks of its package and scraper, none overwritten by a later mutator.
THEOREM EveryOutputMarked == Spec => []OutputsMarked
<1>1. MarksInv => OutputsMarked
  <2> SUFFICES ASSUME MarksInv, NEW i \in DOMAIN Fresh PROVE Marked(Fresh[i])
    BY DEF OutputsMarked, Marked
  <2>1. PICK j \in Len(Earlier) + 1..Len(out) : Fresh[i] = out[j]
    BY FreshPoints DEF MarksInv
  <2>2. QED
    BY <2>1 DEF MarksInv, MarkedAfterEarlier
<1>2. QED
  BY <1>1, InitMarks, NextMarks, PTL DEF Spec

-------------------------------------------------------------------------------
(* Types                                                                         *)

\* A metric that becomes a point which is inert for the scraper.
IsMetric(base, m) ==
  /\ m.type \in {"Sum", "Gauge"} /\ m.kind \in {"int", "double", "empty"}
  /\ m.value \in Int \X Int /\ m.ts \in Nat
  /\ m.name \notin LookedAt(base)
  /\ base = "networkscraper" => m.type = "Sum"

AllInert(base, s) == \A i \in DOMAIN s : IsPoint(s[i]) /\ Inert(base, s[i])

LEMMA AddInert ==
    ASSUME NEW s, IsSeq(s), NEW base, AllInert(base, s), NEW mutator, NEW metrics,
           IsSeq(metrics), \A i \in DOMAIN metrics : IsMetric(base, metrics[i])
    PROVE  /\ IsSeq(Add(s, mutator, metrics)) /\ AllInert(base, Add(s, mutator, metrics))
           /\ Len(s) <= Len(Add(s, mutator, metrics))
<1> DEFINE new == Add(s, mutator, metrics)
<1>1. Extends(new, s, AddedPoints(mutator, metrics))
  BY AddExtends, IsSeqDomain
<1>2. \A m \in AddedPoints(mutator, metrics) : IsPoint(m) /\ Inert(base, m)
  <2>1. SUFFICES ASSUME NEW i \in DOMAIN metrics, NEW m, m = Appended(metrics[i], mutator)
                 PROVE  IsPoint(m) /\ Inert(base, m)
    BY DEF AddedPoints
  <2>2. /\ m.name = metrics[i].name /\ m.type = metrics[i].type /\ m.kind = metrics[i].kind
        /\ m.value = metrics[i].value /\ m.ts = metrics[i].ts
        /\ m.start = 0 /\ m.first = TRUE
    BY <2>1 DEF Appended
  <2>3. IsMetric(base, metrics[i])
    OBVIOUS
  <2>4. IsPoint(m)
    <3>1. m.first \in BOOLEAN
      BY <2>2
    <3>2. m.start \in Nat
      BY <2>2
    <3>3. /\ m.type \in {"Sum", "Gauge"} /\ m.kind \in {"int", "double", "empty"}
          /\ m.value \in Int \X Int /\ m.ts \in Nat
      BY <2>2, <2>3 DEF IsMetric
    <3>4. QED
      BY <3>1, <3>2, <3>3, Zenon DEF IsPoint
  <2>5. QED
    BY <2>2, <2>3, <2>4 DEF IsMetric, Inert
<1> HIDE DEF new
<1>3. IsSeq(new) /\ Len(s) <= Len(new) /\ Len(s) \in Nat /\ DOMAIN s = 1..Len(s)
  BY <1>1, IsSeqDomain DEF Extends
<1>4. DOMAIN new = 1..Len(new) /\ Len(new) \in Nat
  BY <1>3, IsSeqDomain
<1>5. ASSUME NEW i \in DOMAIN new PROVE IsPoint(new[i]) /\ Inert(base, new[i])
  <2>1. CASE i \in 1..Len(s)
    BY <1>1, <1>3, <2>1 DEF Extends, AllInert
  <2>2. CASE i \in Len(s) + 1..Len(new)
    BY <1>1, <1>2, <2>2 DEF Extends
  <2>3. QED
    BY <1>3, <1>4, <2>1, <2>2
<1>6. QED
  BY <1>3, <1>5 DEF AllInert, new

LEMMA NumberType == ASSUME NEW dp, IsPoint(dp) PROVE Number(dp) \in Int /\ IntValue(dp) \in Int
BY DEF IsPoint, Number, IntValue, DoubleValue

\* An effect puts and adds integers.
IsEffect(e) ==
  /\ \A l \in DOMAIN e.put : e.put[l] \in Int
  /\ \A l \in DOMAIN e.add : e.add[l] \in Int

LEMMA ByLabelType ==
    ASSUME NEW s \in FoldScrapers, NEW metric \in DOMAIN Grouped[s], NEW label, NEW v \in Int
    PROVE  IsEffect(ByLabel(metric, label, v))
<1> USE DEF IsEffect, Puts, Adds, PutsAndAdds, NoEffect, Empty, Put, ++
<1>1. IsEffect(CpuUtilization(label, v))
  BY DEF CpuUtilization
<1>2. IsEffect(MemoryUsage(label, v))
  BY DEF MemoryUsage
<1>3. IsEffect(MemoryUtilization(label, v))
  BY DEF MemoryUtilization, One
<1>4. IsEffect(ProcessesCount(label, v))
  BY DEF ProcessesCount
<1>5. IsEffect(ProcessCpuTime(label, v))
  BY DEF ProcessCpuTime
<1>6. \A read, write : IsEffect(ProcessDisk(label, read, write, v))
  BY DEF ProcessDisk
<1>7. IsEffect(PodNetwork(label, v))
  BY DEF PodNetwork
<1>8. metric \in {"system.cpu.utilization", "system.memory.usage", "system.memory.utilization",
                 "system.processes.count", "process.cpu.time", "process.disk.io",
                 "process.disk.operations", "k8s.pod.network.io"}
  BY DEF FoldScrapers, Locals, Grouped
<1> HIDE DEF IsEffect
<1>9. QED
  BY <1>1, <1>2, <1>3, <1>4, <1>5, <1>6, <1>7, <1>8 DEF ByLabel

LEMMA EffectType ==
    ASSUME NEW s \in FoldScrapers, NEW dp, IsPoint(dp)
    PROVE  IsEffect(Effect(s, dp))
<1>1. IsEffect(NoEffect) /\ IsEffect(Puts(Single[s][dp.name], Number(dp)))
  BY NumberType DEF IsEffect, NoEffect, Puts, Put, Empty
<1>2. dp.name \in DOMAIN Grouped[s] =>
        IsEffect(ByLabel(dp.name, dp.attrs[Grouped[s][dp.name]], Number(dp)))
  BY ByLabelType, NumberType
<1>3. QED
  BY <1>1, <1>2 DEF Effect

LEMMA FoldedType ==
    ASSUME NEW a, \A l \in DOMAIN a : a[l] \in Int, NEW e, IsEffect(e)
    PROVE  /\ DOMAIN Folded(a, e) = DOMAIN a
           /\ \A l \in DOMAIN a : Folded(a, e)[l] \in Int
BY DEF Folded, IsEffect


\* A metric a folding remapper appends once it has a timestamp.
GoodMetric(s, m, ts) ==
  /\ m.type \in {"Sum", "Gauge"} /\ m.kind \in {"int", "double"} /\ m.value \in Int \X Int
  /\ m.ts = ts /\ m.name \notin LookedAt(s) \cup {""}

LEMMA IntegerRatio == \A n \in Int : <<n, 1>> \in Int \X Int
OBVIOUS

LEMMA LiteralMetrics ==
    ASSUME NEW s, NEW name, name \notin LookedAt(s) \cup {""}, NEW ts
    PROVE  /\ \A n \in Int : GoodMetric(s, IntSum(name, n, ts), ts)
           /\ \A n \in Int : GoodMetric(s, IntGauge(name, n, ts), ts)
           /\ \A r \in Int \X Int : GoodMetric(s, DoubleSum(name, r, ts), ts)
           /\ \A r \in Int \X Int : GoodMetric(s, DoubleGauge(name, r, ts), ts)
<1>1. \A n \in Int : <<n, 1>> \in Int \X Int
  BY IntegerRatio
<1>2. QED
  BY <1>1, Zenon DEF GoodMetric, IntSum, IntGauge, DoubleSum, DoubleGauge

\* The parts of the processor's time.
CpuPart == {"total", "idle", "system", "user", "steal", "iowait", "nice", "irq", "softirq"}

\* The names written for the parts are theirs alone.
LEMMA CpuNames ==
    /\ \A p \in CpuPart :
         /\ CpuPct[p] \notin {"system.cpu.logical.count", "system.cpu.utilization", "",
                              "system.cpu.cores", "system.load.cores"}
         /\ CpuNorm[p] \notin {"system.cpu.logical.count", "system.cpu.utilization", "",
                               "system.cpu.cores", "system.load.cores"}
    /\ \A p, q \in CpuPart : CpuPct[p] = CpuPct[q] => p = q
    /\ \A p, q \in CpuPart : CpuNorm[p] = CpuNorm[q] => p = q
    /\ \A p, q \in CpuPart : CpuPct[p] # CpuNorm[q]
<1>1. /\ CpuPct["total"] = "system.cpu.total.pct" /\ CpuPct["idle"] = "system.cpu.idle.pct"
      /\ CpuPct["system"] = "system.cpu.system.pct" /\ CpuPct["user"] = "system.cpu.user.pct"
      /\ CpuPct["steal"] = "system.cpu.steal.pct" /\ CpuPct["iowait"] = "system.cpu.iowait.pct"
      /\ CpuPct["nice"] = "system.cpu.nice.pct" /\ CpuPct["irq"] = "system.cpu.irq.pct"
      /\ CpuPct["softirq"] = "system.cpu.softirq.pct"
  BY DEF CpuPct
<1>2. /\ CpuNorm["total"] = "system.cpu.total.norm.pct" /\ CpuNorm["idle"] = "system.cpu.idle.norm.pct"
      /\ CpuNorm["system"] = "system.cpu.system.norm.pct" /\ CpuNorm["user"] = "system.cpu.user.norm.pct"
      /\ CpuNorm["steal"] = "system.cpu.steal.norm.pct" /\ CpuNorm["iowait"] = "system.cpu.iowait.norm.pct"
      /\ CpuNorm["nice"] = "system.cpu.nice.norm.pct" /\ CpuNorm["irq"] = "system.cpu.irq.norm.pct"
      /\ CpuNorm["softirq"] = "system.cpu.softirq.norm.pct"
  BY DEF CpuNorm
<1>3. \A p \in CpuPart :
        CpuPct[p] \notin {"system.cpu.logical.count", "system.cpu.utilization", "",
                          "system.cpu.cores", "system.load.cores"}
  BY <1>1 DEF CpuPart
<1>4. \A p \in CpuPart :
        CpuNorm[p] \notin {"system.cpu.logical.count", "system.cpu.utilization", "",
                           "system.cpu.cores", "system.load.cores"}
  BY <1>2 DEF CpuPart
<1>5. \A p, q \in CpuPart : CpuPct[p] = CpuPct[q] => p = q
  BY <1>1 DEF CpuPart
<1>6. \A p, q \in CpuPart : CpuNorm[p] = CpuNorm[q] => p = q
  BY <1>2 DEF CpuPart
<1>7. \A p \in CpuPart : CpuPct[p] \notin {CpuNorm[q] : q \in CpuPart}
  <2>1. {CpuNorm[q] : q \in CpuPart} =
          {"system.cpu.total.norm.pct", "system.cpu.idle.norm.pct",
           "system.cpu.system.norm.pct", "system.cpu.user.norm.pct",
           "system.cpu.steal.norm.pct", "system.cpu.iowait.norm.pct",
           "system.cpu.nice.norm.pct", "system.cpu.irq.norm.pct",
           "system.cpu.softirq.norm.pct"}
    BY <1>2 DEF CpuPart
  <2>2. QED
    BY <1>1, <2>1 DEF CpuPart
<1>8. \A p, q \in CpuPart : CpuPct[p] # CpuNorm[q]
  BY <1>7
<1>9. QED
  BY <1>3, <1>4, <1>5, <1>6, <1>8

\* The parts in the order they are appended in.
LEMMA CpuPartsOrder ==
    /\ DOMAIN CpuParts = 1..9 /\ {CpuParts[i] : i \in 1..9} = CpuPart
    /\ \A i, j \in 1..9 : CpuParts[i] = CpuParts[j] => i = j
BY DEF CpuParts, CpuPart

LEMMA CpuMetricsType ==
    ASSUME NEW a, \A l \in Locals["cpuscraper"] : a[l] \in Int, NEW ts
    PROVE  \A i \in DOMAIN CpuMetrics(a, ts) : GoodMetric("cpuscraper", CpuMetrics(a, ts)[i], ts)
<1> DEFINE Pct(part) == DoubleGauge(CpuPct[part], <<a[part], 1>>, ts)
           Norm(part) == DoubleGauge(CpuNorm[part], <<a[part], a["cores"]>>, ts)
           pcts == [i \in DOMAIN CpuParts |-> Pct(CpuParts[i])]
           norms == [i \in DOMAIN CpuParts |-> Norm(CpuParts[i])]
           cores == <<IntSum("system.cpu.cores", a["cores"], ts),
                      IntSum("system.load.cores", a["cores"], ts)>>
           Good(m) == GoodMetric("cpuscraper", m, ts)
           Parts == {CpuParts[i] : i \in DOMAIN CpuParts}
<1>1. DOMAIN CpuParts = 1..9
  BY DEF CpuParts
<1>2. IsSeq(pcts) /\ IsSeq(norms)
  <2>1. pcts = [i \in 1..9 |-> pcts[i]] /\ norms = [i \in 1..9 |-> norms[i]]
    BY <1>1
  <2> HIDE DEF pcts, norms
  <2>2. QED
    BY <2>1, FunctionIsSeq
<1>3. IsSeq(cores) /\ IsSeq(<<>>)
  <2>1. \A b, c : <<b, c>> \in Seq({b, c}) /\ <<>> \in Seq({})
    OBVIOUS
  <2>2. QED
    BY <2>1, SeqIsSeq
<1>4. LookedAt("cpuscraper") = {"system.cpu.logical.count", "system.cpu.utilization"}
  BY DEF LookedAt, FoldScrapers, Locals, Single, Grouped, CpuSingle, Put, Empty
<1>5. \A part \in Parts :
        /\ a[part] \in Int /\ a["cores"] \in Int
        /\ CpuPct[part] \notin LookedAt("cpuscraper") \cup {""}
        /\ CpuNorm[part] \notin LookedAt("cpuscraper") \cup {""}
  <2>1. Parts = CpuPart
    BY CpuPartsOrder
  <2>2. \A part \in Parts : a[part] \in Int /\ a["cores"] \in Int
    BY DEF Locals
  <2> HIDE DEF Parts
  <2>3. QED
    BY <1>4, <2>1, <2>2, CpuNames
<1>6. \A i \in DOMAIN pcts : Good(pcts[i])
  <2>1. ASSUME NEW part \in Parts PROVE Good(Pct(part))
    <3>1. a[part] \in Int
      BY <1>5
    <3>2. <<a[part], 1>> \in Int \X Int
      BY <3>1
    <3>3. QED
      BY <1>5, <3>2, LiteralMetrics
  <2>2. QED
    BY <2>1
<1>7. \A i \in DOMAIN norms : Good(norms[i])
  <2>1. ASSUME NEW part \in Parts PROVE Good(Norm(part))
    <3>1. <<a[part], a["cores"]>> \in Int \X Int
      BY <1>5
    <3>2. QED
      BY <1>5, <3>1, LiteralMetrics
  <2>2. QED
    BY <2>1
<1>8. \A i \in DOMAIN cores : Good(cores[i])
  <2>1. a["cores"] \in Int
    BY DEF Locals
  <2>2. Good(cores[1]) /\ Good(cores[2])
    BY <1>4, <2>1, LiteralMetrics
  <2>3. QED
    BY <2>2
<1>9. CpuMetrics(a, ts) = pcts \o IF a["cores"] = 0 THEN <<>> ELSE cores \o norms
  BY DEF CpuMetrics
<1> HIDE DEF pcts, norms, cores, Good
<1>10. \A i \in DOMAIN (cores \o norms) : Good((cores \o norms)[i])
  BY <1>2, <1>3, <1>7, <1>8, ConcatPoints
<1>11. \A i \in DOMAIN CpuMetrics(a, ts) : Good(CpuMetrics(a, ts)[i])
  BY <1>2, <1>3, <1>6, <1>9, <1>10, ConcatPoints, ConcatIsSeq
<1>12. QED
  BY <1>11 DEF Good

LEMMA MemoryMetricsType ==
    ASSUME NEW a, \A l \in Locals["memoryscraper"] : a[l] \in Int, NEW ts
    PROVE  \A i \in DOMAIN MemoryMetrics(a, ts) :
             GoodMetric("memoryscraper", MemoryMetrics(a, ts)[i], ts)
<1> DEFINE M == MemoryMetrics(a, ts)
           Good(m) == GoodMetric("memoryscraper", m, ts)
<1>1. LookedAt("memoryscraper") = {"system.memory.usage", "system.memory.utilization"}
  BY DEF LookedAt, FoldScrapers, Locals, Single, Grouped, Put, ++, Empty
<1>2. /\ a["total"] \in Int /\ a["free"] \in Int /\ a["cached"] \in Int
      /\ a["used.bytes"] \in Int /\ a["actual.used.bytes"] \in Int
      /\ a["used.pct"] \in Int /\ a["actual.used.pct"] \in Int
  BY DEF Locals
<1>3. /\ a["used.bytes"] + a["total"] \in Int /\ a["total"] - a["actual.used.bytes"] \in Int
      /\ <<a["used.pct"], 1>> \in Int \X Int /\ <<a["actual.used.pct"], 1>> \in Int \X Int
  BY <1>2
<1>4. /\ Good(M[1]) /\ Good(M[2]) /\ Good(M[3]) /\ Good(M[4])
      /\ Good(M[5]) /\ Good(M[6]) /\ Good(M[7]) /\ Good(M[8])
  BY <1>1, <1>2, <1>3, LiteralMetrics DEF MemoryMetrics
<1>5. DOMAIN M = 1..8
  BY DEF MemoryMetrics
<1>6. QED
  BY <1>4, <1>5

LEMMA LoadMetricsType ==
    ASSUME NEW a, \A l \in Locals["loadscraper"] : a[l] \in Int, NEW ts
    PROVE  \A i \in DOMAIN LoadMetrics(a, ts) :
             GoodMetric("loadscraper", LoadMetrics(a, ts)[i], ts)
<1> DEFINE M == LoadMetrics(a, ts)
           Good(m) == GoodMetric("loadscraper", m, ts)
<1>1. LookedAt("loadscraper") = {"system.cpu.load_average.1m", "system.cpu.load_average.5m",
                                "system.cpu.load_average.15m"}
  BY DEF LookedAt, FoldScrapers, Locals, Single, Grouped, LoadSingle, Put, ++, Empty
<1>2. <<a["1"], 1>> \in Int \X Int /\ <<a["5"], 1>> \in Int \X Int /\ <<a["15"], 1>> \in Int \X Int
  BY DEF Locals
<1>3. Good(M[1]) /\ Good(M[2]) /\ Good(M[3])
  BY <1>1, <1>2, LiteralMetrics DEF LoadMetrics
<1>4. DOMAIN M = 1..3
  BY DEF LoadMetrics
<1>5. QED
  BY <1>3, <1>4

LEMMA KubernetesMetricsType ==
    ASSUME NEW a, NEW ts
    PROVE  /\ (\A l \in Locals["kubeletstatsreceiver"] : a[l] \in Int) =>
                \A i \in DOMAIN KubeletMetrics(a, ts) :
                  GoodMetric("kubeletstatsreceiver", KubeletMetrics(a, ts)[i], ts)
           /\ (\A l \in Locals["k8sclusterreceiver"] : a[l] \in Int) =>
                \A i \in DOMAIN ClusterMetrics(a, ts) :
                  GoodMetric("k8sclusterreceiver", ClusterMetrics(a, ts)[i], ts)
<1> DEFINE K == KubeletMetrics(a, ts)
           C == ClusterMetrics(a, ts)
<1>1. ASSUME \A l \in Locals["kubeletstatsreceiver"] : a[l] \in Int
      PROVE  \A i \in DOMAIN K : GoodMetric("kubeletstatsreceiver", K[i], ts)
  <2> DEFINE Good(m) == GoodMetric("kubeletstatsreceiver", m, ts)
  <2>1. LookedAt("kubeletstatsreceiver") =
          {"k8s.pod.cpu_limit_utilization", "k8s.pod.cpu.node.utilization",
           "k8s.pod.memory_limit_utilization", "k8s.pod.memory.node.utilization",
           "k8s.pod.network.io"}
    BY DEF LookedAt, FoldScrapers, Locals, Single, Grouped, PodSingle, Put, ++, Empty
  <2>2. /\ a["tx"] \in Int /\ a["rx"] \in Int
        /\ <<a["cpu.limit"], 1>> \in Int \X Int /\ <<a["cpu.node"], 1>> \in Int \X Int
        /\ <<a["memory.limit"], 1>> \in Int \X Int /\ <<a["memory.node"], 1>> \in Int \X Int
    BY <1>1 DEF Locals
  <2>3. Good(K[1]) /\ Good(K[2]) /\ Good(K[3]) /\ Good(K[4]) /\ Good(K[5]) /\ Good(K[6])
    BY <2>1, <2>2, LiteralMetrics DEF KubeletMetrics
  <2>4. DOMAIN K = 1..6
    BY DEF KubeletMetrics
  <2>5. QED
    BY <2>3, <2>4
<1>2. ASSUME \A l \in Locals["k8sclusterreceiver"] : a[l] \in Int
      PROVE  \A i \in DOMAIN C : GoodMetric("k8sclusterreceiver", C[i], ts)
  <2> DEFINE Good(m) == GoodMetric("k8sclusterreceiver", m, ts)
  <2>1. LookedAt("k8sclusterreceiver") =
          {"k8s.node.allocatable_cpu", "k8s.node.allocatable_memory"}
    BY DEF LookedAt, FoldScrapers, Locals, Single, Grouped, NodeSingle, Put, ++, Empty
  <2>2. a["cpu"] \in Int /\ a["memory"] \in Int
    BY <1>2 DEF Locals
  <2>3. Good(C[1]) /\ Good(C[2])
    BY <2>1, <2>2, LiteralMetrics DEF ClusterMetrics
  <2>4. DOMAIN C = 1..2
    BY DEF ClusterMetrics
  <2>5. QED
    BY <2>3, <2>4
<1>3. QED
  BY <1>1, <1>2

LEMMA ProcessesNames ==
    /\ \A part \in {"idle", "sleeping", "stopped", "zombie", "running", "total"} :
         ProcessesSummary[part] \notin {"system.processes.count", ""}
    /\ \A p, q \in {"idle", "sleeping", "stopped", "zombie", "running", "total"} :
         ProcessesSummary[p] = ProcessesSummary[q] => p = q
<1>1. /\ ProcessesSummary["idle"] = "system.process.summary.idle"
      /\ ProcessesSummary["sleeping"] = "system.process.summary.sleeping"
      /\ ProcessesSummary["stopped"] = "system.process.summary.stopped"
      /\ ProcessesSummary["zombie"] = "system.process.summary.zombie"
      /\ ProcessesSummary["running"] = "system.process.summary.running"
      /\ ProcessesSummary["total"] = "system.process.summary.total"
  BY DEF ProcessesSummary
<1>2. QED
  BY <1>1

LEMMA ProcessesMetricsType ==
    ASSUME NEW a, \A l \in Locals["processesscraper"] : a[l] \in Int, NEW ts
    PROVE  \A i \in DOMAIN ProcessesMetrics(a, ts) :
             GoodMetric("processesscraper", ProcessesMetrics(a, ts)[i], ts)
<1> DEFINE M == ProcessesMetrics(a, ts)
<1>1. LookedAt("processesscraper") = {"system.processes.count"}
  BY DEF LookedAt, FoldScrapers, Locals, Single, Grouped, Put, Empty
<1>2. DOMAIN M = 1..6 /\ DOMAIN ProcessesParts = 1..6
  BY DEF ProcessesMetrics, ProcessesParts
<1>3. \A i \in 1..6 :
        /\ a[ProcessesParts[i]] \in Int
        /\ ProcessesSummary[ProcessesParts[i]] \notin LookedAt("processesscraper") \cup {""}
  <2>1. \A i \in 1..6 : a[ProcessesParts[i]] \in Int
    BY <1>2 DEF Locals
  <2>2. \A i \in 1..6 : ProcessesParts[i] \in
          {"idle", "sleeping", "stopped", "zombie", "running", "total"}
    BY DEF ProcessesParts
  <2>3. QED
    BY <1>1, <2>1, <2>2, ProcessesNames
<1>4. \A i \in 1..6 : GoodMetric("processesscraper", M[i], ts)
  BY <1>2, <1>3, LiteralMetrics DEF ProcessesMetrics
<1>5. QED
  BY <1>2, <1>4

\* Cutting a timestamp to milliseconds keeps the order, and tells timestamps
\* apart that are a millisecond apart.
LEMMA UnixMilliOrder ==
    /\ \A t \in Nat : UnixMilli(t) \in Nat
    /\ \A t, u \in Nat : t <= u => UnixMilli(t) <= UnixMilli(u)
    /\ \A t, u \in Nat : t + Millisecond <= u => UnixMilli(t) < UnixMilli(u)
<1> DEFINE m == Millisecond
<1>1. m \in Nat /\ m > 0
  BY MillisecondAssumption
<1>2. \A t \in Nat : /\ t \div m \in Int /\ t % m \in 0..(m - 1)
                    /\ t = m * (t \div m) + (t % m)
  BY <1>1
<1>3. \A a, b, r, s \in Int : r >= 0 /\ s < m /\ m * a + r <= m * b + s => a <= b
  BY <1>1
<1>4. QED
  BY <1>1, <1>2, <1>3 DEF UnixMilli

LEMMA ProcessMetricsType ==
    ASSUME NEW a, \A l \in Locals["processscraper"] : a[l] \in Int,
           NEW ts \in Nat, NEW start \in Nat
    PROVE  \A i \in DOMAIN ProcessMetrics(a, ts, start) :
             GoodMetric("processscraper", ProcessMetrics(a, ts, start)[i], ts)
<1> DEFINE M == ProcessMetrics(a, ts, start)
           Good(m) == GoodMetric("processscraper", m, ts)
<1>1. LookedAt("processscraper") =
        {"process.threads", "process.memory.utilization", "process.memory.usage",
         "process.memory.virtual", "process.open_file_descriptors", "process.cpu.time",
         "process.disk.io", "process.disk.operations"}
  BY DEF LookedAt, FoldScrapers, Locals, Single, Grouped, ProcessSingle, Put, ++, Empty
<1>2. /\ a["threads"] \in Int /\ a["memUtil"] \in Int /\ a["memUsage"] \in Int
      /\ a["memVirtual"] \in Int /\ a["fdOpen"] \in Int
      /\ a["system"] \in Int /\ a["user"] \in Int /\ a["total"] \in Int
      /\ a["read_bytes"] \in Int /\ a["write_bytes"] \in Int
      /\ a["read_ops"] \in Int /\ a["write_ops"] \in Int
  BY DEF Locals
<1>3. /\ <<a["memUtil"], 100>> \in Int \X Int /\ <<1000 * a["system"], 1>> \in Int \X Int
      /\ <<1000 * a["user"], 1>> \in Int \X Int /\ <<1000 * a["total"], 1>> \in Int \X Int
      /\ <<1000 * a["total"], ProcessRuntime(ts, start)>> \in Int \X Int
      /\ UnixMilli(start) \in Int
  BY <1>2, UnixMilliOrder DEF ProcessRuntime
<1> HIDE DEF Good
<1>4. Good(M[1]) /\ Good(M[2]) /\ Good(M[4]) /\ Good(M[5]) /\ Good(M[6]) /\ Good(M[12]) /\ Good(M[13]) /\ Good(M[14]) /\ Good(M[15])
  <2> DEFINE Names ==
        {"process.cpu.start_time",
         "system.process.num_threads",
         "system.process.memory.rss.bytes",
         "system.process.memory.size",
         "system.process.fd.open",
         "system.process.io.read_bytes",
         "system.process.io.write_bytes",
         "system.process.io.read_ops",
         "system.process.io.write_ops"}
  <2>1. /\ M[1] = IntSum("process.cpu.start_time", UnixMilli(start), ts)
         /\ M[2] = IntSum("system.process.num_threads", a["threads"], ts)
         /\ M[4] = IntSum("system.process.memory.rss.bytes", a["memUsage"], ts)
         /\ M[5] = IntSum("system.process.memory.size", a["memVirtual"], ts)
         /\ M[6] = IntSum("system.process.fd.open", a["fdOpen"], ts)
         /\ M[12] = IntSum("system.process.io.read_bytes", a["read_bytes"], ts)
         /\ M[13] = IntSum("system.process.io.write_bytes", a["write_bytes"], ts)
         /\ M[14] = IntSum("system.process.io.read_ops", a["read_ops"], ts)
         /\ M[15] = IntSum("system.process.io.write_ops", a["write_ops"], ts)
    BY DEF ProcessMetrics
  <2>2. Names \cap (LookedAt("processscraper") \cup {""}) = {}
    BY <1>1
  <2>3. \A name \in Names : \A n \in Int : Good(IntSum(name, n, ts)) 
    BY <2>2, LiteralMetrics DEF Good
  <2> HIDE DEF M
  <2>4. QED
    BY <1>2, <1>3, <2>1, <2>3
<1>5. Good(M[3]) /\ Good(M[7]) /\ Good(M[8]) /\ Good(M[9]) /\ Good(M[10]) /\ Good(M[11]) /\ Good(M[16])
  <2> DEFINE Names ==
        {"system.process.memory.rss.pct",
         "process.memory.pct",
         "system.process.cpu.total.value",
         "system.process.cpu.system.ticks",
         "system.process.cpu.user.ticks",
         "system.process.cpu.total.ticks",
         "system.process.cpu.total.pct"}
  <2>1. /\ M[3] = DoubleGauge("system.process.memory.rss.pct", <<a["memUtil"], 100>>, ts)
         /\ M[7] = DoubleGauge("process.memory.pct", <<a["memUtil"], 100>>, ts)
         /\ M[8] = DoubleSum("system.process.cpu.total.value", <<1000 * a["total"], 1>>, ts)
         /\ M[9] = DoubleSum("system.process.cpu.system.ticks", <<1000 * a["system"], 1>>, ts)
         /\ M[10] = DoubleSum("system.process.cpu.user.ticks", <<1000 * a["user"], 1>>, ts)
         /\ M[11] = DoubleSum("system.process.cpu.total.ticks", <<1000 * a["total"], 1>>, ts)
         /\ M[16] = DoubleGauge("system.process.cpu.total.pct", <<1000 * a["total"], ProcessRuntime(ts, start)>>, ts)
    BY DEF ProcessMetrics
  <2>2. Names \cap (LookedAt("processscraper") \cup {""}) = {}
    BY <1>1
  <2>3. \A name \in Names : \A r \in Int \X Int : Good(DoubleSum(name, r, ts)) /\ Good(DoubleGauge(name, r, ts)) 
    BY <2>2, LiteralMetrics DEF Good
  <2> HIDE DEF M
  <2>4. QED
    BY <1>3, <2>1, <2>3
<1>6. DOMAIN M = 1..16
  BY DEF ProcessMetrics
<1> HIDE DEF M
<1>7. \A i \in 1..16 : Good(M[i])
  BY <1>4, <1>5
<1>8. QED
  BY <1>6, <1>7 DEF M, Good

LEMMA FoldedMetricsType ==
    ASSUME NEW s \in FoldScrapers, NEW a, \A l \in Locals[s] : a[l] \in Int,
           NEW ts \in Nat, NEW start \in Nat
    PROVE  \A i \in DOMAIN FoldedMetrics(s, a, ts, start) :
             GoodMetric(s, FoldedMetrics(s, a, ts, start)[i], ts)
<1>1. s \in {"cpuscraper", "memoryscraper", "loadscraper", "processscraper", "processesscraper",
            "kubeletstatsreceiver", "k8sclusterreceiver"}
  BY DEF FoldScrapers, Locals
<1>2. QED
  BY <1>1, CpuMetricsType, MemoryMetricsType, LoadMetricsType, KubernetesMetricsType,
     ProcessesMetricsType, ProcessMetricsType DEF FoldedMetrics

\* A good metric is a metric of the scraper, whatever its timestamp was read from.
LEMMA GoodIsMetric ==
    ASSUME NEW s, s # "networkscraper", NEW ts \in Nat, NEW m, GoodMetric(s, m, ts)
    PROVE  IsMetric(s, m)
BY DEF GoodMetric, IsMetric

LEMMA PointMetricsType ==
    ASSUME NEW dp, IsPoint(dp)
    PROVE  \A i \in DOMAIN PointMetrics(dp) :
             GoodMetric("filesystemscraper", PointMetrics(dp)[i], dp.ts)
<1>1. LookedAt("filesystemscraper") = {"system.filesystem.usage", "system.filesystem.inodes.usage"}
  BY DEF LookedAt, FoldScrapers, Locals, FilesystemMetrics, FilesystemUsage
<1>2. DOMAIN PointMetrics(dp) = DOMAIN PassedOn(dp)
  BY DEF PointMetrics
<1>3. ASSUME NEW i \in DOMAIN PassedOn(dp)
      PROVE  PassedOn(dp)[i] \notin LookedAt("filesystemscraper") \cup {""}
  <2>1. PassedOn(dp)[i] \in {"system.filesystem.used.bytes", "system.filesystem.free",
                            "system.filesystem.available", "system.filesystem.free_files"}
    <3>1. PassedOn(dp) \in {<<"system.filesystem.used.bytes">>,
                           <<"system.filesystem.free", "system.filesystem.available">>,
                           <<"system.filesystem.free_files">>, <<>>}
      BY DEF PassedOn
    <3>2. QED
      BY <3>1
  <2>2. QED
    BY <1>1, <2>1
<1>4. IntValue(dp) \in Int
  BY NumberType
<1>5. ASSUME NEW i \in DOMAIN PassedOn(dp)
      PROVE  GoodMetric("filesystemscraper", IntSum(PassedOn(dp)[i], IntValue(dp), dp.ts), dp.ts)
  BY <1>3, <1>4, LiteralMetrics
<1>6. QED
  BY <1>2, <1>5 DEF PointMetrics

LEMMA DeviceTotalsType ==
    ASSUME NEW d \in [DOMAIN NoUsage -> Int], NEW ts
    PROVE  \A i \in DOMAIN DeviceTotals(d, ts) :
             GoodMetric("filesystemscraper", DeviceTotals(d, ts)[i], ts)
<1> DEFINE Good(m) == GoodMetric("filesystemscraper", m, ts)
           total == IntSum("system.filesystem.total", d.totalUsage, ts)
           pct == DoubleSum("system.filesystem.used.pct", <<d.usedBytes, d.totalUsage>>, ts)
           files == IntSum("system.filesystem.files", d.totalInodeUsage, ts)
           bytes == IF d.totalUsage > 0 THEN <<total, pct>> ELSE <<>>
           inodes == IF d.totalInodeUsage > 0 THEN <<files>> ELSE <<>>
<1>1. LookedAt("filesystemscraper") = {"system.filesystem.usage", "system.filesystem.inodes.usage"}
  BY DEF LookedAt, FoldScrapers, Locals, FilesystemMetrics, FilesystemUsage
<1>2. d.totalUsage \in Int /\ d.usedBytes \in Int /\ d.totalInodeUsage \in Int
  BY DEF NoUsage
<1>3. Good(total) /\ Good(pct) /\ Good(files)
  <2>1. <<d.usedBytes, d.totalUsage>> \in Int \X Int
    BY <1>2
  <2>2. QED
    BY <1>1, <1>2, <2>1, LiteralMetrics
<1> HIDE DEF total, pct, files, Good
<1>4. \A i \in DOMAIN bytes : Good(bytes[i])
  BY <1>3
<1>5. \A i \in DOMAIN inodes : Good(inodes[i])
  BY <1>3
<1>6. IsSeq(bytes) /\ IsSeq(inodes)
  <2>1. \A a, b : <<a, b>> \in Seq({a, b}) /\ <<a>> \in Seq({a}) /\ <<>> \in Seq({})
    OBVIOUS
  <2>2. QED
    BY <2>1, SeqIsSeq
<1>7. DeviceTotals(d, ts) = bytes \o inodes
  BY DEF DeviceTotals, total, pct, files
<1> HIDE DEF bytes, inodes
<1>8. \A i \in DOMAIN (bytes \o inodes) : Good((bytes \o inodes)[i])
  BY <1>4, <1>5, <1>6, ConcatPoints
<1>9. QED
  BY <1>7, <1>8 DEF Good

\* The names put together are as NamesAssumption says.
LEMMA PassedMetricsType ==
    ASSUME NEW sc \in Scopes, NEW dp \in Inputs[sc.base]
    PROVE  /\ sc.base = "diskscraper" /\ DiskPassesOn(dp) => IsMetric(sc.base, DiskMetric(dp))
           /\ sc.base = "networkscraper" /\ NetworkPassesOn(dp) =>
                IsMetric(sc.base, NetworkMetric(dp))
<1>1. IsPoint(dp)
  BY InputsAssumption
<1>2. ASSUME sc.base = "diskscraper", DiskPassesOn(dp)
      PROVE  IsMetric(sc.base, DiskMetric(dp))
  <2>1. DiskMetric(dp).name \notin LookedAt(sc.base)
    BY <1>2, NamesAssumption
  <2>2. /\ DiskMetric(dp).type = "Sum" /\ DiskMetric(dp).kind = dp.kind /\ DiskMetric(dp).ts = dp.ts
        /\ DiskMetric(dp).value = <<dp.value[1] * Multiplier(dp.name), dp.value[2]>>
    BY DEF DiskMetric
  <2>3. dp.value[1] * Multiplier(dp.name) \in Int /\ dp.value[2] \in Int
    <3>1. Multiplier(dp.name) \in Int
      BY DEF Multiplier
    <3>2. QED
      BY <1>1, <3>1 DEF IsPoint
  <2>4. DiskMetric(dp).value \in Int \X Int
    BY <2>2, <2>3
  <2>5. QED
    BY <1>1, <1>2, <2>1, <2>2, <2>4 DEF IsMetric, IsPoint
<1>3. ASSUME sc.base = "networkscraper", NetworkPassesOn(dp)
      PROVE  IsMetric(sc.base, NetworkMetric(dp))
  <2>1. NetworkMetric(dp).name \notin LookedAt(sc.base)
    BY <1>3, NamesAssumption
  <2>2. /\ NetworkMetric(dp).type = "Sum" /\ NetworkMetric(dp).kind = "int"
        /\ NetworkMetric(dp).ts = dp.ts /\ NetworkMetric(dp).value = <<IntValue(dp), 1>>
    BY DEF NetworkMetric, IntSum
  <2>3. NetworkMetric(dp).value \in Int \X Int
    BY <1>1, <2>2, NumberType
  <2>4. QED
    BY <1>1, <1>3, <2>1, <2>2, <2>3 DEF IsMetric, IsPoint
<1>4. QED
  BY <1>2, <1>3

LEMMA DeviceUsageType ==
    ASSUME NEW ds, \A key \in DOMAIN ds : ds[key] \in [DOMAIN NoUsage -> Int],
           NEW dp, IsPoint(dp)
    PROVE  /\ DOMAIN DeviceUsage(ds, dp) = DOMAIN ds \cup {DeviceKey(dp)}
           /\ \A key \in DOMAIN DeviceUsage(ds, dp) :
                DeviceUsage(ds, dp)[key] \in [DOMAIN NoUsage -> Int]
<1> DEFINE k == DeviceKey(dp)
           known == Known(ds, k)
<1>1. DOMAIN known = DOMAIN ds \cup {k} /\ \A key \in DOMAIN known : known[key] \in [DOMAIN NoUsage -> Int]
  BY DEF Known, Put, ++, NoUsage
<1>2. ASSUME NEW d \in [DOMAIN NoUsage -> Int]
      PROVE  Measured(d, dp) \in [DOMAIN NoUsage -> Int]
  <2>1. d.totalUsage \in Int /\ d.usedBytes \in Int /\ d.totalInodeUsage \in Int
    BY DEF NoUsage
  <2>2. IntValue(dp) \in Int
    BY NumberType
  <2>3. QED
    BY <2>1, <2>2 DEF Measured, NoUsage
<1> HIDE DEF known, k
<1>3. DeviceUsage(ds, dp) = [known EXCEPT ![k] = Measured(known[k], dp)]
  BY DEF DeviceUsage, known, k
<1>4. QED
  BY <1>1, <1>2, <1>3 DEF k

-------------------------------------------------------------------------------
(* Types are kept, and what is appended is never taken for input                 *)

OutType == IsSeq(out) /\ AllInert(scope.base, out)

LocalsType ==
  /\ acc = [l \in DOMAIN acc |-> acc[l]]
  /\ \A l \in DOMAIN acc : acc[l] \in Int
  /\ DOMAIN acc = IF Handled(package, scope) /\ Folding THEN Locals[scope.base] ELSE {}
  /\ \A key \in DOMAIN devices : devices[key] \in [DOMAIN NoUsage -> Int]
  /\ timestamp \in Nat /\ startTimestamp \in Nat

\* Only the filesystem's remapper has a second loop.
InDevices == pc = "devices" => Filesystem

\* The inductive invariant: the types, of the points in out too, and that every
\* metric in out is one that the remapper of the scope passes over.
TypeInv == TypeOK /\ OutType /\ LocalsType /\ IsSeq(seen) /\ Began /\ InDevices

\* A folding remapper's locals do not see a point that is not for them.
LEMMA FoldedNothing ==
    ASSUME LocalsType
    PROVE  Folded(acc, NoEffect) = acc
<1>1. ASSUME NEW l \in DOMAIN acc PROVE Folded(acc, NoEffect)[l] = acc[l]
  <2>1. acc[l] \in Int
    BY DEF LocalsType
  <2>2. Folded(acc, NoEffect)[l] = acc[l] + 0
    BY DEF Folded, NoEffect, Empty
  <2>3. QED
    BY <2>1, <2>2
<1>2. Folded(acc, NoEffect) = [l \in DOMAIN acc |-> Folded(acc, NoEffect)[l]]
  BY DEF Folded
<1>3. Folded(acc, NoEffect) = [l \in DOMAIN acc |-> acc[l]]
  BY <1>1, <1>2
<1>4. QED
  BY <1>3 DEF LocalsType

LEMMA FoldLookedAt ==
    ASSUME NEW s \in FoldScrapers
    PROVE  LookedAt(s) = DOMAIN Single[s] \cup DOMAIN Grouped[s]
BY DEF LookedAt, FoldScrapers, Locals

\* Reading back a metric of the remapper's own changes nothing.
LEMMA ReadInert ==
    ASSUME LocalsType, NEW dp, Inert(scope.base, dp), Read(dp)
    PROVE  UNCHANGED <<out, locals>>
<1> USE DEF locals
<1>1. CASE ReadFolded(dp)
  <2>1. dp.name \notin DOMAIN Single[scope.base] /\ dp.name \notin DOMAIN Grouped[scope.base]
    BY <1>1, FoldLookedAt DEF ReadFolded, Folding, Inert
  <2>2. ~Relevant(scope.base, dp) /\ Effect(scope.base, dp) = NoEffect
    BY <2>1 DEF Relevant, Effect
  <2>3. QED
    BY <1>1, <2>2, FoldedNothing DEF ReadFolded
<1>2. CASE ReadFilesystem(dp)
  <2>1. dp.name \notin FilesystemMetrics
    BY <1>2 DEF ReadFilesystem, Filesystem, Inert, LookedAt, FoldScrapers, Locals
  <2>2. QED
    BY <1>2, <2>1 DEF ReadFilesystem
<1>3. CASE ReadDisk(dp)
  <2>1. ~DiskPassesOn(dp)
    BY <1>3 DEF ReadDisk, DiskPassesOn, Inert, LookedAt, FoldScrapers, Locals
  <2>2. QED
    BY <1>3, <2>1 DEF ReadDisk
<1>4. CASE ReadNetwork(dp)
  <2>1. ~NetworkPassesOn(dp)
    BY <1>4 DEF ReadNetwork, NetworkPassesOn, Inert, LookedAt, FoldScrapers, Locals
  <2>2. QED
    BY <1>4, <2>1 DEF ReadNetwork
<1>5. QED
  BY <1>1, <1>2, <1>3, <1>4 DEF Read

\* Reading a point of the scope keeps the types.
LEMMA ReadType ==
    ASSUME scope \in Scopes, Handled(package, scope), OutType, LocalsType,
           NEW dp \in Inputs[scope.base], Read(dp), UNCHANGED <<package, scope>>
    PROVE  OutType' /\ LocalsType' /\ DOMAIN devices \subseteq DOMAIN devices'
           /\ Len(out) <= Len(out')
<1> USE DEF locals
<1>1. IsPoint(dp) /\ dp.ts \in Nat /\ dp.start \in Nat
  BY InputsAssumption DEF IsPoint
<1>2. Len(out) \in Nat
  BY IsSeqDomain DEF OutType
<1>3. \A s, f : UNCHANGED out => OutType' /\ Len(out) <= Len(out')
  BY <1>2 DEF OutType, AllInert, IsSeq
<1>4. CASE ReadFolded(dp)
  <2>1. IsEffect(Effect(scope.base, dp))
    BY <1>1, <1>4, EffectType DEF ReadFolded, Folding
  <2>2. /\ acc' = [l \in DOMAIN acc' |-> acc'[l]] /\ DOMAIN acc' = DOMAIN acc
        /\ \A l \in DOMAIN acc' : acc'[l] \in Int
    <3>1. acc' = Folded(acc, Effect(scope.base, dp))
      BY <1>4 DEF ReadFolded
    <3>2. acc' = [l \in DOMAIN acc' |-> acc'[l]]
      BY <3>1 DEF Folded
    <3>3. QED
      BY <2>1, <3>1, <3>2, FoldedType DEF LocalsType
  <2>3. timestamp' \in Nat /\ startTimestamp' \in Nat
    BY <1>1, <1>4 DEF ReadFolded, Stamped, LocalsType
  <2>4. LocalsType'
    BY <1>4, <2>2, <2>3 DEF LocalsType, ReadFolded, Handled, ValidScope, Folding
  <2>5. QED
    BY <1>3, <1>4, <2>4 DEF ReadFolded
<1>5. CASE ReadFilesystem(dp)
  <2>1. timestamp' \in Nat /\ startTimestamp' \in Nat /\ UNCHANGED acc
    BY <1>1, <1>5 DEF ReadFilesystem, LocalsType
  <2>2. /\ \A key \in DOMAIN devices' : devices'[key] \in [DOMAIN NoUsage -> Int]
        /\ DOMAIN devices \subseteq DOMAIN devices'
    <3>1. devices' = devices \/ devices' = DeviceUsage(devices, dp)
      BY <1>5 DEF ReadFilesystem
    <3>2. \A key \in DOMAIN devices : devices[key] \in [DOMAIN NoUsage -> Int]
      BY DEF LocalsType
    <3> DEFINE new == DeviceUsage(devices, dp)
    <3>3. /\ DOMAIN new = DOMAIN devices \cup {DeviceKey(dp)}
          /\ \A key \in DOMAIN new : new[key] \in [DOMAIN NoUsage -> Int]
      BY <1>1, <3>2, DeviceUsageType
    <3> HIDE DEF new
    <3>4. devices' = devices \/ devices' = new
      BY <3>1 DEF new
    <3>5. QED
      BY <3>2, <3>3, <3>4
  <2>3. LocalsType'
    BY <2>1, <2>2 DEF LocalsType, Handled, ValidScope, Folding
  <2>4. \A i \in DOMAIN PointMetrics(dp) : IsMetric(scope.base, PointMetrics(dp)[i])
    BY <1>1, <1>5, PointMetricsType, GoodIsMetric DEF ReadFilesystem, Filesystem
  <2>5. OutType' /\ Len(out) <= Len(out')
    BY <1>3, <1>5, <2>4, AddInert, PointMetricsSeq DEF ReadFilesystem, OutType
  <2>6. QED
    BY <2>2, <2>3, <2>5
<1>6. CASE ReadDisk(dp)
  <2>1. DiskPassesOn(dp) => IsMetric(scope.base, DiskMetric(dp))
    BY <1>6, PassedMetricsType DEF ReadDisk
  <2>2. IsSeq(<<DiskMetric(dp)>>)
    BY DEF IsSeq
  <2>3. OutType' /\ Len(out) <= Len(out')
    BY <1>3, <1>6, <2>1, <2>2, AddInert DEF ReadDisk, OutType
  <2>4. QED
    BY <1>6, <2>3 DEF ReadDisk, LocalsType, Handled, ValidScope, Folding
<1>7. CASE ReadNetwork(dp)
  <2>1. NetworkPassesOn(dp) => IsMetric(scope.base, NetworkMetric(dp))
    BY <1>7, PassedMetricsType DEF ReadNetwork
  <2>2. IsSeq(<<NetworkMetric(dp)>>)
    BY DEF IsSeq
  <2>3. OutType' /\ Len(out) <= Len(out')
    BY <1>3, <1>7, <2>1, <2>2, AddInert DEF ReadNetwork, OutType
  <2>4. QED
    BY <1>7, <2>3 DEF ReadNetwork, LocalsType, Handled, ValidScope, Folding
<1>8. QED
  BY <1>4, <1>5, <1>6, <1>7 DEF Read

LEMMA InitType == Init => TypeInv
<1> SUFFICES ASSUME Init PROVE TypeInv
  OBVIOUS
<1>1. IsSeq(Earlier) /\ \A i \in DOMAIN Earlier : IsPoint(Earlier[i]) /\ Inert(scope.base, Earlier[i])
  BY EarlierAssumption DEF IsSeq, Init
<1>2. OutType
  BY <1>1 DEF OutType, AllInert, Init
<1>3. LocalsType
  <2>1. \A l \in DOMAIN acc : acc[l] \in Int
    BY DEF Init, Empty
  <2>2. DOMAIN acc = IF Handled(package, scope) /\ Folding THEN Locals[scope.base] ELSE {}
    BY DEF Init, Empty
  <2>3. acc = [l \in DOMAIN acc |-> acc[l]]
    BY DEF Init, Empty
  <2>4. QED
    BY <2>1, <2>2, <2>3 DEF Init, LocalsType, Empty
<1>4. IsSeq(seen) /\ Began /\ InDevices /\ Len(seen) = 0 /\ DOMAIN seen = {}
  BY DEF Init, IsSeq, Began, InDevices
<1>5. Len(out) \in Nat
  BY <1>1, IsSeqDomain DEF Init
<1>6. TypeOK
  BY <1>2, <1>3, <1>4, <1>5, BoundAssumption DEF Init, TypeOK, OutType, AllInert, LocalsType
<1>7. QED
  BY <1>2, <1>3, <1>4, <1>6 DEF TypeInv

\* The parts of the invariant that the scalars of a call make up, after a step.
LEMMA TypeParts ==
    ASSUME OutType', LocalsType', IsSeq(seen)', Began', InDevices',
           pc' \in {"idle", "loop", "tail", "devices", "done"},
           package' \in Packages, scope' \in Scopes, resource' \in Resources,
           inPlace' \in BOOLEAN, Len(seen') <= MaxPoints,
           \A i \in DOMAIN seen' : seen'[i] \in Inputs[scope'.base],
           fed' \in 0..Len(out'), left' \subseteq DOMAIN devices'
    PROVE  TypeInv'
<1>1. TypeOK'
  BY DEF TypeOK, OutType, LocalsType, AllInert, Folding, Handled, ValidScope
<1>2. QED
  BY <1>1 DEF TypeInv

LEMMA NextType == TypeInv /\ [Next]_vars => TypeInv'
<1> SUFFICES ASSUME TypeInv, [Next]_vars PROVE TypeInv'
  OBVIOUS
<1> USE DEF call, locals
<1>1. /\ OutType /\ LocalsType /\ IsSeq(seen) /\ Began /\ InDevices
      /\ pc \in {"idle", "loop", "tail", "devices", "done"}
      /\ package \in Packages /\ scope \in Scopes /\ resource \in Resources /\ inPlace \in BOOLEAN
      /\ Len(seen) <= MaxPoints /\ \A i \in DOMAIN seen : seen[i] \in Inputs[scope.base]
      /\ fed \in 0..Len(out) /\ left \subseteq DOMAIN devices
  BY DEF TypeInv, TypeOK
<1>2. Len(out) \in Nat /\ DOMAIN out = 1..Len(out) /\ Len(seen) \in Nat /\ DOMAIN seen = 1..Len(seen)
  BY <1>1, IsSeqDomain DEF OutType
<1>3. UNCHANGED <<out, scope>> => OutType'
  BY <1>1 DEF OutType, AllInert, IsSeq
<1>4. UNCHANGED <<package, scope, acc, devices, timestamp, startTimestamp>> => LocalsType'
  BY <1>1 DEF LocalsType, Handled, ValidScope, Folding
<1>5. UNCHANGED <<package, scope>> /\ (pc' \in {"loop", "tail", "devices"} => Handled(package, scope))
        => Began'
  BY DEF Began, Handled, ValidScope
<1>50. UNCHANGED scope /\ (pc' = "devices" => Filesystem) => InDevices'
  BY DEF InDevices, Filesystem
<1>6. UNCHANGED seen => IsSeq(seen)'
  BY <1>1 DEF IsSeq
<1>7. CASE UNCHANGED vars
  BY <1>1, <1>3, <1>4, <1>5, <1>50, <1>6, <1>7, TypeParts DEF vars, Began, InDevices
<1> SUFFICES ASSUME Next PROVE TypeInv'
  BY <1>7
<1>8. UNCHANGED <<package, scope, resource, inPlace>>
  BY DEF Next, Ignore, Begin, ReadPoint, EndOfScope, ReadBack, AppendFolded, RangeDevices,
    AppendDevice, Return
<1>9. CASE Ignore \/ Begin \/ EndOfScope \/ Return \/ RangeDevices
  <2>1. UNCHANGED <<seen, fed, out, acc, devices, timestamp, startTimestamp>>
    BY <1>9 DEF Ignore, Begin, EndOfScope, Return, RangeDevices
  <2>2. pc' \in {"loop", "tail", "devices", "done"}
    BY <1>9 DEF Ignore, Begin, EndOfScope, Return, RangeDevices
  <2>3. pc' \in {"loop", "tail", "devices"} => Handled(package, scope)
    BY <1>1, <1>9 DEF Ignore, Begin, EndOfScope, Return, RangeDevices, LoopEnded, Began
  <2>4. left' \subseteq DOMAIN devices'
    BY <1>1, <1>9, <2>1 DEF Ignore, Begin, EndOfScope, Return, RangeDevices
  <2>5. OutType' /\ LocalsType' /\ IsSeq(seen)' /\ Began'
    BY <1>3, <1>4, <1>5, <1>6, <1>8, <2>1, <2>3
  <2>6. InDevices'
    BY <1>8, <1>9, <1>50 DEF Ignore, Begin, EndOfScope, Return, RangeDevices
  <2>7. QED
    BY <1>1, <1>8, <2>1, <2>2, <2>4, <2>5, <2>6, TypeParts
<1>10. ASSUME NEW dp \in Inputs[scope.base], ReadPoint(dp) PROVE TypeInv'
  <2>1. pc = "loop" /\ UNCHANGED <<pc, fed, left>> /\ seen' = Append(seen, dp)
        /\ Len(seen) < MaxPoints /\ Read(dp)
    BY <1>10 DEF ReadPoint
  <2>2. OutType' /\ LocalsType' /\ DOMAIN devices \subseteq DOMAIN devices' /\ Len(out) <= Len(out')
    BY <1>1, <1>8, <2>1, ReadType DEF Began
  <2>3. /\ IsSeq(seen)' /\ Len(seen') = Len(seen) + 1
        /\ \A i \in DOMAIN seen' : seen'[i] \in Inputs[scope.base]
    <3>1. Extends(seen', seen, {dp})
      <4>1. Extends(seen, seen, {dp})
        BY <1>1, ExtendsItself
      <4>2. QED
        BY <1>1, <2>1, <4>1, ExtendsAppend
    <3>2. Len(seen') = Len(seen) + 1
      <4>1. seen \in Seq({seen[i] : i \in DOMAIN seen} \cup {dp})
        <5>1. \A A, B : A \subseteq B => Seq(A) \subseteq Seq(B)
          OBVIOUS
        <5>2. QED
          BY <1>1, <5>1 DEF IsSeq
      <4>2. QED
        BY <2>1, <4>1
    <3>3. IsSeq(seen)'
      BY <3>1 DEF Extends, IsSeq
    <3>4. DOMAIN seen' = 1..Len(seen')
      BY <3>1, IsSeqDomain DEF Extends
    <3>5. QED
      BY <1>1, <1>2, <3>1, <3>2, <3>3, <3>4 DEF Extends
  <2>4. Len(seen') <= MaxPoints
    BY <1>2, <2>1, <2>3, BoundAssumption
  <2>5. Len(out') \in Nat
    BY <2>2, IsSeqDomain DEF OutType, IsSeq
  <2>6. fed' \in 0..Len(out')
    BY <1>1, <1>2, <2>1, <2>2, <2>5
  <2>7. Began' /\ InDevices' /\ left' \subseteq DOMAIN devices'
    BY <1>1, <1>5, <1>50, <1>8, <2>1, <2>2 DEF Began
  <2>8. QED
    BY <1>1, <1>8, <2>1, <2>2, <2>3, <2>4, <2>6, <2>7, TypeParts
<1>11. CASE ReadBack
  <2>1. /\ fed \in Nat /\ fed < Len(out) /\ fed' = fed + 1 /\ UNCHANGED <<pc, seen, left>>
        /\ Read(out[fed + 1]) /\ pc = "tail"
    BY <1>1, <1>2, <1>11 DEF ReadBack
  <2>2. Inert(scope.base, out[fed + 1])
    BY <1>1, <1>2, <2>1 DEF OutType, AllInert
  <2>3. UNCHANGED <<out, acc, devices, timestamp, startTimestamp>>
    BY <1>1, <2>1, <2>2, ReadInert
  <2>4. fed' \in 0..Len(out') /\ left' \subseteq DOMAIN devices'
    BY <1>1, <1>2, <2>1, <2>3
  <2>5. OutType' /\ LocalsType' /\ IsSeq(seen)' /\ Began' /\ InDevices'
    BY <1>1, <1>3, <1>4, <1>5, <1>50, <1>6, <1>8, <2>1, <2>3 DEF Began
  <2>6. QED
    BY <1>1, <1>8, <2>1, <2>3, <2>4, <2>5, TypeParts
<1>12. CASE AppendFolded
  <2>1. /\ pc' = "done" /\ UNCHANGED <<seen, fed, acc, devices, timestamp, startTimestamp, left>>
        /\ pc = "tail" /\ scope.base \in FoldScrapers
    BY <1>12 DEF AppendFolded, LoopEnded, Folding
  <2> DEFINE all == FoldedMetrics(scope.base, acc, timestamp, startTimestamp)
  <2>2. IsSeq(all)
    BY <2>1, FoldedMetricsSeq
  <2>3. \A i \in DOMAIN all : IsMetric(scope.base, all[i])
    <3>1. DOMAIN acc = Locals[scope.base]
      BY <1>1, <2>1 DEF LocalsType, Folding, Began
    <3>2. \A i \in DOMAIN all : GoodMetric(scope.base, all[i], timestamp)
      BY <1>1, <2>1, <3>1, FoldedMetricsType DEF LocalsType
    <3>3. scope.base # "networkscraper"
      BY <2>1 DEF FoldScrapers, Locals
    <3> HIDE DEF all
    <3>4. QED
      BY <1>1, <3>2, <3>3, GoodIsMetric DEF LocalsType
  <2>4. OutType' /\ Len(out) <= Len(out')
    <3> HIDE DEF all
    <3>1. out' = Add(out, ChainedMutator(DatasetMutator,
                                       OwnMutator(scope.base, resource, startTimestamp)), all)
      BY <1>12 DEF AppendFolded, all
    <3>2. QED
      BY <1>1, <1>8, <2>2, <2>3, <3>1, AddInert DEF OutType
  <2>5. fed' \in 0..Len(out')
    <3>1. Len(out') \in Nat
      BY <2>4, IsSeqDomain DEF OutType, IsSeq
    <3>2. QED
      BY <1>1, <1>2, <2>1, <2>4, <3>1
  <2>6. LocalsType' /\ IsSeq(seen)' /\ Began' /\ InDevices' /\ left' \subseteq DOMAIN devices'
    BY <1>1, <1>4, <1>5, <1>50, <1>6, <1>8, <2>1
  <2>7. QED
    BY <1>1, <1>8, <2>1, <2>4, <2>5, <2>6, TypeParts
<1>13. ASSUME NEW key \in left, AppendDevice(key) PROVE TypeInv'
  <2>1. /\ UNCHANGED <<pc, seen, fed, acc, devices, timestamp, startTimestamp>>
        /\ pc = "devices" /\ left' \subseteq left
    BY <1>13 DEF AppendDevice
  <2> DEFINE all == DeviceTotals(devices[key], timestamp)
  <2>2. IsSeq(all)
    BY DeviceTotalsSeq
  <2>3. \A i \in DOMAIN all : IsMetric(scope.base, all[i])
    <3>1. devices[key] \in [DOMAIN NoUsage -> Int]
      BY <1>1, <1>13 DEF LocalsType
    <3>2. \A i \in DOMAIN all : GoodMetric("filesystemscraper", all[i], timestamp)
      BY <3>1, DeviceTotalsType
    <3>3. scope.base = "filesystemscraper" /\ timestamp \in Nat
      BY <1>1, <2>1 DEF InDevices, Filesystem, LocalsType
    <3> HIDE DEF all
    <3>4. QED
      BY <3>2, <3>3, GoodIsMetric
  <2>4. OutType' /\ Len(out) <= Len(out')
    <3> HIDE DEF all
    <3>1. out' = Add(out, ChainedMutator(DatasetMutator, FilesystemAttrs(key)), all)
      BY <1>13 DEF AppendDevice, all
    <3>2. QED
      BY <1>1, <1>8, <2>2, <2>3, <3>1, AddInert DEF OutType
  <2>5. fed' \in 0..Len(out')
    <3>1. Len(out') \in Nat
      BY <2>4, IsSeqDomain DEF OutType, IsSeq
    <3>2. QED
      BY <1>1, <1>2, <2>1, <2>4, <3>1
  <2>6. LocalsType' /\ IsSeq(seen)' /\ Began' /\ InDevices' /\ left' \subseteq DOMAIN devices'
    BY <1>1, <1>4, <1>5, <1>50, <1>6, <1>8, <2>1 DEF Began, InDevices
  <2>7. QED
    BY <1>1, <1>8, <2>1, <2>4, <2>5, <2>6, TypeParts
<1>14. QED
  BY <1>9, <1>10, <1>11, <1>12, <1>13 DEF Next

LEMMA TypeAlways == Spec => []TypeInv
BY InitType, NextType, PTL DEF Spec

\* Whatever the points, their number and what out holds: every variable of a
\* call, and every point it appends, stays in its type, and the last loop has
\* only devices to visit that the map has.
THEOREM TypeCorrect == Spec => []TypeOK
<1>1. TypeInv => TypeOK
  BY DEF TypeInv
<1>2. QED
  BY <1>1, TypeAlways, PTL

\* Source and output may be one slice: no remapper ever takes a metric that it,
\* or an earlier call, has appended for one to remap.
THEOREM NothingFedBack == Spec => InPlaceInert
<1>1. TypeInv /\ [Next]_vars => [fed' # fed => UNCHANGED <<out, locals>>]_vars
  <2> SUFFICES ASSUME TypeInv, Next, fed' # fed PROVE UNCHANGED <<out, locals>>
    BY DEF vars
  <2>1. ReadBack
    BY DEF Next, Ignore, Begin, ReadPoint, EndOfScope, AppendFolded, RangeDevices,
      AppendDevice, Return
  <2>2. LocalsType /\ OutType /\ fed \in 0..Len(out)
    BY DEF TypeInv, TypeOK
  <2>3. DOMAIN out = 1..Len(out) /\ Len(out) \in Nat
    BY <2>2, IsSeqDomain DEF OutType
  <2>4. Inert(scope.base, out[fed + 1]) /\ Read(out[fed + 1])
    BY <2>1, <2>2, <2>3 DEF ReadBack, OutType, AllInert
  <2>5. QED
    BY <2>2, <2>4, ReadInert
<1>2. QED
  BY <1>1, TypeAlways, PTL DEF Spec, InPlaceInert

\* In the same setting, no metric in the slice is read through the accessor of
\* another type than its own, so the loop meets no nil pointer.
THEOREM NoNilDereference == Spec => []NoPanic
<1>1. TypeInv => NoPanic
  <2> SUFFICES ASSUME TypeInv, Handled(package, scope), NEW i \in DOMAIN out
               PROVE  CASE Folding ->
                             Relevant(scope.base, out[i]) =>
                               out[i].type = IF out[i].name \in ReadAsGauge THEN "Gauge" ELSE "Sum"
                        [] Filesystem -> out[i].name \in FilesystemMetrics => out[i].type = "Sum"
                        [] scope.base = "diskscraper" ->
                             out[i].name \in DOMAIN DiskNames => out[i].type = "Sum"
                        [] scope.base = "networkscraper" -> out[i].type = "Sum"
    BY DEF NoPanic
  <2>1. Inert(scope.base, out[i])
    BY DEF TypeInv, OutType, AllInert
  <2>2. CASE Folding
    <3>1. ~Relevant(scope.base, out[i])
      BY <2>1, <2>2, FoldLookedAt DEF Folding, Inert, Relevant
    <3>2. scope.base \notin {"filesystemscraper", "diskscraper", "networkscraper"}
      BY <2>2 DEF Folding, FoldScrapers, Locals
    <3>3. QED
      BY <2>2, <3>1, <3>2 DEF Filesystem
  <2>3. CASE scope.base \in DeviceScrapers
    BY <2>1, <2>3 DEF Inert, LookedAt, Filesystem, Folding, FoldScrapers, Locals, DeviceScrapers
  <2>4. Folding \/ scope.base \in DeviceScrapers
    BY DEF Handled, RemapFuncs, ValidScope, Folding, FoldScrapers, Locals, Packages, Datasets,
      TypeInv, TypeOK
  <2>5. QED
    BY <2>2, <2>3, <2>4
<1>2. QED
  BY <1>1, TypeAlways, PTL

-------------------------------------------------------------------------------
(* Sums                                                                          *)

\* What k contributes to a sum.
Term(k, w, I) == IF k \in I THEN w[k] ELSE 0

\* SumTo obeys its recursion.
LEMMA SumToStep ==
    ASSUME NEW w, NEW I
    PROVE  /\ SumTo(0, w, I) = 0
           /\ \A n \in Nat : SumTo(n + 1, w, I) = SumTo(n, w, I) + Term(n + 1, w, I)
<1> DEFINE Step(f, m) == IF m = 0 THEN 0 ELSE f[m - 1] + Term(m, w, I)
           Loop(f, k) == f = [m \in 0..k |-> Step(f, m)]
           T == {k \in Nat : \E f : Loop(f, k)}
<1>1. 0 \in T
  <2>1. Loop([m \in 0..0 |-> 0], 0)
    OBVIOUS
  <2>2. QED
    BY <2>1
<1>2. ASSUME NEW k \in Nat, k \in T PROVE k + 1 \in T
  <2>1. PICK f : Loop(f, k)
    BY <1>2
  <2> DEFINE h == [m \in 0..k + 1 |-> IF m = k + 1 THEN Step(f, m) ELSE f[m]]
  <2>2. ASSUME NEW m \in 0..k + 1 PROVE h[m] = Step(h, m)
    <3>1. CASE m = k + 1
      <4>1. m # 0 /\ m - 1 = k /\ k \in 0..k + 1 /\ k # k + 1
        BY <3>1
      <4>2. h[m - 1] = f[m - 1]
        BY <4>1
      <4>3. QED
        BY <3>1, <4>1, <4>2
    <3>2. CASE m # k + 1
      <4>1. m \in 0..k /\ (m # 0 => m - 1 \in 0..k /\ m - 1 # k + 1 /\ m - 1 \in 0..k + 1)
        BY <3>2
      <4>2. h[m] = f[m] /\ (m # 0 => h[m - 1] = f[m - 1])
        BY <3>2, <4>1
      <4>3. f[m] = Step(f, m)
        BY <2>1, <4>1
      <4>4. QED
        BY <4>1, <4>2, <4>3
    <3>3. QED
      BY <3>1, <3>2
  <2>3. Loop(h, k + 1)
    <3>1. h = [m \in 0..k + 1 |-> h[m]]
      OBVIOUS
    <3> HIDE DEF h, Step
    <3>2. QED
      BY <2>2, <3>1
  <2>4. \E g : Loop(g, k + 1)
    <3> HIDE DEF h, Step
    <3>1. QED
      BY <2>3
  <2>5. QED
    BY <2>4
<1>3. \A k \in Nat : k \in T
  <2> HIDE DEF T
  <2>1. QED
    BY <1>1, <1>2, NatSetInduction
<1>4. ASSUME NEW k \in Nat PROVE \E f : Loop(f, k) /\ SumTo(k, w, I) = f[k]
  <2>1. \E f : Loop(f, k)
    BY <1>3
  <2>2. SumTo(k, w, I) = (CHOOSE f : Loop(f, k))[k]
    BY DEF SumTo, Term
  <2> HIDE DEF Loop
  <2>3. QED
    BY <2>1, <2>2
<1>5. SumTo(0, w, I) = 0
  <2>1. PICK f : Loop(f, 0) /\ SumTo(0, w, I) = f[0]
    BY <1>4
  <2>2. QED
    BY <2>1
<1>6. ASSUME NEW n \in Nat
      PROVE  SumTo(n + 1, w, I) = SumTo(n, w, I) + Term(n + 1, w, I)
  <2>1. PICK f : Loop(f, n) /\ SumTo(n, w, I) = f[n]
    BY <1>4
  <2>2. PICK g : Loop(g, n + 1) /\ SumTo(n + 1, w, I) = g[n + 1]
    <3>1. n + 1 \in Nat
      OBVIOUS
    <3>2. QED
      BY <1>4, <3>1
  <2> DEFINE U == {m \in Nat : m <= n => f[m] = g[m]}
  <2>3. 0 \in U
    BY <2>1, <2>2
  <2>4. ASSUME NEW m \in Nat, m \in U PROVE m + 1 \in U
    <3>1. SUFFICES ASSUME m + 1 <= n PROVE f[m + 1] = g[m + 1]
      OBVIOUS
    <3>2. m + 1 \in 0..n /\ m + 1 \in 0..n + 1 /\ m + 1 # 0 /\ (m + 1) - 1 = m
      BY <3>1
    <3>3. f[m + 1] = f[m] + Term(m + 1, w, I)
      BY <2>1, <3>2
    <3>4. g[m + 1] = g[m] + Term(m + 1, w, I)
      BY <2>2, <3>2
    <3>5. f[m] = g[m]
      BY <2>4, <3>1
    <3>6. QED
      BY <3>3, <3>4, <3>5
  <2>5. n \in U
    <3> HIDE DEF U
    <3>1. QED
      BY <2>3, <2>4, NatSetInduction
  <2>6. g[n + 1] = g[n] + Term(n + 1, w, I)
    <3>1. n + 1 \in 0..n + 1 /\ n + 1 # 0 /\ (n + 1) - 1 = n
      OBVIOUS
    <3>2. QED
      BY <2>2, <3>1
  <2>7. QED
    BY <2>1, <2>2, <2>5, <2>6
<1>7. QED
  BY <1>5, <1>6

\* The sum does not depend on what lies beyond n.
LEMMA SumToAgree ==
    ASSUME NEW n \in Nat, NEW w, NEW I, NEW v, NEW J,
           \A k \in 1..n : (k \in I <=> k \in J) /\ (k \in I => w[k] = v[k])
    PROVE  SumTo(n, w, I) = SumTo(n, v, J)
<1> DEFINE T == {k \in Nat : k <= n => SumTo(k, w, I) = SumTo(k, v, J)}
<1>1. 0 \in T
  BY SumToStep
<1>2. ASSUME NEW k \in Nat, k \in T PROVE k + 1 \in T
  <2>1. SUFFICES ASSUME k + 1 <= n PROVE SumTo(k + 1, w, I) = SumTo(k + 1, v, J)
    OBVIOUS
  <2>2. SumTo(k, w, I) = SumTo(k, v, J) /\ k + 1 \in 1..n
    BY <1>2, <2>1
  <2>3. Term(k + 1, w, I) = Term(k + 1, v, J)
    BY <2>2 DEF Term
  <2>4. SumTo(k + 1, w, I) = SumTo(k, w, I) + Term(k + 1, w, I)
    BY SumToStep
  <2>5. SumTo(k + 1, v, J) = SumTo(k, v, J) + Term(k + 1, v, J)
    BY SumToStep
  <2>6. QED
    BY <2>2, <2>3, <2>4, <2>5
<1>3. n \in T
  <2> HIDE DEF T
  <2>1. QED
    BY <1>1, <1>2, NatSetInduction
<1>4. QED
  BY <1>3

\* A sum of integers is one, and zero if nothing is summed.
LEMMA SumToType ==
    ASSUME NEW n \in Nat, NEW w, NEW I, \A k \in 1..n : k \in I => w[k] \in Int
    PROVE  /\ SumTo(n, w, I) \in Int
           /\ (\A k \in 1..n : k \notin I) => SumTo(n, w, I) = 0
<1> DEFINE T == {k \in Nat : k <= n => /\ SumTo(k, w, I) \in Int
                                       /\ (\A j \in 1..n : j \notin I) => SumTo(k, w, I) = 0}
<1>1. 0 \in T
  BY SumToStep
<1>2. ASSUME NEW k \in Nat, k \in T PROVE k + 1 \in T
  <2>1. SumTo(k + 1, w, I) = SumTo(k, w, I) + Term(k + 1, w, I)
    BY SumToStep
  <2>2. k + 1 <= n => k + 1 \in 1..n /\ k <= n
    OBVIOUS
  <2>3. QED
    BY <1>2, <2>1, <2>2 DEF Term
<1>3. n \in T
  <2> HIDE DEF T
  <2>1. QED
    BY <1>1, <1>2, NatSetInduction
<1>4. QED
  BY <1>3
===============================================================================
