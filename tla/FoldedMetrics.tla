----------------------------- MODULE FoldedMetrics -----------------------------
(***************************************************************************)
(* The remappers that read a whole scope into local variables and append   *)
(* all their metrics when the loop has ended: cpu, memory, load, process   *)
(* and processes of the host metrics, kubelet and cluster of Kubernetes.   *)
(*                                                                         *)
(* The locals of a remapper are a function acc from names to numbers, all  *)
(* zero at first.  A metric is read either through its first point alone   *)
(* (Single) or point by point, by the value of one attribute (Grouped); a  *)
(* point assigns some locals (put) and increments others (add).            *)
(***************************************************************************)
EXTENDS RemappedMetric

CONSTANT Millisecond   \* units of a timestamp in a millisecond: 10^6, a timestamp is in ns

ASSUME MillisecondAssumption == Millisecond \in Nat \ {0}

\* Timestamp.AsTime().UnixMilli(), and its Format(time.RFC3339) as the seconds it
\* shows: what is finer is cut off.
UnixMilli(t) == t \div Millisecond
RFC3339(t) == t \div (1000 * Millisecond)

\* 1.0 in hundredths.
One == 100

CpuBusy == [system |-> "system", user |-> "user", steal |-> "steal", wait |-> "iowait",
            nice |-> "nice", interrupt |-> "irq", softirq |-> "softirq"]
ProcessStatus == [idle |-> "idle", sleeping |-> "sleeping", stopped |-> "stopped",
                  zombies |-> "zombie", running |-> "running"]

CpuParts == <<"total", "idle", "system", "user", "steal", "iowait", "nice", "irq", "softirq">>
ProcessesParts == <<"idle", "sleeping", "stopped", "zombie", "running", "total">>

Locals ==
  [cpuscraper |-> {CpuParts[i] : i \in DOMAIN CpuParts} \union {"cores"},
   memoryscraper |-> {"total", "free", "cached", "used.bytes", "actual.used.bytes",
                      "used.pct", "actual.used.pct"},
   loadscraper |-> {"1", "5", "15"},
   processscraper |-> {"threads", "memUtil", "memUsage", "memVirtual", "fdOpen", "system",
                       "user", "total", "read_bytes", "write_bytes", "read_ops", "write_ops"},
   processesscraper |-> {ProcessesParts[i] : i \in DOMAIN ProcessesParts},
   kubeletstatsreceiver |-> {"cpu.limit", "cpu.node", "memory.limit", "memory.node",
                             "tx", "rx"},
   k8sclusterreceiver |-> {"cpu", "memory"}]

FoldScrapers == DOMAIN Locals

\* The metrics read as metric.Xxx().DataPoints().At(0), and the local assigned.
CpuSingle == Put("system.cpu.logical.count", "cores")
LoadSingle ==
  Put("system.cpu.load_average.1m", "1") ++ Put("system.cpu.load_average.5m", "5")
    ++ Put("system.cpu.load_average.15m", "15")
ProcessSingle ==
  Put("process.threads", "threads") ++ Put("process.memory.utilization", "memUtil")
    ++ Put("process.memory.usage", "memUsage") ++ Put("process.memory.virtual", "memVirtual")
    ++ Put("process.open_file_descriptors", "fdOpen")
PodSingle ==
  Put("k8s.pod.cpu_limit_utilization", "cpu.limit")
    ++ Put("k8s.pod.cpu.node.utilization", "cpu.node")
    ++ Put("k8s.pod.memory_limit_utilization", "memory.limit")
    ++ Put("k8s.pod.memory.node.utilization", "memory.node")
NodeSingle ==
  Put("k8s.node.allocatable_cpu", "cpu") ++ Put("k8s.node.allocatable_memory", "memory")

Single ==
  [cpuscraper |-> CpuSingle, memoryscraper |-> Empty, loadscraper |-> LoadSingle,
   processscraper |-> ProcessSingle, processesscraper |-> Empty,
   kubeletstatsreceiver |-> PodSingle, k8sclusterreceiver |-> NodeSingle]

\* The metrics read point by point, and the attribute that tells points apart.
Grouped ==
  [cpuscraper |-> Put("system.cpu.utilization", "state"),
   memoryscraper |-> Put("system.memory.usage", "state") ++ Put("system.memory.utilization", "state"),
   loadscraper |-> Empty,
   processscraper |-> Put("process.cpu.time", "state") ++ Put("process.disk.io", "direction")
                       ++ Put("process.disk.operations", "direction"),
   processesscraper |-> Put("system.processes.count", "status"),
   kubeletstatsreceiver |-> Put("k8s.pod.network.io", "direction"),
   k8sclusterreceiver |-> Empty]

\* The metrics read through metric.Gauge(); the others are read through Sum().
ReadAsGauge ==
  {"system.cpu.utilization", "system.memory.utilization", "process.memory.utilization"}
    \union DOMAIN LoadSingle \union DOMAIN PodSingle \union DOMAIN NodeSingle

\* The metrics read with DoubleValue(); the others are read with IntValue().
ReadAsDouble ==
  (ReadAsGauge \ DOMAIN NodeSingle) \union {"process.cpu.time"}

\* The points a remapper looks at: it takes its timestamps from these alone.
Relevant(s, dp) ==
  \/ dp.name \in DOMAIN Single[s] /\ dp.first
  \/ dp.name \in DOMAIN Grouped[s]

NoEffect == [put |-> Empty, add |-> Empty]
Puts(local, v) == [put |-> Put(local, v), add |-> Empty]
Adds(locals, v) == [put |-> Empty, add |-> [l \in locals |-> v]]
PutsAndAdds(local, total, v) == [put |-> Put(local, v), add |-> Put(total, v)]

\* Mutant: idle time is part of the total.
IdleCounted(state, v) ==
  CASE state = "idle" -> Adds({"idle", "total"}, v)
    [] state \in DOMAIN CpuBusy -> Adds({CpuBusy[state], "total"}, v)
    [] OTHER -> NoEffect

CpuUtilization(state, v) ==
  CASE state = "idle" -> Adds({"idle"}, v)
    [] state \in DOMAIN CpuBusy -> Adds({CpuBusy[state], "total"}, v)
    [] OTHER -> NoEffect

\* Mutant: free memory is not taken from what is used.
FreeNotSubtracted(state, v) ==
  CASE state \in {"cached", "free"} -> PutsAndAdds(state, "total", v)
    [] state \in {"used", "buffered"} -> Adds({"total", "actual.used.bytes"}, v)
    [] state \in {"slab_unreclaimable", "slab_reclaimable"} -> Adds({"actual.used.bytes"}, v)
    [] OTHER -> NoEffect

MemoryUsage(state, v) ==
  CASE state = "cached" -> PutsAndAdds("cached", "total", v)
    [] state = "free" -> [put |-> Put("free", v), add |-> Put("total", v) ++ Put("used.bytes", -v)]
    [] state \in {"used", "buffered"} -> Adds({"total", "actual.used.bytes"}, v)
    [] state \in {"slab_unreclaimable", "slab_reclaimable"} -> Adds({"actual.used.bytes"}, v)
    [] OTHER -> NoEffect

MemoryUtilization(state, v) ==
  CASE state = "free" -> Puts("used.pct", One - v)
    [] state \in {"used", "buffered", "slab_unreclaimable", "slab_reclaimable"} ->
         Adds({"actual.used.pct"}, v)
    [] OTHER -> NoEffect

\* Mutant: processes of another status are not counted.
OthersUncounted(status, v) ==
  IF status \in DOMAIN ProcessStatus THEN PutsAndAdds(ProcessStatus[status], "total", v)
  ELSE NoEffect

ProcessesCount(status, v) ==
  IF status \in DOMAIN ProcessStatus
  THEN PutsAndAdds(ProcessStatus[status], "total", v)
  ELSE Adds({"total"}, v)

ProcessCpuTime(state, v) ==
  CASE state \in {"system", "user"} -> PutsAndAdds(state, "total", v)
    [] state = "wait" -> Adds({"total"}, v)
    [] OTHER -> NoEffect

ProcessDisk(direction, read, write, v) ==
  CASE direction = "read" -> Puts(read, v)
    [] direction = "write" -> Puts(write, v)
    [] OTHER -> NoEffect

PodNetwork(direction, v) ==
  CASE direction = "receive" -> Adds({"rx"}, v)
    [] direction = "transmit" -> Adds({"tx"}, v)
    [] OTHER -> NoEffect

\* What a point of a grouped metric does to the locals, by its attribute.
ByLabel(metric, label, v) ==
  CASE metric = "system.cpu.utilization" -> CpuUtilization(label, v)
    [] metric = "system.memory.usage" -> MemoryUsage(label, v)
    [] metric = "system.memory.utilization" -> MemoryUtilization(label, v)
    [] metric = "system.processes.count" -> ProcessesCount(label, v)
    [] metric = "process.cpu.time" -> ProcessCpuTime(label, v)
    [] metric = "process.disk.io" -> ProcessDisk(label, "read_bytes", "write_bytes", v)
    [] metric = "process.disk.operations" -> ProcessDisk(label, "read_ops", "write_ops", v)
    [] metric = "k8s.pod.network.io" -> PodNetwork(label, v)

Number(dp) == IF dp.name \in ReadAsDouble THEN DoubleValue(dp) ELSE IntValue(dp)

Effect(s, dp) ==
  CASE dp.name \in DOMAIN Single[s] /\ dp.first -> Puts(Single[s][dp.name], Number(dp))
    [] dp.name \in DOMAIN Grouped[s] /\ Grouped[s][dp.name] \in DOMAIN dp.attrs ->
         ByLabel(dp.name, dp.attrs[Grouped[s][dp.name]], Number(dp))
    [] OTHER -> NoEffect

Folded(acc, effect) ==
  [l \in DOMAIN acc |->
     IF l \in DOMAIN effect.put THEN effect.put[l]
     ELSE acc[l] + (IF l \in DOMAIN effect.add THEN effect.add[l] ELSE 0)]

(***************************************************************************)
(* What is appended once the loop has ended.                               *)
(***************************************************************************)
CpuPct ==
  [total |-> "system.cpu.total.pct", idle |-> "system.cpu.idle.pct",
   system |-> "system.cpu.system.pct", user |-> "system.cpu.user.pct",
   steal |-> "system.cpu.steal.pct", iowait |-> "system.cpu.iowait.pct",
   nice |-> "system.cpu.nice.pct", irq |-> "system.cpu.irq.pct",
   softirq |-> "system.cpu.softirq.pct"]
CpuNorm ==
  [total |-> "system.cpu.total.norm.pct", idle |-> "system.cpu.idle.norm.pct",
   system |-> "system.cpu.system.norm.pct", user |-> "system.cpu.user.norm.pct",
   steal |-> "system.cpu.steal.norm.pct", iowait |-> "system.cpu.iowait.norm.pct",
   nice |-> "system.cpu.nice.norm.pct", irq |-> "system.cpu.irq.norm.pct",
   softirq |-> "system.cpu.softirq.norm.pct"]

CpuMetrics(acc, ts) ==
  LET Pct(part) == DoubleGauge(CpuPct[part], <<acc[part], 1>>, ts)
      Norm(part) == DoubleGauge(CpuNorm[part], <<acc[part], acc["cores"]>>, ts)
  IN  [i \in DOMAIN CpuParts |-> Pct(CpuParts[i])]
        \o IF acc["cores"] = 0 THEN <<>>
           ELSE <<IntSum("system.cpu.cores", acc["cores"], ts),
                  IntSum("system.load.cores", acc["cores"], ts)>>
                \o [i \in DOMAIN CpuParts |-> Norm(CpuParts[i])]

MemoryMetrics(acc, ts) ==
  <<IntSum("system.memory.total", acc["total"], ts),
    IntSum("system.memory.free", acc["free"], ts),
    IntSum("system.memory.cached", acc["cached"], ts),
    IntSum("system.memory.used.bytes", acc["used.bytes"] + acc["total"], ts),
    IntSum("system.memory.actual.used.bytes", acc["actual.used.bytes"], ts),
    IntSum("system.memory.actual.free", acc["total"] - acc["actual.used.bytes"], ts),
    DoubleGauge("system.memory.used.pct", <<acc["used.pct"], 1>>, ts),
    DoubleGauge("system.memory.actual.used.pct", <<acc["actual.used.pct"], 1>>, ts)>>

LoadMetrics(acc, ts) ==
  <<DoubleGauge("system.load.1", <<acc["1"], 1>>, ts),
    DoubleGauge("system.load.5", <<acc["5"], 1>>, ts),
    DoubleGauge("system.load.15", <<acc["15"], 1>>, ts)>>

ProcessesSummary ==
  [idle |-> "system.process.summary.idle", sleeping |-> "system.process.summary.sleeping",
   stopped |-> "system.process.summary.stopped", zombie |-> "system.process.summary.zombie",
   running |-> "system.process.summary.running", total |-> "system.process.summary.total"]

ProcessesMetrics(acc, ts) ==
  [i \in DOMAIN ProcessesParts |->
     IntSum(ProcessesSummary[ProcessesParts[i]], acc[ProcessesParts[i]], ts)]

\* The run time: both its ends are cut to milliseconds, and then subtracted.
ProcessRuntime(ts, start) == UnixMilli(ts) - UnixMilli(start)

\* The share of the processor is a division by the run time that nothing guards.
ProcessMetrics(acc, ts, start) ==
  LET Ticks(name, n) == DoubleSum(name, <<1000 * n, 1>>, ts)
  IN  <<IntSum("process.cpu.start_time", UnixMilli(start), ts),
        IntSum("system.process.num_threads", acc["threads"], ts),
        DoubleGauge("system.process.memory.rss.pct", <<acc["memUtil"], 100>>, ts),
        IntSum("system.process.memory.rss.bytes", acc["memUsage"], ts),
        IntSum("system.process.memory.size", acc["memVirtual"], ts),
        IntSum("system.process.fd.open", acc["fdOpen"], ts),
        DoubleGauge("process.memory.pct", <<acc["memUtil"], 100>>, ts),
        Ticks("system.process.cpu.total.value", acc["total"]),
        Ticks("system.process.cpu.system.ticks", acc["system"]),
        Ticks("system.process.cpu.user.ticks", acc["user"]),
        Ticks("system.process.cpu.total.ticks", acc["total"]),
        IntSum("system.process.io.read_bytes", acc["read_bytes"], ts),
        IntSum("system.process.io.write_bytes", acc["write_bytes"], ts),
        IntSum("system.process.io.read_ops", acc["read_ops"], ts),
        IntSum("system.process.io.write_ops", acc["write_ops"], ts),
        DoubleGauge("system.process.cpu.total.pct", <<1000 * acc["total"], ProcessRuntime(ts, start)>>, ts)>>

KubeletMetrics(acc, ts) ==
  <<DoubleGauge("kubernetes.pod.cpu.usage.limit.pct", <<acc["cpu.limit"], 1>>, ts),
    DoubleGauge("kubernetes.pod.cpu.usage.node.pct", <<acc["cpu.node"], 1>>, ts),
    DoubleGauge("kubernetes.pod.memory.usage.node.pct", <<acc["memory.node"], 1>>, ts),
    DoubleGauge("kubernetes.pod.memory.usage.limit.pct", <<acc["memory.limit"], 1>>, ts),
    IntSum("kubernetes.pod.network.tx.bytes", acc["tx"], ts),
    IntSum("kubernetes.pod.network.rx.bytes", acc["rx"], ts)>>

ClusterMetrics(acc, ts) ==
  <<IntGauge("kubernetes.node.cpu.allocatable.cores", acc["cpu"], ts),
    IntGauge("kubernetes.node.memory.allocatable.bytes", acc["memory"], ts)>>

FoldedMetrics(s, acc, ts, start) ==
  CASE s = "cpuscraper" -> CpuMetrics(acc, ts)
    [] s = "memoryscraper" -> MemoryMetrics(acc, ts)
    [] s = "loadscraper" -> LoadMetrics(acc, ts)
    [] s = "processscraper" -> ProcessMetrics(acc, ts, start)
    [] s = "processesscraper" -> ProcessesMetrics(acc, ts)
    [] s = "kubeletstatsreceiver" -> KubeletMetrics(acc, ts)
    [] s = "k8sclusterreceiver" -> ClusterMetrics(acc, ts)

\* The resource attributes copied to the points of a process under their new
\* label, two of them with a default.  An empty or zero attribute is treated
\* as a missing one is, so a resource has none of those here.
ProcessResources(resource, start) ==
  LET Has(label) == label \in DOMAIN resource
      Copied(from, to) == IF Has(from) THEN Put(to, resource[from]) ELSE Empty
      OrUndefined(from, to) == Put(to, IF Has(from) THEN resource[from] ELSE "undefined")
  IN  Copied("process.parent_pid", "process.parent.pid")
        ++ OrUndefined("process.owner", "user.name")
        ++ Copied("process.executable.path", "process.executable")
        ++ Copied("process.executable.name", "process.name")
        ++ OrUndefined("process.command_line", "system.process.cmdline")
        ++ Put("system.process.cpu.start_time", RFC3339(start))
        ++ Put("system.process.state", "undefined")

\* The attributes a remapper puts after those of its package.
OwnMutator(s, resource, start) ==
  CASE s = "processscraper" -> ProcessResources(resource, start)
    [] s = "processesscraper" -> Put(EventDatasetLabel, "system.process.summary")
    [] s = "kubeletstatsreceiver" -> Put("service.type", "kubernetes")
    [] OTHER -> Empty
===============================================================================
