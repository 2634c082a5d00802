---------------------------- MODULE MCScopeRemapper ----------------------------
(***************************************************************************)
(* Small scopes for ScopeRemapper: a few points of each metric, chosen so  *)
(* that labels repeat, values of the same label differ, timestamps are     *)
(* missing, and an attribute or a value of the expected kind is missing.   *)
(***************************************************************************)
EXTENDS ScopeRemapper

Named(name, type, kind, v, ts, attrs) ==
  [name |-> name, type |-> type, first |-> TRUE, kind |-> kind, value |-> <<v, 1>>,
   ts |-> ts, start |-> 0, attrs |-> attrs]
IntPoint(name, v, ts, attrs) == Named(name, "Sum", "int", v, ts, attrs)
GaugePoint(name, v, ts, attrs) == Named(name, "Gauge", "double", v, ts, attrs)
Later(dp, v) == [dp EXCEPT !.first = FALSE, !.value = <<v, 1>>]
Started(dp, start) == [dp EXCEPT !.start = start]

\* A metric the remapper does not know, and a point without its attribute.
Unknown == IntPoint("unknown.metric", 9, 1, Empty)

CpuPoints ==
  LET Use(state, v, ts) == GaugePoint("system.cpu.utilization", v, ts, "state" :> state)
      Count(v, ts) == IntPoint("system.cpu.logical.count", v, ts, Empty)
  IN  {Use("idle", 60, 1), Use("idle", 50, 2), Use("user", 20, 0), Use("user", 30, 1),
       Use("wait", 10, 2), Use("steal", 5, 0), Use("other", 7, 3),
       GaugePoint("system.cpu.utilization", 8, 1, Empty),
       Count(2, 0), Count(4, 3), Later(Count(2, 0), 3), Unknown}

MemoryPoints ==
  LET Use(state, v, ts) == IntPoint("system.memory.usage", v, ts, "state" :> state)
      Share(state, v, ts) == GaugePoint("system.memory.utilization", v, ts, "state" :> state)
  IN  {Use("free", 5, 0), Use("free", 6, 2), Use("cached", 3, 1), Use("used", 7, 1),
       Use("buffered", 2, 0), Use("slab_reclaimable", 4, 2), Use("inactive", 9, 1),
       Share("free", 25, 2), Share("used", 40, 0), Share("buffered", 5, 1)}

LoadPoints ==
  LET Load(n, v, ts) == GaugePoint("system.cpu.load_average." \o n, v, ts, Empty)
  IN  {Load("1m", 3, 0), Load("1m", 4, 2), Load("5m", 5, 1), Load("15m", 7, 0),
       Later(Load("5m", 5, 1), 6), Unknown}

ProcessesPoints ==
  LET Count(status, v, ts) == IntPoint("system.processes.count", v, ts, "status" :> status)
  IN  {Count("idle", 1, 1), Count("sleeping", 2, 2), Count("zombies", 4, 0),
       Count("running", 8, 0), Count("running", 3, 1), Count("blocked", 16, 1),
       IntPoint("system.processes.count", 32, 3, Empty), Unknown}

\* In half milliseconds (Millisecond is 2): taken in the millisecond of the start,
\* less than one later but in the next, one or more later, or before a start.
ProcessPoints ==
  LET Cpu(state, v, ts) ==
        Started(Named("process.cpu.time", "Sum", "double", v, ts, "state" :> state), 5)
      Io(dir, v, ts) == IntPoint("process.disk.io", v, ts, "direction" :> dir)
  IN  {Cpu("system", 300, 11), Cpu("user", 100, 0), Cpu("user", 200, 7), Cpu("wait", 50, 11),
       Started(IntPoint("process.threads", 12, 6, Empty), 5),
       Started(IntPoint("process.threads", 12, 7, Empty), 6),
       IntPoint("process.memory.usage", 64, 0, Empty), Io("read", 7, 11), Io("write", 8, 4)}

PodPoints ==
  LET Net(dir, v, ts) == IntPoint("k8s.pod.network.io", v, ts, "direction" :> dir)
  IN  {Net("receive", 3, 0), Net("receive", 5, 1), Net("transmit", 7, 2), Unknown,
       GaugePoint("k8s.pod.cpu.node.utilization", 12, 2, Empty),
       GaugePoint("k8s.pod.memory_limit_utilization", 30, 0, Empty)}

NodePoints ==
  {Named("k8s.node.allocatable_cpu", "Gauge", "int", 4, 0, Empty),
   GaugePoint("k8s.node.allocatable_cpu", 400, 2, Empty),
   Named("k8s.node.allocatable_memory", "Gauge", "int", 64, 1, Empty)}

FilesystemPoints ==
  LET At(mount) == "device" :> "sda" @@ "mountpoint" :> mount @@ "type" :> "ext4"
      Use(metric, mount, state, v, ts) ==
        IntPoint("system.filesystem." \o metric, v, ts, At(mount) @@ "state" :> state)
  IN  {Use("usage", "/", "used", 3, 1), Use("usage", "/", "free", 4, 2),
       Use("usage", "/", "reserved", 1, 1), Use("usage", "/mnt", "used", 5, 0),
       Use("usage", "/mnt", "free", 6, 1), Use("usage", "/mnt", "free", 0, 2),
       Use("inodes.usage", "/", "free", 7, 1), Use("inodes.usage", "/mnt", "used", 8, 2),
       IntPoint(FilesystemUsage, 9, 0, "device" :> "sda" @@ "state" :> "used"), Unknown}

DiskPoints ==
  LET On(disk, dir) == "device" :> disk @@ "direction" :> dir
      Io(metric, kind, v, ts, attrs) == Named("system.disk." \o metric, "Sum", kind, v, ts, attrs)
  IN  {Io("io", "int", 3, 1, On("sda", "read")), Io("io", "int", 4, 2, On("sdb", "write")),
       Io("io", "empty", 0, 1, On("sda", "write")), Io("operations", "int", 5, 1, On("sda", "read")),
       Io("operation_time", "double", 6, 2, On("sda", "read")),
       Io("io_time", "int", 7, 0, "device" :> "sda"), Io("io_time", "double", 7, 2, "device" :> "sdb"),
       Io("pending_operations", "int", 8, 1, "device" :> "sda"),
       Io("io", "int", 9, 1, "direction" :> "read"), Unknown}

NetworkPoints ==
  LET On(nic, dir) == "device" :> nic @@ "direction" :> dir
      Net(metric, kind, v, ts, attrs) ==
        Named("system.network." \o metric, "Sum", kind, v, ts, attrs)
  IN  {Net("io", "int", 3, 1, On("eth0", "receive")), Net("io", "int", 4, 2, On("eth1", "transmit")),
       Net("packets", "int", 5, 0, On("eth0", "receive")), Net("errors", "double", 6, 1, On("eth0", "transmit")),
       Net("dropped", "int", 7, 2, On("eth0", "loopback")), Net("io", "int", 8, 1, "direction" :> "receive"),
       Net("connections", "int", 9, 1, "state" :> "LISTEN")}

ReceiverPoints ==
  [cpuscraper |-> CpuPoints, memoryscraper |-> MemoryPoints, loadscraper |-> LoadPoints,
   processscraper |-> ProcessPoints, processesscraper |-> ProcessesPoints,
   kubeletstatsreceiver |-> PodPoints, k8sclusterreceiver |-> NodePoints,
   filesystemscraper |-> FilesystemPoints, diskscraper |-> DiskPoints,
   networkscraper |-> NetworkPoints, pagingscraper |-> {Unknown}, unknownscraper |-> {Unknown}]

Scope(receiver, base) == [receiver |-> receiver, base |-> base]
HostScopes(bases) == {Scope("hostmetricsreceiver", b) : b \in bases}
FoldScopes ==
  HostScopes({"cpuscraper", "memoryscraper", "loadscraper", "processscraper", "processesscraper"})
    \union {Scope("kubeletstatsreceiver", "kubeletstatsreceiver"),
            Scope("k8sclusterreceiver", "k8sclusterreceiver")}
DeviceScopes == HostScopes(DeviceScrapers)
OtherScopes == HostScopes({"pagingscraper", "unknownscraper"})
AllFoldScopes == FoldScopes \union OtherScopes

NoResource == {Empty}
TwoResources ==
  {Empty, "process.parent_pid" :> 7 @@ "process.owner" :> "root"
            @@ "process.executable.path" :> "/bin/run"}

\* What an earlier call of the same remapper has left in the slice.
Remapped == Add(<<>>, EventDatasetLabel :> "system.diskio" @@ "system.diskio.name" :> "sdz",
                <<IntSum("system.diskio.read.bytes", 3, 1)>>)
NoneEarlier == <<>>
===============================================================================
