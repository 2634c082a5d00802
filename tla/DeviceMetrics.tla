----------------------------- MODULE DeviceMetrics -----------------------------
(***************************************************************************)
(* The remappers that append metrics while they loop over the scope:       *)
(* filesystem, disk and network.                                           *)
(***************************************************************************)
EXTENDS RemappedMetric

DeviceScrapers == {"filesystemscraper", "diskscraper", "networkscraper"}

(***************************************************************************)
(* Filesystem: deviceMetricsMap is a function from device keys.            *)
(***************************************************************************)
FilesystemUsage == "system.filesystem.usage"
FilesystemMetrics == {FilesystemUsage, "system.filesystem.inodes.usage"}
DeviceKeyLabels == {"device", "mountpoint", "type"}

HasDeviceKey(dp) == DeviceKeyLabels \subseteq DOMAIN dp.attrs
DeviceKey(dp) == [l \in DeviceKeyLabels |-> dp.attrs[l]]

NoUsage == [totalUsage |-> 0, usedBytes |-> 0, totalInodeUsage |-> 0]

\* Mutant: every point starts its device afresh.
Reentered(devices, key) == devices ++ Put(key, NoUsage)

\* The first point of a device creates its entry, whatever its state.
Known(devices, key) == Put(key, NoUsage) ++ devices

Measured(d, dp) ==
  LET v == IntValue(dp)
      bytes == dp.name = FilesystemUsage
      used == Str(dp, "state") = "used"
      counted == Str(dp, "state") \in {"used", "free"}
  IN  [totalUsage |-> d.totalUsage + (IF bytes /\ counted THEN v ELSE 0),
       usedBytes |-> d.usedBytes + (IF bytes /\ used THEN v ELSE 0),
       totalInodeUsage |-> d.totalInodeUsage + (IF ~bytes /\ counted THEN v ELSE 0)]

DeviceUsage(devices, dp) ==
  LET known == Known(devices, DeviceKey(dp))
  IN  [known EXCEPT ![DeviceKey(dp)] = Measured(@, dp)]

\* Mutant: the metrics appended keep the name of the one they come from.
PassedOnAsIs(dp) == IF Str(dp, "state") \in {"used", "free"} THEN <<dp.name>> ELSE <<>>

\* The names under which the value of a point is appended at once.
PassedOn(dp) ==
  CASE dp.name = FilesystemUsage /\ Str(dp, "state") = "used" ->
         <<"system.filesystem.used.bytes">>
    [] dp.name = FilesystemUsage /\ Str(dp, "state") = "free" ->
         <<"system.filesystem.free", "system.filesystem.available">>
    [] dp.name # FilesystemUsage /\ Str(dp, "state") = "free" ->
         <<"system.filesystem.free_files">>
    [] OTHER -> <<>>

FilesystemAttrs(key) ==
  [l \in {"system.filesystem.device_name", "system.filesystem.mount_point",
          "system.filesystem.type"} |->
     CASE l = "system.filesystem.device_name" -> key["device"]
       [] l = "system.filesystem.mount_point" -> key["mountpoint"]
       [] l = "system.filesystem.type" -> key["type"]]

PointMetrics(dp) ==
  [i \in DOMAIN PassedOn(dp) |-> IntSum(PassedOn(dp)[i], IntValue(dp), dp.ts)]

\* What is appended for a device when the loop has ended.
DeviceTotals(d, ts) ==
  (IF d.totalUsage > 0
   THEN <<IntSum("system.filesystem.total", d.totalUsage, ts),
          DoubleSum("system.filesystem.used.pct", <<d.usedBytes, d.totalUsage>>, ts)>>
   ELSE <<>>)
  \o (IF d.totalInodeUsage > 0
      THEN <<IntSum("system.filesystem.files", d.totalInodeUsage, ts)>>
      ELSE <<>>)

(***************************************************************************)
(* Disk: each point of a device becomes one metric, in milliseconds if it  *)
(* is a time, whose name holds the direction.                              *)
(***************************************************************************)
DiskNames ==
  Put("system.disk.io", <<"system.diskio.", ".bytes">>)
    ++ Put("system.disk.operations", <<"system.diskio.", ".count">>)
    ++ Put("system.disk.pending_operations", <<"system.diskio.io.", "ops">>)
    ++ Put("system.disk.operation_time", <<"system.diskio.", ".time">>)
    ++ Put("system.disk.io_time", <<"system.diskio.io.", "time">>)

Multiplier(name) ==
  IF name \in {"system.disk.operation_time", "system.disk.io_time"} THEN 1000 ELSE 1

\* Mutant: a value of either kind is read as an integer.
DiskMetricOfInt(dp) ==
  IntSum(DiskNames[dp.name][1] \o Str(dp, "direction") \o DiskNames[dp.name][2],
         IntValue(dp) * Multiplier(dp.name), dp.ts)

DiskMetric(dp) ==
  [type |-> "Sum",
   name |-> DiskNames[dp.name][1] \o Str(dp, "direction") \o DiskNames[dp.name][2],
   kind |-> dp.kind,
   value |-> <<dp.value[1] * Multiplier(dp.name), dp.value[2]>>,
   ts |-> dp.ts]

DiskAttrs(dp) == Put("system.diskio.name", dp.attrs["device"])

DiskPassesOn(dp) == dp.name \in DOMAIN DiskNames /\ "device" \in DOMAIN dp.attrs

(***************************************************************************)
(* Network: the same, for the two directions alone and always an integer.  *)
(***************************************************************************)
NetworkNames ==
  Put("system.network.io", ".bytes") ++ Put("system.network.packets", ".packets")
    ++ Put("system.network.dropped", ".dropped") ++ Put("system.network.errors", ".errors")

NetworkDirection == [receive |-> "in", transmit |-> "out"]

\* Mutant: counters are appended as gauges.
NetworkGauge(dp) ==
  IntGauge("system.network." \o NetworkDirection[dp.attrs["direction"]] \o NetworkNames[dp.name],
           IntValue(dp), dp.ts)

NetworkMetric(dp) ==
  IntSum("system.network." \o NetworkDirection[dp.attrs["direction"]] \o NetworkNames[dp.name],
         IntValue(dp), dp.ts)

NetworkAttrs(dp) == Put("system.network.name", dp.attrs["device"])

NetworkPassesOn(dp) ==
  /\ dp.name \in DOMAIN NetworkNames
  /\ "device" \in DOMAIN dp.attrs
  /\ Str(dp, "direction") \in DOMAIN NetworkDirection
===============================================================================
