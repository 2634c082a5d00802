---------------------------- MODULE RemappedMetric ----------------------------
(***************************************************************************)
(* remappers/internal/remappedmetric: how a remapper appends a metric.     *)
(*                                                                         *)
(* A pmetric metric with its number points is flattened into a sequence of *)
(* point records: the name and type of the metric, whether the point is    *)
(* the metric's first (what DataPoints().At(0) returns), and of the point  *)
(* itself which of the oneof values it holds (kind), the value, its two    *)
(* timestamps (0 when unset) and its attributes, a function from labels.   *)
(* A value is a ratio <<n, d>>, so that a division is kept and not rounded *)
(* away; d is 1 for whatever was read rather than computed, and a float is *)
(* counted in hundredths.  Emitted metrics are points of the same shape,   *)
(* as a remapper may be given one slice as its source and as its output.   *)
(***************************************************************************)
EXTENDS Integers, Sequences, TLC

EventDatasetLabel == "event.dataset"
EventModuleLabel == "event.module"
DatastreamDatasetLabel == "data_stream.dataset"
OTelRemappedLabel == "otel_remapped"

\* No attributes, no devices, no assignments: the empty function.
Empty == [label \in {} |-> 0]

\* The literals of the type Metric that the remappers write.
IntSum(name, n, ts) ==
  [type |-> "Sum", name |-> name, kind |-> "int", value |-> <<n, 1>>, ts |-> ts]
DoubleSum(name, ratio, ts) ==
  [type |-> "Sum", name |-> name, kind |-> "double", value |-> ratio, ts |-> ts]
IntGauge(name, n, ts) ==
  [type |-> "Gauge", name |-> name, kind |-> "int", value |-> <<n, 1>>, ts |-> ts]
DoubleGauge(name, ratio, ts) ==
  [type |-> "Gauge", name |-> name, kind |-> "double", value |-> ratio, ts |-> ts]

\* A metric without a name, a value, a timestamp or a simple type is skipped.
Valid(metric) ==
  /\ metric.name # ""
  /\ metric.kind \in {"int", "double"}
  /\ metric.ts # 0
  /\ metric.type \in {"Gauge", "Sum"}

\* A mutator only puts attributes, so it is the attributes it puts: one alone, or
\* those of f and then those of g, which overwrite them.
Put(label, v) == [l \in {label} |-> v]
f ++ g == [l \in DOMAIN g \cup DOMAIN f |-> IF l \in DOMAIN g THEN g[l] ELSE f[l]]

\* Mutant: a chain runs its last mutator alone.
LastMutator(earlier, later) == later

ChainedMutator(earlier, later) == earlier ++ later

\* The point a metric becomes: what the mutator puts may overwrite the mark.
Appended(m, mutator) ==
  [name |-> m.name, type |-> m.type, first |-> TRUE,
   kind |-> m.kind, value |-> m.value, ts |-> m.ts, start |-> 0,
   attrs |-> Put(OTelRemappedLabel, TRUE) ++ mutator]

\* The loop of Add: out after the first n metrics.
Add(out, mutator, metrics) ==
  LET after[n \in 0..Len(metrics)] ==
        IF n = 0 THEN out
        ELSE IF Valid(metrics[n]) THEN Append(after[n - 1], Appended(metrics[n], mutator))
        ELSE after[n - 1]
  IN  after[Len(metrics)]

\* dp.IntValue() and dp.DoubleValue(): zero when the point holds the other kind.
IntValue(dp) == IF dp.kind = "int" THEN dp.value[1] ELSE 0
DoubleValue(dp) == IF dp.kind = "double" THEN dp.value[1] ELSE 0

\* An attribute as a string: empty when the point does not have it.
Str(dp, label) == IF label \in DOMAIN dp.attrs THEN dp.attrs[label] ELSE ""
===============================================================================
