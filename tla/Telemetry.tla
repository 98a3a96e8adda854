----------------------------- MODULE Telemetry ------------------------------
(***************************************************************************)
(* Latency histograms: each matching shard records into its own, and the   *)
(* aggregator on another thread reads all of them, field by field, while   *)
(* they are being written, merges what it read, and may reset them.        *)
(*   crates/matching-engine/src/metrics.rs (LatencyHistogram)              *)
(*   crates/metrics/src/aggregator.rs                                      *)
(* Relaxed atomics are read and written one at a time here, in program     *)
(* order (they are plain accesses in order on x86).  Bound: a behaviour    *)
(* begins nothing after its first collection, at whatever point that is; a *)
(* collection only reads the histograms, so a later one would not differ.  *)
(***************************************************************************)
EXTENDS Integers, Sequences, SequencesExt, FiniteSetsExt

CONSTANTS
  Histograms,     \* sequence of the registered shards
  Latencies,      \* nanoseconds a command may take
  NumBuckets,     \* NUM_BUCKETS
  MaxSamples      \* bound: samples recorded

VARIABLES
  hist,        \* shard -> [buckets, count, max_ns]
  recording,   \* shard -> the fields record has still to write, and for what
  reading,     \* collect_now: [todo, field, snap, totals], or NotReading
  collected,   \* totals of the collection: at most one
  resetting,   \* reset_shard_intervals: the <<shard, field>> still to store
  samples,     \* history: shard -> samples in the order record was called
  since,       \* history: shard -> how many of them were before the last reset
  quiet,       \* history: no record overlapped the collection
  clean        \* history: no record overlapped the last reset

history == <<samples, since, quiet, clean>>
telemetry_vars == <<hist, recording, reading, collected, resetting, history>>

Buckets == 0 .. NumBuckets - 1
Empty   == [buckets |-> [b \in Buckets |-> 0], count |-> 0, max_ns |-> 0]

NotReading == [todo |-> <<>>, field |-> 0, snap |-> Empty, totals |-> Empty]

TelemetryInit ==
  /\ hist = [h \in ToSet(Histograms) |-> Empty]
  /\ recording = [h \in ToSet(Histograms) |-> <<>>]
  /\ samples = [h \in ToSet(Histograms) |-> <<>>]
  /\ since = [h \in ToSet(Histograms) |-> 0]
  /\ reading = NotReading /\ resetting = <<>> /\ collected = {}
  /\ quiet = TRUE /\ clean = TRUE

\* floor(log2(ns + 1)), clamped to the last bucket.
bucket_for(ns) == Min({NumBuckets - 1, Max({i \in 0 .. ns : 2 ^ i <= ns + 1})})

Writes == <<"bucket", "count", "max">>

\* LatencyHistogram::record is called.
Record(h, ns) ==
  /\ recording[h] = <<>> /\ collected = {}
  /\ MapThenSumSet(LAMBDA k : Len(samples[k]), ToSet(Histograms)) < MaxSamples
  /\ recording' = [recording EXCEPT ![h] = Writes]
  /\ samples' = [samples EXCEPT ![h] = Append(@, ns)]
  /\ quiet' = (quiet /\ reading = NotReading) /\ clean' = (clean /\ resetting = <<>>)
  /\ UNCHANGED <<hist, reading, collected, resetting, since>>

\* ... and writes one field after the other.  (sum_ns only feeds the mean.)
RecordField(h) ==
  /\ recording[h] # <<>>
  /\ LET ns == Last(samples[h])
     IN  hist' = [hist EXCEPT ![h] =
           CASE Head(recording[h]) = "bucket" -> [@ EXCEPT !.buckets[bucket_for(ns)] = @ + 1]
             [] Head(recording[h]) = "count"  -> [@ EXCEPT !.count = @ + 1]
             [] Head(recording[h]) = "max"    -> [@ EXCEPT !.max_ns = Max({@, ns})]]
  /\ recording' = [recording EXCEPT ![h] = Tail(@)]
  /\ UNCHANGED <<reading, collected, resetting, history>>

\* LatencySnapshot::merge.
merge(a, b) == [buckets |-> [i \in Buckets |-> a.buckets[i] + b.buckets[i]],
                count   |-> a.count + b.count,
                max_ns  |-> Max({a.max_ns, b.max_ns})]

NoneRecording == \A h \in ToSet(Histograms) : recording[h] = <<>>

\* MetricsAggregator::collect_now begins.
Collect ==
  /\ reading = NotReading /\ resetting = <<>> /\ collected = {}
  /\ reading' = [NotReading EXCEPT !.todo = Histograms]
  /\ quiet' = NoneRecording
  /\ UNCHANGED <<hist, recording, collected, resetting, samples, since, clean>>

\* snapshot loads the next field: the buckets in order, count, max.
Load ==
  /\ reading.todo # <<>> /\ reading.field < NumBuckets + 2
  /\ LET h == hist[Head(reading.todo)]
         f == reading.field
     IN  reading' = [reading EXCEPT !.field = f + 1,
           !.snap = IF f < NumBuckets THEN [@ EXCEPT !.buckets[f] = h.buckets[f]]
                    ELSE IF f = NumBuckets THEN [@ EXCEPT !.count = h.count]
                    ELSE [@ EXCEPT !.max_ns = h.max_ns]]
  /\ UNCHANGED <<hist, recording, collected, resetting, history>>

\* The shard's snapshot joins the totals; after the last shard they are kept.
Merge ==
  /\ reading.todo # <<>> /\ reading.field = NumBuckets + 2
  /\ LET totals == merge(reading.totals, reading.snap)
     IN  IF Len(reading.todo) = 1
           THEN reading' = NotReading /\ collected' = {totals}
           ELSE /\ reading' = [NotReading EXCEPT !.todo = Tail(reading.todo), !.totals = totals]
                /\ UNCHANGED collected
  /\ UNCHANGED <<hist, recording, resetting, history>>

\* reset_shard_intervals begins; it runs on the collecting thread.
Reset ==
  /\ reading = NotReading /\ resetting = <<>> /\ collected = {}
  /\ \E h \in ToSet(Histograms) : since[h] < Len(samples[h])
  /\ resetting' = FoldLeft(LAMBDA s, h : s \o [f \in 1 .. NumBuckets + 2 |-> <<h, f - 1>>],
                          <<>>, Histograms)
  /\ since' = [h \in ToSet(Histograms) |-> Len(samples[h])]
  /\ clean' = NoneRecording
  /\ UNCHANGED <<hist, recording, reading, collected, samples, quiet>>

\* LatencyHistogram::reset stores 0 into the next field.
ResetField ==
  /\ resetting # <<>>
  /\ LET h == Head(resetting)[1]
         f == Head(resetting)[2]
     IN  hist' = [hist EXCEPT ![h] = IF f < NumBuckets THEN [@ EXCEPT !.buckets[f] = 0]
                                     ELSE IF f = NumBuckets THEN [@ EXCEPT !.count = 0]
                                     ELSE [@ EXCEPT !.max_ns = 0]]
  /\ resetting' = Tail(resetting)
  /\ UNCHANGED <<recording, reading, collected, history>>

TelemetryNext ==
  \/ \E h \in ToSet(Histograms) : RecordField(h) \/ \E ns \in Latencies : Record(h, ns)
  \/ Collect \/ Load \/ Merge \/ Reset \/ ResetField

TelemetrySpec == TelemetryInit /\ [][TelemetryNext]_telemetry_vars

\* ceil(p * count), at least 1, for p = n / d.
target(n, d, count) == Max({1, (n * count + d - 1) \div d})

\* The upper edge of bucket i.
Edge(i) == 2 ^ (i + 1) - 1

\* Faulty variant: a walk that runs out of buckets ends at the last edge.
PastBucketsEdge(snap) == Edge(NumBuckets - 1)

\* A count that is ahead of the buckets lets the walk run out of them.
PastBuckets(snap) == snap.max_ns

\* LatencySnapshot::percentile.
percentile(snap, n, d) ==
  LET upto(i) == MapThenSumSet(LAMBDA b : snap.buckets[b], 0 .. i)
      hit     == {i \in Buckets : upto(i) >= target(n, d, snap.count)}
  IN  IF snap.count = 0 THEN 0
      ELSE IF hit = {} THEN PastBuckets(snap) ELSE Edge(Min(hit))

(***************************************************************************)
(* Properties.                                                             *)
(***************************************************************************)
AllSamples == FoldLeft(LAMBDA all, h : all \o samples[h], <<>>, Histograms)

\* The combined population of all shards since the last reset.
Population ==
  FoldLeft(LAMBDA all, h : all \o SubSeq(samples[h], since[h] + 1, Len(samples[h])),
           <<>>, Histograms)

\* The sample of that rank in the population.
Exact(n, d) ==
  LET all == Population
      atMost(v) == Len(SelectSeq(all, LAMBDA x : x <= v))
  IN  IF all = <<>> THEN 0 ELSE Min({v \in ToSet(all) : d * atMost(v) >= n * Len(all)})

\* p stands for a sample of v: at least v and at most twice it plus one.  Beyond
\* the last bucket's edge (2^32 ns) bucket_for clamps, and p is that edge.
StandsFor(p, v) == p <= 2 * v + 1 /\ (v <= p \/ p = Edge(NumBuckets - 1))

\* "bounded error of at most ~2x within a single bucket", for samples up to the
\* last bucket's edge: whatever records and resets a collection overlaps, a
\* percentile other than 0 stands for some sample that was recorded; and if
\* neither the collection nor the last reset met a record under way, it stands
\* for the exact one of the combined population, and none is left uncounted.
PercentileBound ==
  \A totals \in collected, n \in 1 .. 4 :
    LET p == percentile(totals, n, 4)
    IN  /\ p = 0 \/ \E v \in ToSet(AllSamples) : StandsFor(p, v)
        /\ quiet /\ clean => totals.count = Len(Population) /\ StandsFor(p, Exact(n, 4))
=============================================================================
