----------------------------- MODULE Telemetry ------------------------------
(***************************************************************************)
(* Runtime metrics.  A timer samples the process; the samples of a minute, *)
(* or of the part of it until a match ends, become one row that is         *)
(* appended to a file, and files are moved to the database when a match    *)
(* ends (runtime-telemetry.service.ts).  Several matches may end at once,  *)
(* and the process may stop at any point.                                  *)
(*                                                                         *)
(* A sample is named by its time, and a row holds the set of its samples   *)
(* for the averages and maxima that aggregate computes from them.          *)
(***************************************************************************)
EXTENDS Integers, FiniteSets

CONSTANTS Minute,                \* length of a minute, in samples
          Matches,               \* that end
          MaxClock, MaxStops     \* bounds

ASSUME TelemetryAssumption == Minute \in Nat \ {0}

VARIABLES
    clock,
    meter,  \* eligibleSamples, currentSegmentAt, currentBucketAt, sampleInFlight
    ending, \* checkpointMatchMinuteAndFlush, for each match
    flush,  \* flushing, and the files doFlush has still to insert
    disk,   \* current.ndjson and the batch files, as sets of rows
    table,  \* NodeRuntimeMetricMinute
    stops

telemetryVars == <<clock, meter, ending, flush, disk, table, stops>>

NoRow   == [at |-> -1, samples |-> {}]
Resting == [running |-> FALSE, files |-> {}, stored |-> {}]
Metering(now) == [eligible |-> {}, segment |-> now, bucket |-> now \div Minute,
                 closing |-> FALSE, row |-> NoRow]
Playing == [m \in Matches |-> [stage |-> "playing", row |-> NoRow]]

TelemetryInit ==
    /\ clock = 0 /\ meter = Metering(0) /\ ending = Playing /\ flush = Resting
    /\ disk = [current |-> {}, batches |-> {}] /\ table = {} /\ stops = 0

\* finishMinute and aggregate: nothing for a minute without samples.
MinuteRow == IF meter.eligible = {} THEN NoRow ELSE [at |-> meter.segment, samples |-> meter.eligible]
Appended(row) == IF row = NoRow THEN disk ELSE [disk EXCEPT !.current = @ \cup {row}]

\* A sample is kept if at least two players are connected.
Sampled(m, now) == {[m EXCEPT !.eligible = @ \cup {now}], m}

\* collectSample: in a new minute it closes the one before first, and awaits the file.
Collected ==
    /\ clock < MaxClock /\ ~meter.closing /\ clock' = clock + 1
    /\ IF clock' \div Minute = meter.bucket THEN meter' \in Sampled(meter, clock')
       ELSE meter' = [meter EXCEPT !.closing = TRUE, !.row = MinuteRow]

NextMinute(now) == [Metering(now) EXCEPT !.segment = (now \div Minute) * Minute]

MinuteClosed ==
    /\ meter.closing /\ disk' = Appended(meter.row)
    /\ meter' \in Sampled(NextMinute(clock), clock)
    /\ UNCHANGED <<clock, ending, flush, table, stops>>

\* The file refuses the row: the minute stays open, and a match that waits has ended.
MinuteNotWritten ==
    /\ meter.closing /\ meter' = [meter EXCEPT !.closing = FALSE, !.row = NoRow]
    /\ ending' = [m \in Matches |-> IF ending[m].stage = "sampling"
                                    THEN [stage |-> "ended", row |-> NoRow] ELSE ending[m]]
    /\ UNCHANGED <<clock, flush, disk, table, stops>>

\* The timer; a match whose sample is there goes on first.
Sample ==
    /\ \A m \in Matches : ending[m].stage # "sampling"
    /\ Collected
    /\ UNCHANGED <<ending, flush, disk, table, stops>>

-----------------------------------------------------------------------------
(* checkpointMatchMinuteAndFlush. *)

AtStage(m, from, to) == /\ ending[m].stage = from
                        /\ ending' = [ending EXCEPT ![m] = to]

\* It samples, or shares the sample that is under way ...
MatchEnds(m) ==
    /\ AtStage(m, "playing", [stage |-> "sampling", row |-> NoRow])
    /\ \/ Collected
       \/ meter.closing /\ UNCHANGED <<clock, meter>>
    /\ UNCHANGED <<flush, disk, table, stops>>

\* ... writes the minute so far, and awaits the file ...
SegmentCloses(m) ==
    /\ ~meter.closing /\ AtStage(m, "sampling", [stage |-> "closing", row |-> MinuteRow])
    /\ UNCHANGED <<clock, meter, flush, disk, table, stops>>

\* ... and then begins a new part of the minute.
NewSegmentMutant == [meter EXCEPT !.segment = IF clock > @ THEN clock ELSE @ + 1]
NewSegment == [meter EXCEPT !.eligible = {}, !.segment = IF clock > @ THEN clock ELSE @ + 1]

SegmentClosed(m) ==
    /\ AtStage(m, "closing", [stage |-> "flushing", row |-> NoRow])
    /\ disk' = Appended(ending[m].row) /\ meter' = NewSegment
    /\ UNCHANGED <<clock, flush, table, stops>>

-----------------------------------------------------------------------------
(* flushCompletedBatches: one at a time, shared by those who ask meanwhile. *)

FlushBegins ==
    /\ ~flush.running /\ \E m \in Matches : ending[m].stage = "flushing"
    /\ disk' = IF disk.current = {} THEN disk
               ELSE [current |-> {}, batches |-> disk.batches \cup {disk.current}]
    /\ flush' = [running |-> TRUE, files |-> disk'.batches, stored |-> {}]
    /\ UNCHANGED <<clock, meter, ending, table, stops>>

\* createMany with skipDuplicates: one row of each time, unless the table has one.
Stored(rows) ==
    LET new   == {r \in rows : \A s \in table : s.at # r.at}
        times == {r.at : r \in new}
    IN  {table \cup T : T \in {U \in SUBSET new : /\ Cardinality(U) = Cardinality(times)
                                                  /\ {r.at : r \in U} = times}}

\* A file is inserted, then removed.
FileStored ==
    /\ flush.running /\ flush.stored = {}
    /\ \E f \in flush.files : table' \in Stored(f) /\ flush' = [flush EXCEPT !.stored = {f}]
    /\ UNCHANGED <<clock, meter, ending, disk, stops>>

FileRemoved ==
    /\ \E f \in flush.stored :
          /\ disk' = [disk EXCEPT !.batches = @ \ {f}]
          /\ flush' = [flush EXCEPT !.stored = {}, !.files = @ \ {f}]
    /\ UNCHANGED <<clock, meter, ending, table, stops>>

\* No file is left, or the database or the disk refuses one, which stays.
FlushEnds ==
    /\ flush.running /\ flush' = Resting
    /\ ending' = [m \in Matches |-> IF ending[m].stage = "flushing"
                                    THEN [stage |-> "ended", row |-> NoRow] ELSE ending[m]]
    /\ UNCHANGED <<clock, meter, disk, table, stops>>

\* The process stops and another starts: files and table stay.
Stops ==
    /\ stops < MaxStops /\ stops' = stops + 1
    /\ meter' = Metering(clock) /\ flush' = Resting
    /\ ending' = [m \in Matches |-> IF ending[m].stage = "playing" THEN ending[m]
                                    ELSE [stage |-> "ended", row |-> NoRow]]
    /\ UNCHANGED <<clock, disk, table>>

TelemetryNext ==
    \/ Sample \/ MinuteClosed \/ MinuteNotWritten \/ FlushBegins \/ FileStored \/ FileRemoved \/ FlushEnds \/ Stops
    \/ \E m \in Matches : MatchEnds(m) \/ SegmentCloses(m) \/ SegmentClosed(m)

TelemetrySpec == TelemetryInit /\ [][TelemetryNext]_telemetryVars

-----------------------------------------------------------------------------
\* No sample is counted in two rows, although two matches that end together write
\* the same part of a minute and a file that was inserted may be inserted again:
\* rows of one time hold the same part (runtime-telemetry.service.ts:130-136, 225-233).
SamplesCountedOnce == \A r, s \in table : r # s => r.samples \cap s.samples = {}
=============================================================================
