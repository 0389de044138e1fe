# TLA+ models of TiFlash: row keys, segments, scan statistics, task futures, daemon signals and pid files

This folder holds TLA+ models of the parts of `src/` that carry state or
concurrency TLC can check. `PROJECT.json` maps every definition
to the lines it translates. It also lists every component, run, mutant,
finding and hazard.

## The system's parts and how they interact

- **RowKeyValue / RowKeyRange** (`RowKeyRange.h`) covers several things:
  - the row key of a table: an Int64 handle, or a memcomparable byte
    string for common-handle tables;
  - its two comparisons: the byte comparison of `RowKeyValue`, and
    `operator<=>` of `RowKeyValueRef`, which adds an int fast path and a
    byte fallback at Int64 max;
  - the successor functions `toPrefixNext` and `toNext`;
  - the half-open key range `[start, end)` that every segment owns;
  - the range algebra (none, shrink, merge, intersect,
    checkRangeIncluded, mergeRanges) and its persistence
    (serialize/deserialize, with the legacy encoding of open bounds);
  - the raw TiKV record keys of a range: `toRegionRange` and the table
    span `TableRangeMinMax`, both `'t' + EncodeInt64(table_id) + '_r'`
    followed by the handle bytes.
- **Segment test harness** (`gtest_segment_test_basic.cpp`,
  `SegmentTestBasic`). The harness keeps `segments`, a map from segment
  id to the current segment, and runs one call into `Segment` at a time:
  - `splitSegmentAt` builds the split key and calls `Segment::split`. On
    success it stores the left half under the old id and the right half
    under the new id.
  - `mergeSegment` calls `Segment::merge`. It erases the merged ids and
    then stores the result.
  - `prepareWriteBlockInSegmentRange` builds the rows `writeSegment`
    writes, and `buildRowKeyRange` builds the range a delete covers.
  - Segment ranges are RowKeyRanges, and a key belongs to a segment when
    `RowKeyRange::check` says so. This is how the two parts connect.
- **ScanContext** (`ScanContext.h`): the statistics of one table scan.
  - Read threads add to its atomic counters.
  - A finished local stream's context is folded into the query's with
    `merge(const ScanContext &)`.
  - A remote instance sends `serialize()` in its execution summary, and
    the receiver folds it in with `merge(const tipb::TiFlashScanContext &)`.
  - Durations travel in ms.
- **BaseRuntimeStatistics** (`BaseRuntimeStatistics.cpp`): an executor's
  summary, folded from operator or stream profiles and from connection
  profiles by one collector thread.
- **OneTimeNotifyFuture** (`OneTimeNotifyFuture.h`): pipeline tasks
  register and wait, and `finish()` wakes them all. A task that registers
  after `finish()` is woken at once. Both paths take the future's mutex.
- **BaseDaemon signal handling** (`BaseDaemon.cpp`):
  - Signal handlers only write a signal id into `signal_pipe`.
  - The SignalListener thread reads the pipe and acts on each id:
    - SIGHUP and SIGUSR1 close and reopen the logs;
    - SIGINT, SIGQUIT and SIGTERM go to `handleSignal`, which counts them
      and wakes the main thread;
    - a std::terminate or fault report is logged.
  - The main thread waits in `waitForTerminationRequest`.
  - `~BaseDaemon` writes StopThread, joins the listener and closes the
    pipe.
  - A second SIGINT kills the process.
  - With the `pid` option, `initialize()` claims a pid file through
    `PID::seed` (check for a file, read its pid, remove it if that pid
    is not running, create it with `O_EXCL`, write the pid), and
    `kill()` removes it through `PID::clear`. Several daemons configured
    with the same file interact only through that file.
- The remaining files are listed in `PROJECT.json` with their status and
  the reason they are not modelled: pack filter, vector index reader,
  DAG writer, MPP tunnel, expression analyzer and two test files.

## Modules

| module | models | state / actions |
|---|---|---|
| `RowKey` | `RowKeyRange.h` | Operators only. `RowKeyValue` and `RowKeyRange` are records, and each method is an operator with the method's name. `EncodeInt64` is a fixed-width big-endian code with base `ByteMax+1`: `ByteMax` stands for 0xFF, `IntMin` is all zeros and `IntMax` is all `ByteMax`. `data == nullptr` is the model value `NullData`. The record-key tag bytes `'t'`, `'_'` and `'r'` are `TagT`, `TagUnderscore` and `TagR`: fixed bytes in the same order as in ASCII, since the model's bytes cannot hold ASCII. The keyspace prefix is that of `NullspaceID`, which is empty. |
| `MCRowKeyOrder` | comparison and successor | `ref` is any `RowKeyValueRef` the code builds: sentinels, `fromIntHandle`, common-handle strings, and column refs without data. `Assign` re-assigns it. |
| `MCRowKeyRange` | range algebra | `range` and `other` have bounds the code builds. The actions are `setStart`, `setEnd`, `shrink`, `merge` and `swap`, plus replacing `other`. |
| `SegmentTestHarness` | `SegmentTestBasic`'s `segments` map | `segments` maps each id to its segment's `RowKeyRange`. `is_common_handle` is the table kind chosen by `reloadWithOptions`, and `nextId` is the next id a split hands out. The actions are `SplitSegmentAt` and `MergeSegment`. `SegmentSplit` and `SegmentMerge` stand for `Segment::split` and `Segment::merge`, whose code is not in the repository. They are taken from the specification: `[start, mid)` and `[mid, end)`, or null when `mid` is not strictly inside; the union of contiguous ranges under the first id, or null. |
| `SegmentWriteBlock` | `prepareWriteBlockInSegmentRange` | Operators only. The function's outcome is a `Block` of `<<handle, version>>` rows, `Throw` (a failed `RUNTIME_CHECK`) or `Overrun` (the UInt64 `remaining_rows` wrapping below zero). The random start key is a set of outcomes. `WriteRounds` is the while loop, and `prepareSimpleWriteBlock` is the test environment's block builder. `buildRowKeyRange` is the harness's range builder used by `writeSegmentWithDeleteRange`. |
| `MCSegmentWriteBlock` | the harness writing into segments | `SegmentTestHarness`'s state, with the write-block function applied to every segment of an int-handle table. |
| `ScanContext` | `ScanContext.h` | `ctx` maps each node to its counters: remote instances, local streams and the receiving query's context. `phase` is each source's progress, and `net` holds the summaries sent. The actions are `Record`, `Finish`, `SendSummary`, `MergeRemote` (`MergePb`) and `MergeLocal` (`MergeCtx`). `Serialize` and `Deserialize` are operators. |
| `BaseRuntimeStatistics` | `BaseRuntimeStatistics.cpp` | `stats` is the summary. `appended` and `conns` are the history of what was passed in. `kind` records whether the executor reports operator or stream profiles. The actions call `AppendOperator`, `AppendStream`, `UpdateReceive` and `UpdateSend`. |
| `OneTimeNotifyFuture` | `OneTimeNotifyFuture.h` | `mu` is the mutex's holder and `finished` the flag. `waiting` is the PipeConditionVariable's task set, and `notified` counts each task's wakeups. `tpc` and `fpc` are each thread's step inside `registerTask` and `finish`. |
| `OneTimeNotifyFutureAbstract` | what the future promises | `fired`, `registered` and `woken`. `Register` and `RegisterLate` are atomic registrations before and after `Fire`, which wakes every registered task once. |
| `PidFile` | `PID::seed`, `PID::clear` (`BaseDaemon.cpp`) | `file` is the pid file at the path: `NoFile`, or the process that created it and the pid written into it. `pc` is each process's step; one action per file-system call (`SeedExists`, `SeedRead`, `SeedRemove`, `SeedOpen`, `SeedWrite`), plus `Kill` (`PID::clear`) and `Crash`. `alone` is a history variable: no other process was inside `seed` when the process started. |
| `BaseDaemon` | `BaseDaemon.cpp` | `pipe` holds the unread signal ids, and `writeOpen` is `write_fd != -1`. `lpc` is the listener's step and `mpc` the main thread's step in the wait and the destructor. `tstate` is each thread's fault-handler state. The counters, `is_cancelled` and `exit_by` (core or kill) complete the state. |

`OneTimeNotifyFuture` implements `OneTimeNotifyFutureAbstract` under this
mapping:
- `fired <- finished`;
- `registered <-` the tasks whose `registerTask` has returned;
- `woken <- notified + Pending`. `Pending(t)` is 1 while `t` is still in
  the condition variable and a finisher is in its notify step. The
  wakeup that `finish()` has already promised is counted when
  `finished` is set, which is the instant the abstract `Fire` happens.

## Runs

| run | checks | shows |
|---|---|---|
| `rowkey_order` | `RefCompareIsTotalOrder`, `RefCompareMatchesBytes`, `ToNextIsSuccessor`, `ColumnReadsRow` | The int fast path and the Int64-max fallback of `operator<=>` give a total order. On every ref the code builds, that order agrees with the bytes the ref stands for. `toNext` of a column key is its successor. `RowKeyColumnContainer::getRowKeyValue` reads back row `i` of a string column from its offsets (dropping the terminator byte), of an int column, and of a constant column. |
| `rowkey_range` | `ShrinkIsIntersection`, `MergeCoversBoth`, `NoneIffEmpty`, `IntersectIffCommonKey`, `IncludedIffSubset`, `DeserializeRestoresRange`, `FromHandleRangeExact`, `RegionRangeWithinTable`, `BuildRowKeyRangeExact` | The range algebra compares bytes, while `check` compares refs; the two agree for int and common handles. A legacy persisted open range is read back as the whole key space. `fromHandleRange` keeps exactly the handles of `[start, end)`, with an end at Int64 max meaning "no end", and `toHandleRange` gives the handle range back. Int-handle ranges, and their bounds through `RowKeyValue::serialize`, read back `operator==` to what was written. `RegionRangeWithinTable`: `toRegionRange` orders raw keys like row keys, and stays inside its table's `TableRangeMinMax` span, which ends before the next table's. `BuildRowKeyRangeExact`: `buildRowKeyRange` holds exactly `begin..end-1`, plus Int64 max when `including_right_boundary` is set. |
| `rowkey_tonext_max` (violation) | `ToNextIsGreater` | `toNext(INT_HANDLE_MAX_KEY)` compares **below** its input. |
| `rowkey_prefix_next` (violation) | `PrefixNextCoversPrefix` | `[k, k.toPrefixNext())` misses longer keys with prefix `k` when `k` is empty or all 0xFF. |
| `segment_harness` | `SegmentsPartitionKeySpace` | After any sequence of `splitSegmentAt` and `mergeSegment` calls on an int or common-handle table, successful or not, every key lies in exactly one segment of `segments`. The mutant stores the merged segment before erasing the merged ids. |
| `one_time_notify` | `NoTaskStranded`, `RegisteredTaskWoken`, `ImplementsAbstract` | Two tasks register while two threads call `finish()`. No task is left in the condition variable, and each registered task is woken exactly once. Every behaviour is one of the abstract future's, so registration and finishing act as atomic events. |
| `daemon_signals` | `OneSigintIsGraceful`, `TerminationWakesMain`, `ShutdownCompletes` | Up to three external signals arrive, a worker may call std::terminate, and the listener thread may fault. Through all this, one SIGINT never kills. A termination signal in the pipe wakes the main thread unless the process dies first. `~BaseDaemon` completes. |
| `pid_file` | `SequentialStartsExclusive` | Three daemons share a pid file, possibly left by a dead run, and may crash or be killed at any step. When no start overlaps another, at most one daemon runs. |
| `pid_file_single` (violation) | `SingleDaemon` | Two overlapping starts both run. The second reads the first's file before its pid is written, takes it as stale and removes it. |

Every property of a passing run has a mutant in `PROJECT.json`: a
plausible bug in the mapped code that TLC finds. Examples are a dropped
length comparison, a split leaving a gap, appended rows lost, and a retry
that does not re-locate. Others are a register path that skips the
mutex, `handleSignal` without `notify_all`, a destructor that joins
before writing StopThread, a merge that assigns instead of adding, and a
`switch` case that falls through. Removing `StillLive` from `ApplySplit` also
breaks `AbstractSpec`: a split applied after a replaceData would
resurrect stale rows.

## Findings

All four findings are disagreements between the code and what its
comments or the spec say. TLC finds each one with a short counterexample.

1. `RowKeyRange.h:183-197` (`toNext`):
   - **What the comment and spec say.** The comment says `toNext`
     returns a larger key, and spec §8 says `a.toNext() > a`.
   - **What the code does.** For `INT_HANDLE_MAX_KEY`, the int stays at
     Int64 max and the suffix byte goes from 0 to 1.
     `operator<=>(Ref)` then sees both ints at max and takes the byte
     fallback at lines 250-270. That fallback classes only the exact
     sentinel bytes as "infinite", so the result is ordered below the
     sentinel.
2. `RowKeyRange.h:150-181` (`toPrefixNext`):
   - **What the comment says.** `[this, toPrefixNext())` holds every key
     with prefix `this`.
   - **What the code does.** For an empty or all-0xFF key, the code
     appends a 0 byte, so the range holds only the key itself.

3. `gtest_segment_test_basic.cpp:468-560` (`prepareWriteBlockInSegmentRange`):
   - **What the comment and the callers say.** The comment at 477-478
     says that a start key of Int64 max with one row gives one row at
     Int64 max. `writeSegment` expects the segment to grow by the rows
     written.
   - **What the code does.** The end of the last segment carries
     `int_value` Int64 max, so `max_write_rows_each_round` is 0 and the
     `RUNTIME_CHECK` at 528 throws. TLC shows this in the first state.
     Evaluating the same operator on other segments gives the other edges:
     - Without a start key, the segment `[Int64 max, +inf)` gets an empty
       block (509-510).
     - With `including_right_boundary` in a segment whose end is not
       +inf, the block includes the end key, outside the segment.
     - If that end is below Int64 max, `remaining_rows` wraps below zero
       at 547.
4. `BaseDaemon.cpp:1219-1244` (`PID::seed`):
   - **What the code says.** It refuses to start when "Pid file exists
     and program running", so that one daemon uses the file.
   - **What the code does.** The check, the read, the `remove()` and
     the `O_EXCL` open are separate calls. A daemon that reads the file
     between another's open and write reads pid 0 and removes the file.
     It then creates its own, and both daemons run. The `O_EXCL` open
     protects only against two creators, not against a remover.

## Bounds and why they suffice

- **Row keys.**
  - `ByteMax = 4` and `IntWidth = 2` (`IntWidth = 1` in the segment harness). The
    comparisons depend only on the order of bytes, the carry at the
    maximal byte, length differences and the all-max encoding. Five byte
    values and two-byte integers already have carries, all-max values
    and all four codec flags.
  - `MaxLen = 3` gives prefixes that are proper, equal and longer.
- **Ranges.** The range bounds `{0,1,12,23,24}` include:
  - both ends of the int domain (`24` is `IntMax`);
  - a pair of adjacent values;
  - an interior value (`12`, the code `(2,2)`).

  Table ids `1` and `2` are adjacent, so the end of one table's span
  meets the start of the next. `buildRowKeyRange` is checked for every
  pair of bounds from this set.

  Membership is probed with every int of `0..24`, so every carry in the
  encoding, such as `14` = `(2,4)` to `15` = `(3,0)`, lies inside some
  range that is checked.
- **Segment harness.** Int64 is `0..4`. Splits may be asked at every
  key and merges of every ordered list of two or three ids. Segment ids
  go up to `MaxSegmentId = 4`, so up to three splits, which reach every
  partition of the domain into at most four ranges, with merges in
  between. Both table kinds are explored. The harness may stop anywhere,
  so the deadlock check is off.

- **ScanContext.** One field stands for each kind of counter. The
  other fields are handled by identical lines, which the map names.
  - `NsPerMs = 2` stands for 10^6. Only the truncation matters, and odd
    durations leave a remainder.
  - Two increments per source and two remote instances are enough to
    accumulate remainders from several summaries.
  - A third source is a local stream, so local merges and remote
    summaries interleave.
  - `CHECK_DEADLOCK FALSE`: the workload is finite, and the run stops
    once every source is merged.
- **BaseRuntimeStatistics.** Three calls, two execution times and two
  wait values give ties, increases and decreases of the slowest time.
  `CHECK_DEADLOCK FALSE` for the same reason.
- **OneTimeNotifyFuture.** Two tasks and two finishers give every
  interleaving of a registration with the first and the second
  `finish()`. Each thread makes one call, so the run stops (no deadlock
  check).
- **BaseDaemon.**
  - Three external signals from {SIGINT, SIGTERM, SIGHUP}. SIGQUIT is
    handled exactly as SIGTERM, and SIGUSR1 exactly as SIGHUP.
  - One worker thread.
  - Faults on the listener and the worker; std::terminate on the worker.
  - Three signals give two SIGINTs around a SIGTERM, or a signal after
    the pipe is closed.
  - The process really stops (killed, core dump or exited), so the
    deadlock check is off.

- **PidFile.** Three processes, and a file left by a dead earlier run
  or none. Two overlapping processes are enough to violate `SingleDaemon`.
  The third gives `SequentialStartsExclusive` longer chains of crash,
  kill and restart, in which a file is left behind by one dead run and
  found by the next. Process ids are symmetric. The processes really end (exited,
  refused or failed), so the deadlock check is off. No fairness: the
  property is safety.

- **SegmentWriteBlock.** The function is applied to every segment of
  every int-handle table that `segment_harness` explores (Int64 as
  `0..4`), with one or two rows and every start key inside the segment.
  Splits at 2 and 4 give a segment ending at Int64 max without being
  the last one, and the last segment `[4, +inf)`.

## Fairness

The segment harness is sequential and checks only safety, so it assumes
no fairness.

- **OneTimeNotifyFuture.** Each call, once made, runs to its end: weak
  fairness on each thread's steps inside `registerTask` or `finish`. A
  free mutex is eventually taken, because every holder releases it
  within a bounded number of its own steps. Nothing forces a call to be
  made.
- **BaseDaemon.** The listener and the main thread are OS threads, so
  each of their enabled steps is eventually taken. `abort()` raises
  SIGABRT at once, and the fault handler's `sleep(10)` ends.
  `SpuriousWakeup` is not fair: the properties must hold without it.

## Not modelled

- **RowKey.** The bodies of `fromHandleWithSuffix`, `shrinkRowKeyRanges`,
  `getPosRange` and `fromRegionRange` are in `RowKeyRange.cpp`, which is
  not in the repository. `fromHandle` is modelled from its header
  comment; the others are not modelled. `makeKeyspacePrefix` is not in
  the repository either, so only `NullspaceID` is modelled. For any
  other keyspace, `toRegionRange` (which writes no keyspace prefix; see
  the FIXME at line 684) and `TableRangeMinMax` would disagree. That is
  listed as a hazard. `toString` and `toDebugString` are formatting.
- **Segments.** `Segment::split` and `Segment::merge` are not in the
  repository. Their results are taken from the specification. The
  concurrency of `DeltaMergeStore` (background merges racing writes) is
  not in the repository either, so the harness is modelled as
  sequential. Segments are abstracted to their ranges, so the write,
  replace and `mergeSegmentDelta` calls, which change only rows, have
  no action. Also not modelled: delete ranges, DTFile ingest, flush and
  compact of the delta cache, MVCC (deleted rows, versions hidden by
  reads), stable/delta local indexes and page GC. The harness functions
  for them (`deleteRangeSegment`, `ingestDTFileIntoDelta`,
  `flushSegmentCache`, `compactSegmentDelta`) only call `Segment` and
  `DeltaValueSpace`. What those calls do to the delta is in code that is
  not in the repository. For example, whether a delete range masks rows
  by version or by position in the delta decides which rows a racing
  write leaves visible. A model of them would be a guess. The range a
  delete covers (`buildRowKeyRange`) is modelled.
- **ScanContext.** The region-number and stream-cost helpers and
  `toJson` are not modelled, because their bodies are in
  `ScanContext.cpp`, which is not in the repository. `serialize` and
  `merge(pb)` leave out the `rs_pack_filter_*` counters, which the TODOs
  at lines 245 and 426-427 acknowledge, so no property claims they reach
  the receiving query; the local merge sums them. The uint32 counters
  wrap at 2^32, far beyond any bound. The callers that add to the
  counters, and that decide when to merge, are not in the repository.
  The model therefore merges only finished streams.
- **BaseDaemon.**
  - The log output of `onFault`, `onTerminate` and `closeLogs` is not
    modelled. This includes the stack-trace suppression by
    `already_printed_stack_trace`.
  - Also not modelled: configuration and the rest of `initialize`.
    The `PID` destructor is declared in a header that is not in the
    repository. The model takes `kill()` as the only caller of
    `clear()`; a destructor that also clears would act as `Kill`
    does.
  - Signals before `initialize` has installed the handlers are not
    modelled; they would take their default action.
  - The pipe is unbounded in the model. A full pipe would need tens of
    thousands of pending messages.
- **DAGResponseWriter.** `write` and `flush` only dispatch to pure
  virtual hooks whose behaviour lives in subclasses that are not in the
  repository.
- **DMFilePackFilter.** The header declares only the interface. The
  classification and skip-range code is in `DMFilePackFilter.cpp`,
  which is not in the repository. Spec §4.2 describes the algorithm, but
  it is a pure function with no state or concurrency of its own. A
  spec-level model would check the spec against itself, and it would
  add no line of the implementation.
- **Headers and tests.** Components whose state machine lives outside
  `src/` are `not_modelled`: vector index reader, MPP tunnel, expression
  analyzer and the region persister and aggregate tests. `PROJECT.json`
  gives the reason for each.
