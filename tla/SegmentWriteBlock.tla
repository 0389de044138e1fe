--------------------------- MODULE SegmentWriteBlock ---------------------------
(***************************************************************************)
(* SegmentTestBasic::prepareWriteBlockInSegmentRange: the block of rows   *)
(* that writeSegment and writeToCache write into one segment.  It writes  *)
(* total_write_rows rows with handles inside the segment's range, from a  *)
(* given start key or a random one; when the range holds fewer keys than  *)
(* rows, it writes the keys again in further rounds with newer versions.  *)
(*                                                                         *)
(* Int64 is the RowKey module's Ints: IntMin and IntMax stand for the     *)
(* numeric limits, and the order and the distances between keys are      *)
(* those of Int64 shifted by its minimum.  A row is <<handle, version>>.  *)
(* The outcome of a call is a block of rows, Throw when a RUNTIME_CHECK   *)
(* fails, or Overrun when the UInt64 `remaining_rows` wraps below zero    *)
(* and the loop goes on writing for 2^64 rows.  write_start_key, an      *)
(* std::optional<Int64>, is <<>> or <<key>>.                              *)
(***************************************************************************)
EXTENDS RowKey, FiniteSets

Block(rows) == [kind |-> "block", rows |-> rows]
Throw       == [kind |-> "throw", rows |-> {}]
Overrun     == [kind |-> "overrun", rows |-> {}]

\* isSumOverflow(a, b): a + b leaves Int64.
isSumOverflow(a, b) == (b > 0 /\ a > IntMax - b) \/ (b < 0 /\ a < IntMin - b)

\* Int64 max as a count of keys: half the span of Int64.
CountMax == (IntMax - IntMin) \div 2

\* isDiffOverflow(a, b), a > b: a - b exceeds Int64 max.
isDiffOverflow(a, b) == a - b > CountMax

\* getSegmentKeyRange for an int-handle table: the int values of the bounds.
getSegmentKeyRange(r) == <<r.start.int_value, r.end.int_value>>

\* DMTestEnv::prepareSimpleWriteBlock: one row per handle of [start, end),
\* and of end too when including_right_boundary, all of version v.
prepareSimpleWriteBlock(start, end, v, including) ==
    {<<k, v>> : k \in start..(IF including THEN end ELSE end - 1)}

\* prepareWriteBlock / prepareWriteBlockImpl without ts: the block of
\* [start, end) with version + 1, the version the harness moves on to.
prepareWriteBlock(start, end, including, version) ==
    IF end = start /\ ~including THEN {}
    ELSE prepareSimpleWriteBlock(start, end, version + 1, including)

\* The while loop: each round writes min(remaining, max_each) keys from the
\* start with the next version and subtracts them, plus one for the right
\* boundary, from remaining_rows.
RECURSIVE WriteRounds(_, _, _, _, _, _)
WriteRounds(start, maxEach, including, remaining, version, acc) ==
    IF remaining = 0 THEN Block(acc)
    ELSE LET w    == IF remaining < maxEach THEN remaining ELSE maxEach
             used == w + (IF including THEN 1 ELSE 0)
         IN IF used > remaining THEN Overrun
            ELSE WriteRounds(start, maxEach, including, remaining - used, version + 1,
                             acc \cup prepareWriteBlock(start, start + w, including, version))

\* is_including_right_boundary(write_start_key, total_write_rows).
is_including_right_boundary(start, total) == IntMax - total + 1 = start

\* The rest of the call once the start key is fixed.
WriteFrom(r, start, total, including, version) ==
    LET segEnd  == getSegmentKeyRange(r)[2]
        maxEach == segEnd - start
    IN IF maxEach <= 0 \/ start < getSegmentKeyRange(r)[1] THEN Throw
       ELSE WriteRounds(start, maxEach, including, total, version, {})

\* prepareWriteBlockInSegmentRange(segment, total_write_rows,
\* write_start_key, is_deleted = false, ts = nullopt): the set of outcomes
\* over the random start key it may pick.
prepareWriteBlockInSegmentRange(r, total, startAt, version) ==
    LET segStart == getSegmentKeyRange(r)[1]
        segEnd   == getSegmentKeyRange(r)[2]
    IN IF total <= 0 THEN {Throw}
       ELSE IF startAt # <<>>
       THEN LET k == startAt[1] IN
            IF ~(segStart <= k /\ (k < segEnd \/ isEndInfinite(r))) THEN {Throw}
            ELSE LET including == is_including_right_boundary(k, total) IN
                 IF ~including /\ isSumOverflow(k, total) THEN {Throw}
                 ELSE {WriteFrom(r, k, total, including, version)}
       ELSE LET maxRows == IF isDiffOverflow(segEnd, segStart) THEN CountMax
                           ELSE segEnd - segStart
            IN IF maxRows = 0 THEN {Block({})}
               ELSE IF maxRows > total
               THEN {WriteFrom(r, s, total, FALSE, version) : s \in segStart..(segEnd - total)}
               ELSE {WriteFrom(r, segStart, total, FALSE, version)}

\* Fault: the right boundary is included by ending at the encoded end key.
buildRowKeyRangeEndKey(begin, end, isCommon, including) ==
    IF including /\ end # IntMax THEN Throw
    ELSE IF isCommon
    THEN RowKeyRange(fromHandle(TRUE, EncodeCommonInt(begin)),
                     fromHandle(TRUE, EncodeCommonInt(end)), TRUE, 1)
    ELSE RowKeyRange(fromIntHandle(begin), fromIntHandle(end), FALSE, 1)

\* SegmentTestBasic::buildRowKeyRange(begin, end, is_common_handle,
\* including_right_boundary): [begin, end) of int or CodecFlagInt-encoded
\* common handles; including_right_boundary requires end = Int64 max and
\* ends the range at the kind's +inf sentinel.
buildRowKeyRange(begin, end, isCommon, including) ==
    IF including /\ end # IntMax THEN Throw
    ELSE IF isCommon
    THEN RowKeyRange(fromHandle(TRUE, EncodeCommonInt(begin)),
                     IF including THEN COMMON_HANDLE_MAX_KEY
                     ELSE fromHandle(TRUE, EncodeCommonInt(end)), TRUE, 1)
    ELSE RowKeyRange(fromIntHandle(begin),
                     IF including THEN INT_HANDLE_MAX_KEY ELSE fromIntHandle(end), FALSE, 1)
=============================================================================
