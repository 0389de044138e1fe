---------------------------- MODULE MCRowKeyRange ----------------------------
(***************************************************************************)
(* The range algebra of RowKeyRange.  The state is a RowKeyRange `range`  *)
(* and a second range `other` of the same kind, both with bounds the code *)
(* builds (fromIntHandle and the sentinels for int handles; the           *)
(* CodecFlagInt + EncodeInt64 keys of splitSegmentAt and the sentinels    *)
(* for common handles).  The actions are the mutators of the struct.      *)
(* Membership is decided by check(), which uses operator<=> of            *)
(* RowKeyValueRef, while none/shrink/merge/intersect use the byte         *)
(* comparison of RowKeyValue: the invariants say the two agree.           *)
(***************************************************************************)
EXTENDS SegmentWriteBlock

CONSTANTS
    RangeInts,          \* the ints used as range bounds (a subset of Ints)
    CommonColumnSize    \* rowkey_column_size of the common-handle table

VARIABLES range, other
vars == <<range, other>>

\* splitSegmentAt: a common-handle key is CodecFlagInt followed by EncodeInt64.
CommonKey(i) == RowKeyValue(TRUE, <<CodecFlagInt>> \o EncodeInt64(i), i)

Bounds(isCommon) ==
    IF isCommon
    THEN {CommonKey(i) : i \in RangeInts} \cup {COMMON_HANDLE_MIN_KEY, COMMON_HANDLE_MAX_KEY}
    ELSE {fromIntHandle(i) : i \in RangeInts} \cup {INT_HANDLE_MIN_KEY, INT_HANDLE_MAX_KEY}

ColSize(isCommon) == IF isCommon THEN CommonColumnSize ELSE 1

Ranges(isCommon) ==
    {RowKeyRange(s, e, isCommon, ColSize(isCommon)) : s, e \in Bounds(isCommon)}

\* Every key a row of the table can have, as read from the handle column.
Probes(isCommon) ==
    IF isCommon
    THEN {toRowKeyValueRef(CommonKey(i)) : i \in Ints} \cup {toRowKeyValueRef(COMMON_HANDLE_MIN_KEY)}
    ELSE {ColumnRef(FALSE, <<>>, i) : i \in Ints}

\* Legacy persisted open ranges: rowkey_column_size flag bytes per bound.
LegacyRecords ==
    {[is_common_handle |-> TRUE, rowkey_column_size |-> CommonColumnSize,
      start |-> s, end |-> [i \in 1..CommonColumnSize |-> CodecFlagMax]] :
        s \in [1..CommonColumnSize -> {CodecFlagNil, CodecFlagBytes}]}

\* HandleRanges with the range bounds as ends; a start past the end is an
\* empty range.
HandleRanges == {HandleRange(s, e) : s, e \in RangeInts}

\* The key of handle x in a table of the given kind, as read from its column.
HandleProbe(isCommon, x) ==
    IF isCommon THEN toRowKeyValueRef(CommonKey(x)) ELSE ColumnRef(FALSE, <<>>, x)

Init == \E isCommon \in BOOLEAN :
            /\ range \in Ranges(isCommon)
            /\ other \in Ranges(isCommon)

SetStart(v) == range' = setStart(range, v) /\ UNCHANGED other
SetEnd(v)   == range' = setEnd(range, v) /\ UNCHANGED other
Shrink      == range' = shrink(range, other) /\ UNCHANGED other
Merge       == range' = merge(range, other) /\ UNCHANGED other
SetOther(r) == other' = r /\ UNCHANGED range
Swap        == LET s == swap(range, other) IN range' = s[1] /\ other' = s[2]

Next ==
    \/ \E v \in Bounds(range.is_common_handle) : SetStart(v) \/ SetEnd(v)
    \/ Shrink
    \/ Merge
    \/ Swap
    \/ \E r \in Ranges(range.is_common_handle) : SetOther(r)

Spec == Init /\ [][Next]_vars

Keys == Probes(range.is_common_handle)

-----------------------------------------------------------------------------
(* shrink (std::max of starts, std::min of ends by bytes) holds exactly   *)
(* the keys check() finds in both ranges.                                 *)
ShrinkIsIntersection ==
    \A k \in Keys : check(shrink(range, other), k) <=> check(range, k) /\ check(other, k)

(* merge and mergeRanges (folded from newNone) hold every key of either  *)
(* range.                                                                  *)
MergeCoversBoth ==
    \A k \in Keys :
        check(range, k) \/ check(other, k) =>
            /\ check(merge(range, other), k)
            /\ check(mergeRanges(<<range, other>>, range.is_common_handle,
                                 range.rowkey_column_size), k)

(* none() (start >= end by bytes) holds exactly when check() admits no    *)
(* key.                                                                    *)
NoneIffEmpty ==
    none(range) <=> \A k \in Keys : ~check(range, k)

(* intersect() of two non-empty ranges holds exactly when some key is in  *)
(* both.                                                                  *)
IntersectIffCommonKey ==
    ~none(range) /\ ~none(other) =>
        (intersect(range, other) <=> \E k \in Keys : check(range, k) /\ check(other, k))

(* checkRangeIncluded(rhs) of a non-empty rhs holds exactly when every    *)
(* key of rhs is a key of the range; equal ends count as included.        *)
IncludedIffSubset ==
    ~none(other) =>
        (checkRangeIncluded(range, other) <=> \A k \in Keys : check(other, k) => check(range, k))

(* A range read back by deserialize holds the keys of the range that was  *)
(* serialized, and a legacy open range (rowkey_column_size flag bytes)    *)
(* is read back as the whole key space.  An int-handle range, and each of *)
(* its bounds through RowKeyValue::serialize, is read back operator== to   *)
(* what was written, int_value included (INT_HANDLE_MAX_KEY too).          *)
DeserializeRestoresRange ==
    /\ \A k \in Keys : check(deserialize(serialize(range)), k) <=> check(range, k)
    /\ ~range.is_common_handle =>
          /\ RowKeyRangeEq(deserialize(serialize(range)), range)
          /\ \A v \in {range.start, range.end} :
                RowKeyValueEq(RowKeyValueDeserialize(RowKeyValueSerialize(v)), v)
    /\ \A rec \in LegacyRecords : all(deserialize(rec))

(* fromHandleRange turns a HandleRange into a RowKeyRange of either kind  *)
(* whose keys are exactly the handles of the HandleRange, taking an end   *)
(* of HandleRange::MAX as +inf so that Int64 max itself is included; for  *)
(* int handles toHandleRange gives the HandleRange back.                   *)
FromHandleRangeExact ==
    \A h \in HandleRanges :
        LET isCommon == range.is_common_handle
            r        == fromHandleRange(h, isCommon)
        IN /\ \A x \in Ints :
                  check(r, HandleProbe(isCommon, x)) <=>
                      h.start <= x /\ (x < h.end \/ h.end = IntMax)
           /\ ~isCommon => toHandleRange(r) = h

\* Two adjacent table ids, so that a table's span meets the next one's.
TableIds == {IntMin + 1, IntMin + 2}

(* toRegionRange turns the range into raw TiKV keys of table t that order *)
(* like the row keys (the region range is empty exactly when the range   *)
(* is none) and stay inside t's TableRangeMinMax span, which ends before  *)
(* the next table's span begins: the region of a segment never reaches   *)
(* a key of another table, also when its end is INT_HANDLE_MAX_KEY.       *)
RegionRangeWithinTable ==
    \A t \in TableIds :
        LET rr == toRegionRange(range, t)
            mm == TableRangeMinMax(t, range.is_common_handle)
        IN /\ CommonHandleCompare(rr[1], rr[2]) = RowKeyValueCompare(range.start, range.end)
           /\ CommonHandleCompare(mm.min, rr[1]) <= 0
           /\ CommonHandleCompare(rr[2], mm.max) <= 0
           /\ \A t2 \in TableIds :
                 t < t2 => CommonHandleCompare(mm.max, TableRangeMinMax(t2, range.is_common_handle).min) < 0


(* buildRowKeyRange, the range writeSegmentWithDeleteRange deletes, holds *)
(* exactly the handles begin..end-1 of either kind, and Int64 max as well *)
(* when including_right_boundary, which ends it at the +inf sentinel.     *)
BuildRowKeyRangeExact ==
    \A b, e \in RangeInts, inc \in BOOLEAN :
        (~inc \/ e = IntMax) =>
            LET r == buildRowKeyRange(b, e, range.is_common_handle, inc)
            IN \A x \in Ints :
                  check(r, HandleProbe(range.is_common_handle, x)) <=> b <= x /\ (x < e \/ inc)

=============================================================================
