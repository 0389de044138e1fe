------------------------- MODULE SegmentTestHarness -------------------------
(***************************************************************************)
(* SegmentTestBasic, the test harness that drives Segment: its map        *)
(* `segments` from segment id to the current segment, and the harness     *)
(* functions that change it.  The harness is sequential: each function    *)
(* makes one call into Segment and stores the result.                      *)
(*                                                                         *)
(* A segment is abstracted to its RowKeyRange; rows are left out.  What   *)
(* Segment::split and Segment::merge return is not code of this            *)
(* repository: it is taken from the specification (split returns          *)
(* [start, mid) under the old id and [mid, end) under a new id, or a null *)
(* pair; merge returns the union of contiguous ranges, or null).  What is *)
(* translated from the harness is how the split key is built and how the  *)
(* results are stored into `segments`.                                     *)
(***************************************************************************)
EXTENDS RowKey, FiniteSets

CONSTANTS
    FIRST_SEGMENT_ID,   \* DELTA_MERGE_FIRST_SEGMENT_ID
    MaxSegmentId        \* bound on the segment ids the storage hands out

VARIABLES
    segments,           \* segment id -> RowKeyRange of the current segment
    is_common_handle,   \* options.is_common_handle of reloadWithOptions
    nextId              \* the id the next split gives its right half

vars == <<segments, is_common_handle, nextId>>

\* The key of handle x, as the handle column of a row gives it.
RowKeyOf(isCommon, x) ==
    IF isCommon THEN toRowKeyValueRef(RowKeyValue(TRUE, <<CodecFlagInt>> \o EncodeInt64(x), x))
    ELSE ColumnRef(FALSE, <<>>, x)

\* SegmentTestBasic::reloadWithOptions: segments holds the root segment
\* only, whose range is the whole key space of the table's kind.
Init ==
    /\ is_common_handle \in BOOLEAN
    /\ segments = FIRST_SEGMENT_ID :> newAll(is_common_handle, 1)
    /\ nextId = FIRST_SEGMENT_ID + 1

-----------------------------------------------------------------------------
(* What Segment returns (from the specification)                           *)

\* Segment::split at key mid: a null pair unless mid lies strictly inside.
SegmentSplit(r, mid) ==
    IF RowKeyValueCompare(r.start, mid) < 0 /\ RowKeyValueCompare(mid, r.end) < 0
    THEN <<setEnd(r, mid), setStart(r, mid)>>
    ELSE <<>>

\* Segment::merge of the segments in the given order: null unless each
\* range ends where the next one starts.
SegmentMerge(rs) ==
    IF \A i \in 1..Len(rs) - 1 : rs[i].end = rs[i + 1].start
    THEN <<setEnd(rs[1], rs[Len(rs)].end)>>
    ELSE <<>>

-----------------------------------------------------------------------------
(* The harness                                                             *)

\* splitSegmentAt: the split key is CodecFlagInt + EncodeInt64(split_at)
\* with int_value split_at for a common handle, fromIntHandle otherwise.
SplitAtKey(isCommon, split_at) ==
    IF isCommon THEN RowKeyValue(TRUE, <<CodecFlagInt>> \o EncodeInt64(split_at), split_at)
    ELSE fromIntHandle(split_at)

\* After a successful split: the left segment keeps segment_id and is
\* updated, the right one is added under its new id.
StoreSplit(id, halves) ==
    /\ segments' = [segments EXCEPT ![id] = halves[1]] @@ (nextId :> halves[2])
    /\ nextId' = nextId + 1

\* The common part of splitSegment and splitSegmentAt: RUNTIME_CHECK that
\* the id is known, call split, return nullopt on a null pair, else store.
SplitWith(id, mid) ==
    /\ id \in DOMAIN segments /\ nextId <= MaxSegmentId
    /\ LET halves == SegmentSplit(segments[id], mid)
       IN IF halves = <<>> THEN UNCHANGED <<segments, nextId>>
          ELSE StoreSplit(id, halves)
    /\ UNCHANGED is_common_handle

\* splitSegmentAt(segment_id, split_at).
SplitSegmentAt(id, split_at) == SplitWith(id, SplitAtKey(is_common_handle, split_at))

\* Fault: the merged segment is stored before the merged ids are erased,
\* so erasing the id it kept removes it again.
StoreMergeInsertFirst(ids, merged) ==
    LET m == ids[1] IN
    segments' = [i \in (DOMAIN segments \cup {m}) \ Range(ids) |->
                    IF i = m THEN merged ELSE segments[i]]

\* After a successful merge: every merged id is erased, then the merged
\* segment is stored under its id (that of the first segment).
StoreMerge(ids, merged) ==
    LET m == ids[1] IN
    segments' = [i \in (DOMAIN segments \ Range(ids)) \cup {m} |->
                    IF i = m THEN merged ELSE segments[i]]

\* mergeSegment: RUNTIME_CHECK at least two ids, each of them known;
\* Segment::merge; return on null, else store.
MergeSegment(ids) ==
    /\ Len(ids) >= 2
    /\ \A i \in DOMAIN ids : ids[i] \in DOMAIN segments
    /\ LET merged == SegmentMerge([i \in DOMAIN ids |-> segments[ids[i]]])
       IN IF merged = <<>> THEN UNCHANGED segments
          ELSE StoreMerge(ids, merged[1])
    /\ UNCHANGED <<is_common_handle, nextId>>

\* Keys a split may be asked for: every handle of the domain.
SplitKeys == Ints

\* Ordered lists of two or three segment ids, as mergeSegment takes them.
MergeLists == UNION {[1..n -> DOMAIN segments] : n \in 2..3}

Next ==
    \/ \E id \in DOMAIN segments, k \in SplitKeys : SplitSegmentAt(id, k)
    \/ \E ids \in MergeLists : MergeSegment(ids)

Spec == Init /\ [][Next]_vars

-----------------------------------------------------------------------------
(* After any sequence of splitSegmentAt and mergeSegment calls,          *)
(* successful or not, every key of the table lies in the range of       *)
(* exactly one segment of `segments`: the harness stores both halves of a *)
(* split, and erases the merged ids before it stores the merged segment,  *)
(* whose id is one of them.                                               *)
SegmentsPartitionKeySpace ==
    \A x \in Ints :
        Cardinality({id \in DOMAIN segments : check(segments[id], RowKeyOf(is_common_handle, x))}) = 1
=============================================================================
