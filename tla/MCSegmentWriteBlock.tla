------------------------- MODULE MCSegmentWriteBlock -------------------------
(***************************************************************************)
(* prepareWriteBlockInSegmentRange called on the segments the harness     *)
(* reaches: writeSegment writes into whatever segment splitSegmentAt or   *)
(* mergeSegment has left, from a start key in it or from none.  The       *)
(* function handles int handles only (getSegmentKeyRange).                 *)
(***************************************************************************)
EXTENDS SegmentTestHarness, SegmentWriteBlock

InRange(r, k) == check(r, ColumnRef(FALSE, <<>>, k))

\* The total_write_rows a test asks for.
WriteRows == 1..2

\* The write_start_key arguments for a segment of range r: none, or a key of r.
StartKeys(r) == {<<>>} \cup {<<k>> : k \in {i \in Ints : InRange(r, i)}}

(* Whatever segment of the table it is called on, with no start key or a *)
(* start key inside the segment, prepareWriteBlockInSegmentRange returns  *)
(* exactly total_write_rows rows, every one inside the segment's range:   *)
(* its name says so, its comment says that a start at Int64 max with one  *)
(* row gives one row at Int64 max, and writeSegment expects the segment   *)
(* to grow by write_rows.                                                  *)
WriteBlockFillsSegment ==
    ~is_common_handle =>
        \A id \in DOMAIN segments, total \in WriteRows :
            \A startAt \in StartKeys(segments[id]) :
                \A o \in prepareWriteBlockInSegmentRange(segments[id], total, startAt, 0) :
                    /\ o.kind = "block"
                    /\ Cardinality(o.rows) = total
                    /\ \A row \in o.rows : InRange(segments[id], row[1])
=============================================================================
