------------------------------- MODULE ScanContext -------------------------------
(***************************************************************************)
(* DM::ScanContext: the per-table-scan statistics of a query.  Read        *)
(* threads add to its atomic counters; a finished local stream's context  *)
(* is folded into the query's context by merge(const ScanContext &); a    *)
(* remote TiFlash instance sends serialize() in its execution summary and *)
(* the receiver folds it in with merge(const tipb::TiFlashScanContext &). *)
(*                                                                         *)
(* The counters fall into a few kinds, each handled by the same line      *)
(* pattern in every method; one field of each kind stands for the rest:   *)
(*   - row/byte counts (dmfile_data_scanned_rows, dmfile_data_skipped_rows)*)
(*     are copied to the protobuf as they are;                            *)
(*   - durations in ns (total_dmfile_read_time_ns, learner_read_ns) are    *)
(*     sent in ms, `/ 1000000` on serialize and `* 1000000` on receipt;    *)
(*   - the rough-set pack-filter counters (rs_pack_filter_none) are merged *)
(*     locally but not serialized (the TODOs in serialize/deserialize).    *)
(* NsPerMs stands for 1000000: only the truncation of the division         *)
(* matters, and a small factor with non-zero remainders shows it.         *)
(***************************************************************************)
EXTENDS Naturals, FiniteSetsExt

CONSTANTS
    Instances,   \* remote TiFlash instances, one ScanContext each
    Streams,     \* local streams of the receiving instance, one ScanContext each
    Receiver,    \* the query's ScanContext on the receiving instance
    NsPerMs,     \* 1000000 in the code
    Amounts,     \* the increments a read thread adds in one step
    MaxRecords   \* bound on the increments per context

RowFields   == {"dmfile_data_scanned_rows", "dmfile_data_skipped_rows"}
TimeFields  == {"total_dmfile_read_time_ns", "learner_read_ns"}
LocalFields == {"rs_pack_filter_none"}
Fields      == RowFields \cup TimeFields \cup LocalFields

Sources == Instances \cup Streams
Nodes   == Sources \cup {Receiver}

\* A ScanContext as constructed: every counter 0.
Zero == [f \in Fields |-> 0]

-----------------------------------------------------------------------------
(* The conversions                                                         *)

\* Fault: the two row counts copied into each other's protobuf field.
SerializeSwapRows(c) ==
    [dmfile_data_scanned_rows |-> c.dmfile_data_skipped_rows,
     dmfile_data_skipped_rows |-> c.dmfile_data_scanned_rows,
     total_dmfile_read_ms     |-> c.total_dmfile_read_time_ns \div NsPerMs,
     total_learner_read_ms    |-> c.learner_read_ns \div NsPerMs]

\* ScanContext::serialize, for the representative fields.
Serialize(c) ==
    [dmfile_data_scanned_rows |-> c.dmfile_data_scanned_rows,
     dmfile_data_skipped_rows |-> c.dmfile_data_skipped_rows,
     total_dmfile_read_ms     |-> c.total_dmfile_read_time_ns \div NsPerMs,
     total_learner_read_ms    |-> c.learner_read_ns \div NsPerMs]

\* Fault: a duration read back in ms, without the `* 1000000`.
DeserializeNoScale(c, pb) ==
    [c EXCEPT !.dmfile_data_scanned_rows  = pb.dmfile_data_scanned_rows,
              !.dmfile_data_skipped_rows  = pb.dmfile_data_skipped_rows,
              !.total_dmfile_read_time_ns = pb.total_dmfile_read_ms * NsPerMs,
              !.learner_read_ns           = pb.total_learner_read_ms]

\* ScanContext::deserialize: assigns the serialized fields and leaves the
\* rest of `c` as it was.
Deserialize(c, pb) ==
    [c EXCEPT !.dmfile_data_scanned_rows  = pb.dmfile_data_scanned_rows,
              !.dmfile_data_skipped_rows  = pb.dmfile_data_skipped_rows,
              !.total_dmfile_read_time_ns = pb.total_dmfile_read_ms * NsPerMs,
              !.learner_read_ns           = pb.total_learner_read_ms * NsPerMs]

\* Fault: a duration assigned as in deserialize instead of added.
MergePbAssignTime(c, pb) ==
    [c EXCEPT !.dmfile_data_scanned_rows  = @ + pb.dmfile_data_scanned_rows,
              !.dmfile_data_skipped_rows  = @ + pb.dmfile_data_skipped_rows,
              !.total_dmfile_read_time_ns = @ + pb.total_dmfile_read_ms * NsPerMs,
              !.learner_read_ns           = pb.total_learner_read_ms * NsPerMs]

\* ScanContext::merge(const tipb::TiFlashScanContext &).
MergePb(c, pb) ==
    [c EXCEPT !.dmfile_data_scanned_rows  = @ + pb.dmfile_data_scanned_rows,
              !.dmfile_data_skipped_rows  = @ + pb.dmfile_data_skipped_rows,
              !.total_dmfile_read_time_ns = @ + pb.total_dmfile_read_ms * NsPerMs,
              !.learner_read_ns           = @ + pb.total_learner_read_ms * NsPerMs]

\* ScanContext::merge(const ScanContext &): every field is summed.
MergeCtx(c, o) == [f \in Fields |-> c[f] + o[f]]

-----------------------------------------------------------------------------
VARIABLES
    ctx,      \* node -> its ScanContext
    records,  \* node -> increments made so far
    phase,    \* source -> "reading", "done", "sent", "merged"
    net       \* instance -> the TiFlashScanContext it sent

vars == <<ctx, records, phase, net>>

Init ==
    /\ ctx = [n \in Nodes |-> Zero]
    /\ records = [n \in Sources |-> 0]
    /\ phase = [n \in Sources |-> "reading"]
    /\ net = [i \in Instances |-> Serialize(Zero)]

\* A read thread of source n adds v to a counter (an atomic fetch_add).
Record(n, f, v) ==
    /\ phase[n] = "reading" /\ records[n] < MaxRecords
    /\ ctx' = [ctx EXCEPT ![n][f] = @ + v]
    /\ records' = [records EXCEPT ![n] = @ + 1]
    /\ UNCHANGED <<phase, net>>

\* The last read thread of source n finishes.
Finish(n) ==
    /\ phase[n] = "reading"
    /\ phase' = [phase EXCEPT ![n] = "done"]
    /\ UNCHANGED <<ctx, records, net>>

\* A remote instance puts serialize() into its execution summary.
SendSummary(i) ==
    /\ phase[i] = "done"
    /\ net' = [net EXCEPT ![i] = Serialize(ctx[i])]
    /\ phase' = [phase EXCEPT ![i] = "sent"]
    /\ UNCHANGED <<ctx, records>>

\* The receiver folds a remote summary into the query's context.
MergeRemote(i) ==
    /\ phase[i] = "sent"
    /\ ctx' = [ctx EXCEPT ![Receiver] = MergePb(@, net[i])]
    /\ phase' = [phase EXCEPT ![i] = "merged"]
    /\ UNCHANGED <<records, net>>

\* The receiver folds a finished local stream's context into the query's.
MergeLocal(s) ==
    /\ phase[s] = "done"
    /\ ctx' = [ctx EXCEPT ![Receiver] = MergeCtx(@, ctx[s])]
    /\ phase' = [phase EXCEPT ![s] = "merged"]
    /\ UNCHANGED <<records, net>>

Next ==
    \/ \E n \in Sources, f \in Fields, v \in Amounts : Record(n, f, v)
    \/ \E n \in Sources : Finish(n)
    \/ \E i \in Instances : SendSummary(i) \/ MergeRemote(i)
    \/ \E s \in Streams : MergeLocal(s)

Spec == Init /\ [][Next]_vars

-----------------------------------------------------------------------------
Merged == {n \in Sources : phase[n] = "merged"}

\* What the merged sources really counted in field f.
Counted(f) == MapThenSumSet(LAMBDA n : ctx[n][f], Merged)

(* Row counts reach the query's context exactly: after any mix of local  *)
(* merges and remote summaries, each row field is the sum of what the    *)
(* merged sources counted.                                                *)
MergedRowsExact ==
    \A f \in RowFields : ctx[Receiver][f] = Counted(f)

(* A duration in the query's context never exceeds what the merged        *)
(* sources measured, and falls short only by the sub-millisecond          *)
(* remainders that serialize() drops, less than 1 ms per remote summary.  *)
MergedTimeWithinTruncation ==
    \A f \in TimeFields :
        LET lost == Counted(f) - ctx[Receiver][f] IN
        /\ ctx[Receiver][f] <= Counted(f)
        /\ lost <= (NsPerMs - 1) * Cardinality(Merged \cap Instances)

(* Deserializing a serialized context gives back every serialized count  *)
(* and every duration rounded down to whole milliseconds.                 *)
RoundTripTruncates ==
    \A n \in Sources :
        LET back == Deserialize(Zero, Serialize(ctx[n])) IN
        /\ \A f \in RowFields : back[f] = ctx[n][f]
        /\ \A f \in TimeFields : back[f] = ctx[n][f] - (ctx[n][f] % NsPerMs)
=============================================================================
