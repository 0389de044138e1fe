-------------------------- MODULE BaseRuntimeStatistics --------------------------
(***************************************************************************)
(* BaseRuntimeStatistics (Flash/Statistics): the execution summary of one  *)
(* executor, folded from the profile infos of its streams or operators     *)
(* and from the connection profiles of its exchange.  The collector that   *)
(* calls these methods is a single thread, so each call is one step.       *)
(* `appended` and `conns` are history: the profile infos and connection    *)
(* profiles passed in so far.                                              *)
(***************************************************************************)
EXTENDS Naturals, Sequences, FiniteSetsExt

CONSTANTS
    Times,       \* execution_time values of a profile info
    Waits,       \* task_wait_time / pipeline_breaker_wait_time values
    ConnBytes,   \* bytes of a connection profile
    MaxAppends   \* bound on the calls

ConnTypes == {"Local", "InnerZoneRemote", "InterZoneRemote"}

OperatorProfiles ==
    [rows : {1}, execution_time : Times, task_wait_time : Waits,
     pipeline_breaker_wait_time : Waits]

Connections == [type : ConnTypes, bytes : ConnBytes]

\* A freshly constructed BaseRuntimeStatistics: every field 0.
Empty ==
    [rows |-> 0, concurrency |-> 0, execution_time_ns |-> 0, queue_wait_time_ns |-> 0,
     pipeline_breaker_wait_time_ns |-> 0,
     inner_zone_receive_bytes |-> 0, inter_zone_receive_bytes |-> 0,
     inner_zone_send_bytes |-> 0, inter_zone_send_bytes |-> 0]

-----------------------------------------------------------------------------
\* Fault: the wait times taken from every profile, as if copied from the
\* stream version, while the time is still the maximum.
AppendOperatorAlwaysWaits(s, p) ==
    [s EXCEPT !.rows = @ + p.rows,
              !.execution_time_ns = Max({@, p.execution_time}),
              !.queue_wait_time_ns = p.task_wait_time,
              !.pipeline_breaker_wait_time_ns = p.pipeline_breaker_wait_time,
              !.concurrency = @ + 1]

\* append(const OperatorProfileInfo &): sums, and the slowest operator's
\* time together with its own wait times.
AppendOperator(s, p) ==
    IF s.execution_time_ns < p.execution_time
    THEN [s EXCEPT !.rows = @ + p.rows,
                   !.execution_time_ns = p.execution_time,
                   !.queue_wait_time_ns = p.task_wait_time,
                   !.pipeline_breaker_wait_time_ns = p.pipeline_breaker_wait_time,
                   !.concurrency = @ + 1]
    ELSE [s EXCEPT !.rows = @ + p.rows, !.concurrency = @ + 1]

\* append(const BlockStreamProfileInfo &): sums, the maximal time.
AppendStream(s, p) ==
    [s EXCEPT !.rows = @ + p.rows,
              !.execution_time_ns = Max({@, p.execution_time}),
              !.concurrency = @ + 1]

\* Fault: the InnerZoneRemote case falls through into InterZoneRemote.
UpdateReceiveFallThrough(s, c) ==
    CASE c.type = "Local" -> s
      [] c.type = "InnerZoneRemote" ->
           [s EXCEPT !.inner_zone_receive_bytes = @ + c.bytes,
                     !.inter_zone_receive_bytes = @ + c.bytes]
      [] c.type = "InterZoneRemote" -> [s EXCEPT !.inter_zone_receive_bytes = @ + c.bytes]

\* updateReceiveConnectionInfo; the `default:` throw is unreachable for
\* the three enumerators.
UpdateReceive(s, c) ==
    CASE c.type = "Local" -> s
      [] c.type = "InnerZoneRemote" -> [s EXCEPT !.inner_zone_receive_bytes = @ + c.bytes]
      [] c.type = "InterZoneRemote" -> [s EXCEPT !.inter_zone_receive_bytes = @ + c.bytes]

\* updateSendConnectionInfo.
UpdateSend(s, c) ==
    CASE c.type = "Local" -> s
      [] c.type = "InnerZoneRemote" -> [s EXCEPT !.inner_zone_send_bytes = @ + c.bytes]
      [] c.type = "InterZoneRemote" -> [s EXCEPT !.inter_zone_send_bytes = @ + c.bytes]

-----------------------------------------------------------------------------
VARIABLES
    stats,     \* the BaseRuntimeStatistics
    kind,      \* "none", "operator" or "stream": which append the executor uses
    appended,  \* the profile infos appended, in order
    conns      \* <<direction, connection profile>> passed in, in order

vars == <<stats, kind, appended, conns>>

Calls == Len(appended) + Len(conns)

Init ==
    /\ stats = Empty
    /\ kind = "none"
    /\ appended = <<>>
    /\ conns = <<>>

\* An executor of the pipeline model reports its operators' profiles.
CollectOperator(p) ==
    /\ Calls < MaxAppends /\ kind \in {"none", "operator"}
    /\ stats' = AppendOperator(stats, p)
    /\ kind' = "operator"
    /\ appended' = Append(appended, p)
    /\ UNCHANGED conns

\* An executor of the stream model reports its streams' profiles.
CollectStream(p) ==
    /\ Calls < MaxAppends /\ kind \in {"none", "stream"}
    /\ stats' = AppendStream(stats, p)
    /\ kind' = "stream"
    /\ appended' = Append(appended, p)
    /\ UNCHANGED conns

CollectReceive(c) ==
    /\ Calls < MaxAppends
    /\ stats' = UpdateReceive(stats, c)
    /\ conns' = Append(conns, <<"receive", c>>)
    /\ UNCHANGED <<kind, appended>>

CollectSend(c) ==
    /\ Calls < MaxAppends
    /\ stats' = UpdateSend(stats, c)
    /\ conns' = Append(conns, <<"send", c>>)
    /\ UNCHANGED <<kind, appended>>

Next ==
    \/ \E p \in OperatorProfiles : CollectOperator(p) \/ CollectStream(p)
    \/ \E c \in Connections : CollectReceive(c) \/ CollectSend(c)

Spec == Init /\ [][Next]_vars

-----------------------------------------------------------------------------
Profiles == {appended[i] : i \in 1..Len(appended)}

\* Bytes of the connections in direction d and zone type t passed in.
ZoneBytes(d, t) ==
    LET idx == {i \in 1..Len(conns) : conns[i][1] = d /\ conns[i][2].type = t}
    IN MapThenSumSet(LAMBDA i : conns[i][2].bytes, idx)

(* The execution summary of a pipeline executor describes one operator:  *)
(* its execution time is the slowest operator's and its queue and        *)
(* pipeline-breaker wait times are that same operator's, never a mix of  *)
(* several operators' numbers, whatever the order of the appends.        *)
SlowestOperatorWaits ==
    kind = "operator" =>
        \E p \in Profiles :
            /\ p.execution_time = stats.execution_time_ns
            /\ p.task_wait_time = stats.queue_wait_time_ns
            /\ p.pipeline_breaker_wait_time = stats.pipeline_breaker_wait_time_ns
            /\ \A q \in Profiles : q.execution_time <= p.execution_time

(* Each zone counter holds exactly the bytes of the remote connections   *)
(* of its direction and zone; local connections are never counted.       *)
ZoneBytesAccounted ==
    /\ stats.inner_zone_receive_bytes = ZoneBytes("receive", "InnerZoneRemote")
    /\ stats.inter_zone_receive_bytes = ZoneBytes("receive", "InterZoneRemote")
    /\ stats.inner_zone_send_bytes = ZoneBytes("send", "InnerZoneRemote")
    /\ stats.inter_zone_send_bytes = ZoneBytes("send", "InterZoneRemote")
=============================================================================
