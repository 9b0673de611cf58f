--------------------------- MODULE SubflowTracker ---------------------------
(***************************************************************************)
(* The per-flow tracker of subflows and of active and idle periods         *)
(* (src/src/flow/subflow.rs), as operators on its record.  Timestamps are  *)
(* integers in an arbitrary unit; OneSecond is the subflow gap of the      *)
(* code, 1.0 s, in that unit.  end_active_idle_time (lines 68-87) has no   *)
(* caller in the repository and is left out.                               *)
(***************************************************************************)
EXTENDS SummaryStats

CONSTANTS
    ActivityTimeout,    \* activity_timeout of the configuration
    OneSecond           \* the 1.0 s gap that separates two subflows

ASSUME TrackerAssumption == ActivityTimeout \in Nat /\ OneSecond \in Nat \ {0}

\* "No packet yet" in sf_last_packet_ts and sf_ac_helper.
Unset == -1

Tracker ==
    [sf_last_packet_ts: Int, sf_count: Nat, sf_ac_helper: Int,
     start_active_time: Int, end_active_time: Int,
     flow_active_stats: Stats, flow_idle_stats: Stats]

NewTracker ==
    [sf_last_packet_ts |-> Unset, sf_count |-> 0, sf_ac_helper |-> Unset,
     start_active_time |-> 0, end_active_time |-> 0,
     flow_active_stats |-> NewStats, flow_idle_stats |-> NewStats]

\* SubflowTracker::first_packet
TrackFirst(t, ts) ==
    [t EXCEPT !.sf_last_packet_ts = ts, !.sf_ac_helper = ts,
              !.start_active_time = ts, !.end_active_time = ts]

\* The active period that an idle period ends; an empty one is not logged.
LogActive(t) ==
    LET span == t.end_active_time - t.start_active_time
    IN  IF span > 0 THEN AddValue(t.flow_active_stats, span)
                    ELSE t.flow_active_stats

\* A mutated form: the active period's end is not moved past an idle period.
MutUpdateActiveIdle(t, ts) ==
    IF ts - t.end_active_time > ActivityTimeout
    THEN [t EXCEPT !.flow_active_stats = LogActive(t),
                   !.flow_idle_stats = AddValue(@, ts - t.end_active_time),
                   !.start_active_time = ts]
    ELSE [t EXCEPT !.end_active_time = ts]

\* A mutated form: the next active period starts where the last one ended.
MutKeepsActiveStart(t, ts) ==
    IF ts - t.end_active_time > ActivityTimeout
    THEN [t EXCEPT !.flow_active_stats = LogActive(t),
                   !.flow_idle_stats = AddValue(@, ts - t.end_active_time),
                   !.start_active_time = t.end_active_time,
                   !.end_active_time = ts]
    ELSE [t EXCEPT !.end_active_time = ts]

\* SubflowTracker::update_active_idle_time
UpdateActiveIdle(t, ts) ==
    IF ts - t.end_active_time > ActivityTimeout
    THEN [t EXCEPT !.flow_active_stats = LogActive(t),
                   !.flow_idle_stats = AddValue(@, ts - t.end_active_time),
                   !.start_active_time = ts, !.end_active_time = ts]
    ELSE [t EXCEPT !.end_active_time = ts]

\* A gap of more than a second starts a new subflow.
StartSubflow(t, ts) ==
    [UpdateActiveIdle([t EXCEPT !.sf_count = @ + 1], ts)
        EXCEPT !.sf_ac_helper = ts, !.sf_last_packet_ts = ts]

\* A mutated form: the last packet's time moves only when a subflow starts.
MutUpdateSubflow(t, ts) ==
    IF t.sf_last_packet_ts = Unset THEN TrackFirst(t, ts)
    ELSE IF ts - t.sf_last_packet_ts > OneSecond THEN StartSubflow(t, ts)
    ELSE t

\* SubflowTracker::update_subflow
UpdateSubflow(t, ts) ==
    IF t.sf_last_packet_ts = Unset THEN TrackFirst(t, ts)
    ELSE IF ts - t.sf_last_packet_ts > OneSecond THEN StartSubflow(t, ts)
    ELSE [t EXCEPT !.sf_last_packet_ts = ts]
=============================================================================
