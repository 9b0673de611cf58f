---------------------------- MODULE BulkTracker -----------------------------
(***************************************************************************)
(* The bulk tracker of one direction of a flow (src/src/flow/bulk.rs), as  *)
(* operators on its record.  The helpers describe the run of payload       *)
(* packets in progress; it counts as a bulk from its fourth packet on.     *)
(***************************************************************************)
EXTENDS Integers

CONSTANT OneSecond      \* the 1.0 s gap that ends a run, in timestamp units

ASSUME BulkAssumption == OneSecond \in Nat \ {0}

Bulk ==
    [duration: Int, packet_count: Nat, size_total: Nat, state_count: Nat,
     packet_count_helper: Nat, start_helper: Int, size_helper: Nat,
     last_bulk_ts: Int]

NewBulk ==
    [duration |-> 0, packet_count |-> 0, size_total |-> 0, state_count |-> 0,
     packet_count_helper |-> 0, start_helper |-> 0, size_helper |-> 0,
     last_bulk_ts |-> 0]

\* start_helper = 0 stands for "no run in progress".  The other direction's
\* last payload packet ends the run if it came after its start.
MutInterrupt(b, other) == b
Interrupt(b, other) ==
    IF other > b.start_helper THEN [b EXCEPT !.start_helper = 0] ELSE b

StartRun(b, ts, bytes) ==
    [b EXCEPT !.start_helper = ts, !.last_bulk_ts = ts,
              !.packet_count_helper = 1, !.size_helper = bytes]

\* A mutated form: the packets before the fifth are not added to the total.
MutExtendRun(b, ts, bytes) ==
    LET n == b.packet_count_helper + 1
        r == [b EXCEPT !.packet_count_helper = n, !.size_helper = @ + bytes,
                       !.last_bulk_ts = ts]
    IN  CASE n = 4 -> [r EXCEPT !.state_count = @ + 1]
          [] n > 4 -> [r EXCEPT !.packet_count = @ + 1,
                                !.size_total = @ + bytes,
                                !.duration = @ + (ts - b.last_bulk_ts)]
          [] OTHER -> r

\* The fourth packet commits the run, a later one adds itself.
ExtendRun(b, ts, bytes) ==
    LET n == b.packet_count_helper + 1
        r == [b EXCEPT !.packet_count_helper = n, !.size_helper = @ + bytes,
                       !.last_bulk_ts = ts]
    IN  CASE n = 4 -> [r EXCEPT !.state_count = @ + 1,
                                !.packet_count = @ + n,
                                !.size_total = @ + r.size_helper,
                                !.duration = @ + (ts - b.start_helper)]
          [] n > 4 -> [r EXCEPT !.packet_count = @ + 1,
                                !.size_total = @ + bytes,
                                !.duration = @ + (ts - b.last_bulk_ts)]
          [] OTHER -> r

\* BulkTracker::update
Update(b, ts, bytes, other) ==
    LET c == Interrupt(b, other) IN
    IF bytes = 0 THEN c
    ELSE IF c.start_helper = 0 \/ ts - c.last_bulk_ts > OneSecond
         THEN StartRun(c, ts, bytes)
         ELSE ExtendRun(c, ts, bytes)

\* avg_bytes_per_bulk and avg_packets_per_bulk, integer quotients.
AvgBytesPerBulk(b) == IF b.state_count = 0 THEN 0 ELSE b.size_total \div b.state_count
AvgPacketsPerBulk(b) == IF b.state_count = 0 THEN 0 ELSE b.packet_count \div b.state_count
=============================================================================
