----------------------------- MODULE FlowEngine -----------------------------
(***************************************************************************)
(* FlowEngine::process_file and process_live (src/src/engine.rs): a loop   *)
(* that feeds the packets of a capture to a flow generator and writes the  *)
(* flows it reports, run again and again on one output file.               *)
(*                                                                         *)
(* The flow table is FlowGenerator itself and the output FlowWriter; both  *)
(* live in one thread.  Around it the capture may end or fail, the disk    *)
(* may fail, the user may stop a live capture and the process may be       *)
(* killed at any point.                                                    *)
(***************************************************************************)
EXTENDS FlowGenerator, FlowWriter

CONSTANTS
    Modes,      \* process_file (FALSE), process_live (TRUE) or both
    Faults,     \* what may go wrong: any of "open", "read", "write", "kill"
    MaxRuns     \* bound: runs of the program

ASSUME EngineAssumption ==
    /\ Modes \subseteq BOOLEAN
    /\ Faults \subseteq {"open", "read", "write", "kill"}
    /\ MaxRuns \in Nat

VARIABLES
    live,           \* process_live rather than process_file
    pc,
    pending,        \* flows taken from the generator and not yet written
    running,        \* running_flag of a live capture
    run,            \* history: number of the run
    broken          \* history: kills and failed writes so far

generator == <<vars>>
engine == <<pc, pending, running, run, broken>>
options == <<format, live>>
allvars == <<generator, writer, engine, options>>

\* A run ends well ("done"), because its capture could not be opened
\* ("unopened") or read on ("failed"), because its output could not be made or
\* written ("spoilt"), or by a kill.
Ended == {"idle", "done", "unopened", "failed", "spoilt", "killed"}
Active == {"read", "capture", "drain", "write", "final"}

EngineInit ==
    /\ Init
    /\ InitWriter
    /\ live \in Modes
    /\ pc = "idle"
    /\ pending = {}
    /\ running = FALSE
    /\ run = 0
    /\ broken = 0

-----------------------------------------------------------------------------
(* The set-up of a run.                                                    *)

\* FlowGenerator::new and set_min_packets_per_flow.
FreshGenerator(n) ==
    /\ current_flows' = [k \in {} |-> {}]
    /\ finished_flows' = {}
    /\ listener' = FALSE
    /\ finished_flow_count' = 0
    /\ min_packets_per_flow' = n
    /\ log' = <<>>
    /\ handed' = {}
    /\ dropped' = {}

Start ==
    /\ pc \in Ended
    /\ run < MaxRuns
    /\ \E n \in MinChoices : FreshGenerator(n)
    /\ Create
    /\ pc' = "read"
    /\ running' = TRUE
    /\ run' = run + 1
    /\ UNCHANGED <<pending, broken>>

\* The capture cannot be opened: no writer has been made yet.
OpenFails ==
    /\ "open" \in Faults
    /\ pc \in Ended
    /\ run < MaxRuns
    /\ pc' = "unopened"
    /\ run' = run + 1
    /\ FreshGenerator(2)
    /\ UNCHANGED <<writer, pending, running, broken>>

\* "?" on the writer's constructor, or a kill while it works.
CreateFails ==
    /\ pc \in Ended
    /\ run < MaxRuns
    /\ \/ "write" \in Faults /\ pc' = "spoilt"
       \/ "kill" \in Faults /\ pc' = "killed"
    /\ \E n \in MinChoices : FreshGenerator(n)
    /\ FailCreate
    /\ run' = run + 1
    /\ broken' = broken + 1
    /\ UNCHANGED <<pending, running>>

-----------------------------------------------------------------------------
(* The loop.                                                               *)

\* A mutated form: the flag is not looked at.
MutCheckFlag ==
    /\ live
    /\ pc = "read"
    /\ pc' = "capture"
    /\ UNCHANGED <<generator, writer, pending, running, run, broken>>

\* A live capture looks at the flag before each packet, and then waits.
CheckFlag ==
    /\ live
    /\ pc = "read" /\ running
    /\ pc' = "capture"
    /\ UNCHANGED <<generator, writer, pending, running, run, broken>>

\* The state in which the next packet is taken.
Reading == IF live THEN "capture" ELSE "read"

TakePacket ==
    /\ pc = Reading
    /\ \E p \in Packets : AddPacket(p)
    /\ pc' = "drain"
    /\ UNCHANGED <<writer, pending, running, run, broken>>

\* The capture timed out or the packet is not one the parser takes.
NoPacket ==
    /\ live
    /\ pc = "capture"
    /\ pc' = "read"
    /\ UNCHANGED <<generator, writer, pending, running, run, broken>>

\* A mutated form: the flows taken from the generator are forgotten.
MutDrain ==
    /\ pc = "drain"
    /\ \/ GetFinishedFlows
       \/ finished_flows = {} /\ UNCHANGED generator
    /\ pending' = {}
    /\ pc' = "write"
    /\ UNCHANGED <<writer, running, run, broken>>
Drain ==
    /\ pc = "drain"
    /\ \/ GetFinishedFlows
       \/ finished_flows = {} /\ UNCHANGED generator
    /\ pending' = finished_flows
    /\ pc' = "write"
    /\ UNCHANGED <<writer, running, run, broken>>

Row(f) == <<"row", run, f.members>>

\* One flow is written; a live capture flushes after each.
Write(f) ==
    /\ pc = "write"
    /\ \/ live /\ WriteAndFlush(Row(f))
       \/ ~live /\ WriteFlow(Row(f))
    /\ pending' = pending \ {f}
    /\ UNCHANGED <<generator, pc, running, run, broken>>

Written ==
    /\ pc = "write" /\ pending = {}
    /\ pc' = "read"
    /\ UNCHANGED <<generator, writer, pending, running, run, broken>>

-----------------------------------------------------------------------------
(* The end of a run.                                                       *)

\* Mutated forms: the flows still open are not reported; or the end of a file
\* is not seen before the flag is cleared.
MutLastPackets ==
    /\ pc = "read"
    /\ live => ~running
    /\ UNCHANGED generator
    /\ pending' = {}
    /\ pc' = "final"
    /\ UNCHANGED <<writer, running, run, broken>>
MutLastPacketsNever ==
    /\ pc = "read"
    /\ ~running
    /\ \/ FinishAllFlows
       \/ DOMAIN current_flows = {} /\ UNCHANGED generator
    /\ pending' = handed' \ handed
    /\ pc' = "final"
    /\ UNCHANGED <<writer, running, run, broken>>

\* The capture has ended, or the user has stopped it.
LastPackets ==
    /\ pc = "read"
    /\ live => ~running
    /\ \/ FinishAllFlows
       \/ DOMAIN current_flows = {} /\ UNCHANGED generator
    /\ pending' = handed' \ handed
    /\ pc' = "final"
    /\ UNCHANGED <<writer, running, run, broken>>

WriteLast(f) ==
    /\ pc = "final"
    /\ WriteFlow(Row(f))
    /\ pending' = pending \ {f}
    /\ UNCHANGED <<generator, pc, running, run, broken>>

Succeed ==
    /\ pc = "final" /\ pending = {}
    /\ Finish
    /\ pc' = "done"
    /\ UNCHANGED <<generator, pending, running, run, broken>>

\* "?" on next_packet: the function returns, its locals are dropped.  A
\* truncated record of a file, or a device that went away.
ReadFails ==
    /\ "read" \in Faults
    /\ pc = Reading
    /\ Finish
    /\ pc' = "failed"
    /\ UNCHANGED <<generator, pending, running, run, broken>>

\* The same, and the destructor's write fails, which is ignored.
DropFails ==
    /\ {"read", "write"} \subseteq Faults
    /\ pc = Reading
    /\ CutFinish
    /\ pc' = "spoilt"
    /\ broken' = broken + 1
    /\ UNCHANGED <<generator, pending, running, run>>

\* A mutated form: the error is not looked at and the loop goes on.
MutWriteFails(f) ==
    /\ "write" \in Faults
    /\ pc \in {"write", "final"}
    /\ FailWrite(Row(f))
    /\ pending' = pending \ {f}
    /\ broken' = broken + 1
    /\ UNCHANGED <<generator, pc, running, run>>

\* "?" on write_flow.
WriteFails(f) ==
    /\ "write" \in Faults
    /\ pc \in {"write", "final"}
    /\ FailWrite(Row(f))
    /\ pc' = "spoilt"
    /\ pending' = {}
    /\ broken' = broken + 1
    /\ UNCHANGED <<generator, running, run>>

\* "?" on the last flush or close.
FinishFails ==
    /\ "write" \in Faults
    /\ pc = "final" /\ pending = {}
    /\ FailFinish
    /\ pc' = "spoilt"
    /\ broken' = broken + 1
    /\ UNCHANGED <<generator, pending, running, run>>

\* Between two writes to the file or in one of them.
Kill ==
    /\ "kill" \in Faults
    /\ pc \in Active
    /\ \/ LoseBuffer
       \/ \E f \in pending : CutWrite(Row(f))
       \/ pc = "final" /\ pending = {} /\ CutFinish
    /\ pc' = "killed"
    /\ pending' = {}
    /\ broken' = broken + 1
    /\ UNCHANGED <<generator, running, run>>

\* Ctrl-C: the handler's thread stores the flag at any moment.
Stop ==
    /\ live
    /\ pc \in Active /\ running
    /\ running' = FALSE
    /\ UNCHANGED <<generator, writer, pc, pending, run, broken>>

\* The program is not started again.
Terminated ==
    /\ pc \in Ended
    /\ run = MaxRuns
    /\ UNCHANGED allvars

-----------------------------------------------------------------------------
\* What the thread does by itself.
Work ==
    /\ \/ CheckFlag \/ TakePacket \/ NoPacket \/ Drain
       \/ \E f \in pending : Write(f) \/ WriteLast(f)
       \/ Written \/ LastPackets \/ Succeed
    /\ UNCHANGED options

\* What happens to it.
Happening ==
    /\ \/ Start \/ OpenFails \/ CreateFails
       \/ ReadFails \/ DropFails
       \/ \E f \in pending : WriteFails(f)
       \/ FinishFails
       \/ Kill
       \/ Stop
    /\ UNCHANGED options

EngineNext == Work \/ Happening \/ Terminated

\* The thread is scheduled, and the calls into the capture return: those on a
\* file always, those on a device within the read timeout it is opened with.
EngineSpec == EngineInit /\ [][EngineNext]_allvars /\ WF_allvars(Work)

-----------------------------------------------------------------------------
(* Properties.                                                             *)

CurrentRows == {i \in 1 .. Len(file) : IsRow(file[i]) /\ file[i][2] = run}

\* Each flow that was reported is one row, and each row one of them.
OneRowEach ==
    /\ {file[i] : i \in CurrentRows} = {Row(f) : f \in handed}
    /\ Cardinality(CurrentRows) = Cardinality(handed)

\* The rows of this run are lines of their own.  Only the first of them may
\* not be: a CSV file is appended to as it is, and when an earlier run was cut
\* off inside a line, that row continues the line.
RowsAreLines ==
    \A i \in CurrentRows :
        /\ i < Len(file) /\ file[i + 1] = NL
        /\ \/ i = 1 \/ file[i - 1] = NL
           \/ /\ format = "csv" /\ broken > 0
              /\ \A j \in CurrentRows : i <= j

\* A run that returns Ok has written each of the flows it reports to have
\* finished, once, and has left no packet out: every packet read is in one
\* of the rows or in a flow that was too short.  In a CSV or JSON Lines file
\* each row can be read as a line, but for the first one behind a line that a
\* kill or a failed write of an earlier run cut off.
SuccessIsComplete ==
    pc = "done" =>
        /\ OneRowEach
        /\ format # "json" => RowsAreLines
        /\ finished_flow_count = Cardinality(CurrentRows)
        /\ (UNION {file[i][3] : i \in CurrentRows})
             \cup (UNION {f.members : f \in dropped}) = 1 .. Len(log)

\* A run that fails on its input has still written each of the flows that
\* were complete by then, although its only cleanup is the destructors (and
\* the write they make does not fail too, which is "spoilt").
FailureKeepsReported ==
    pc = "failed" => OneRowEach

\* A live capture that waits for packets has every reported flow in the file
\* and not in the buffer: a kill then costs it the open flows only.
LiveRowsAreDurable ==
    (live /\ pc \in {"read", "capture"}) => OneRowEach

\* A CSV file has one header, its first line, however often the program is
\* killed, fails or runs again on the file.  It is whole unless a kill or a
\* failed write cut the header's own write: such a file never gets another.
HeaderFirstOnly ==
    (format = "csv" /\ file # <<>>) =>
        /\ \/ file[1] = Header /\ Len(file) > 1 /\ file[2] = NL
           \/ broken > 0 /\ file[1] \in {Header, TornHeader}
        /\ \A i \in 2 .. Len(file) : file[i] \notin {Header, TornHeader}

\* Lines that are not a header or one row, or have no end.  The last line may
\* still get its end while a run goes on.
SpoiltLines ==
    {i \in 1 .. Len(file) :
        /\ i = 1 \/ file[i - 1] = NL
        /\ ~ /\ file[i] = Header \/ IsRow(file[i])
             /\ IF i < Len(file) THEN file[i + 1] = NL ELSE pc \in Active}

\* A kill or a failed write spoils at most one line of a CSV or JSON Lines
\* file: the line it cuts off, with the row that a later run appends to that
\* line.  Nothing else does.
LinesStayWhole == format # "json" => Cardinality(SpoiltLines) <= broken

\* What is in a CSV file stays there.
CsvOnlyGrows ==
    [][ format = "csv" =>
            /\ Len(file) <= Len(file')
            /\ SubSeq(file', 1, Len(file)) = file ]_file

\* A JSON file is an array with a comma between any two flows when the run
\* has returned Ok, whatever earlier runs left in the file, and also when it
\* has ended early on an error of its input.
JsonWellFormed ==
    (format = "json" /\ pc \in {"done", "failed"}) =>
        LET n == Len(file) IN
        /\ n >= 2
        /\ n > 2 => n % 2 = 1
        /\ file[1] = Open
        /\ file[n] = Close
        /\ \A i \in 2 .. n - 1 : IF i % 2 = 0 THEN IsRow(file[i])
                                              ELSE file[i] = Comma

Sink == INSTANCE FlowSink WITH
    status <- CASE pc \in Active -> "running"
                [] pc = "done" -> "ok"
                [] pc \in {"unopened", "spoilt"} -> "failed"
                [] OTHER -> pc,
    read <- Len(log),
    saved <- {file[i][3] : i \in CurrentRows},
    short <- Members(dropped),
    minimum <- min_packets_per_flow

\* To the reader of the output file, the flow table, its timeouts, the buffer
\* and the faults look like FlowSink: rows of a run are never taken back or
\* doubled nor share a packet, whatever fails, and Ok means that every packet
\* is in a row or in a flow that was too short for one.
EngineImplementsSink == Sink!Spec

\* After Ctrl-C a live capture comes to its end, with what is open reported.
StopIsHeeded == (pc \in Active /\ ~running) ~> (pc \in Ended)

\* A capture file is processed to its end.
EveryRunEnds == (~live /\ pc \in Active) ~> (pc \in Ended)
=============================================================================
