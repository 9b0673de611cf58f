---------------------------- MODULE BatchEngine -----------------------------
(***************************************************************************)
(* FlowEngine::process_path (src/src/engine.rs) and the summary that the   *)
(* program prints of it (src/src/bin/main.rs): the capture files of a      *)
(* directory are processed by a pool of threads, or one after the other.   *)
(* process_file is FlowEngine; here it begins, reports flows one at a time *)
(* and ends in Ok, when it has reported them all, or in Err at any point.  *)
(***************************************************************************)
EXTENDS Integers, Sequences, FiniteSetsExt

CONSTANTS
    Files,      \* the files of the directory, numbered in the order of paths
    MaxThreads, \* bound: threads of the configuration
    MaxFlows    \* bound: flows that process_file reports of a file

ASSUME BatchAssumption ==
    /\ Files \subseteq Nat
    /\ IsFiniteSet(Files)
    /\ MaxThreads \in Nat
    /\ MaxFlows \in Nat

VARIABLES
    threads,    \* of the configuration
    input,      \* what the input path is: "directory", "file" or "missing"
    is_pcap,    \* what is_pcap_file says of each file
    readable,   \* whether process_file of it returns Ok
    flows,      \* the flows of each file
    pc,
    listed,     \* pcap_files, sorted
    output,     \* what process_file has made of each file: "none", "open"
                \* while it runs, "complete", or "partial": what there is of
                \* the output when it fails, which may be no file at all
    rows,       \* flows reported so far of each file
    stats,      \* total_flows of each file, as its worker hands it on
    results,
    printed     \* the number printed as "Files processed"

config == <<threads, input, is_pcap, readable, flows>>
vars == <<config, pc, listed, output, rows, stats, results, printed>>

Init ==
    /\ threads \in 0 .. MaxThreads
    /\ input \in {"directory", "file", "missing"}
    /\ is_pcap \in [Files -> BOOLEAN]
    /\ readable \in [Files -> BOOLEAN]
    /\ flows \in [Files -> 0 .. MaxFlows]
    /\ pc = "list"
    /\ listed = <<>>
    /\ output = [f \in Files |-> "none"]
    /\ rows = [f \in Files |-> 0]
    /\ stats = [f \in Files |-> 0]
    /\ results = <<>>
    /\ printed = -1

\* What sort makes of a set of paths.
Sorted(F) ==
    {s \in [1 .. Cardinality(F) -> F] :
        /\ \A f \in F : \E i \in DOMAIN s : s[i] = f
        /\ \A i, j \in DOMAIN s : i < j => s[i] < s[j]}

\* A directory is searched for capture files, a single file is taken as it
\* is; without a capture file the call fails.
List ==
    LET captures == {f \in Files : is_pcap[f]} IN
    /\ pc = "list"
    /\ \/ /\ input = "directory" /\ captures # {}
          /\ listed' \in Sorted(captures)
          /\ pc' = "work"
       \/ /\ input = "file"
          /\ \E f \in Files : listed' = <<f>>
          /\ pc' = "work"
       \/ /\ input = "missing" \/ (input = "directory" /\ captures = {})
          /\ pc' = "failed"
          /\ UNCHANGED listed
    /\ UNCHANGED <<config, output, rows, stats, results, printed>>

Parallel == Len(listed) > 1 /\ threads > 1

Listed == {listed[i] : i \in 1 .. Len(listed)}
InState(s) == {f \in Listed : output[f] = s}

\* A mutated form: the loop takes the files in any order.
MutBegin(f) ==
    /\ pc = "work"
    /\ output[f] = "none"
    /\ Cardinality(InState("open")) < (IF Parallel THEN threads ELSE 1)
    /\ output' = [output EXCEPT ![f] = "open"]
    /\ UNCHANGED <<config, pc, listed, rows, stats, results, printed>>

\* A thread takes up a file: any of them in the pool, and otherwise the
\* first that is left.
Begin(f) ==
    /\ pc = "work"
    /\ output[f] = "none"
    /\ \/ Parallel /\ Cardinality(InState("open")) < threads
       \/ /\ ~Parallel
          /\ InState("open") = {}
          /\ f = Min(InState("none"))
    /\ output' = [output EXCEPT ![f] = "open"]
    /\ UNCHANGED <<config, pc, listed, rows, stats, results, printed>>

\* process_file reports a flow and writes its row.
Report(f) ==
    /\ pc = "work"
    /\ output[f] = "open" /\ rows[f] < flows[f]
    /\ rows' = [rows EXCEPT ![f] = @ + 1]
    /\ UNCHANGED <<config, pc, listed, output, stats, results, printed>>

\* process_file returns Ok with the statistics of the file.
Complete(f) ==
    /\ pc = "work"
    /\ output[f] = "open" /\ readable[f] /\ rows[f] = flows[f]
    /\ output' = [output EXCEPT ![f] = "complete"]
    /\ stats' = [stats EXCEPT ![f] = rows[f]]
    /\ UNCHANGED <<config, pc, listed, rows, results, printed>>

\* Mutated forms: the loop takes the default for an error as well; the file
\* is tried again.
MutFailSwallowed(f) ==
    /\ pc = "work"
    /\ output[f] = "open" /\ ~readable[f]
    /\ output' = [output EXCEPT ![f] = "partial"]
    /\ stats' = [stats EXCEPT ![f] = 0]
    /\ UNCHANGED <<config, pc, listed, rows, results, printed>>
MutFailRetries(f) ==
    /\ pc = "work"
    /\ output[f] = "open" /\ ~readable[f]
    /\ UNCHANGED vars

\* process_file returns Err, after any number of rows.  The pool goes on with
\* default statistics in its place (unwrap_or_default), the loop returns the
\* error.
Fail(f) ==
    /\ pc = "work"
    /\ output[f] = "open" /\ ~readable[f]
    /\ output' = [output EXCEPT ![f] = "partial"]
    /\ \/ Parallel /\ stats' = [stats EXCEPT ![f] = 0] /\ UNCHANGED pc
       \/ ~Parallel /\ pc' = "failed" /\ UNCHANGED stats
    /\ UNCHANGED <<config, listed, rows, results, printed>>

\* No file is left: rayon's collect, and the iterator's, wait for all and
\* keep the order of the list (both external).
Collect ==
    /\ pc = "work"
    /\ InState("none") = {} /\ InState("open") = {}
    /\ results' = [i \in 1 .. Len(listed) |->
                     [file |-> listed[i], total_flows |-> stats[listed[i]]]]
    /\ pc' = "returned"
    /\ UNCHANGED <<config, listed, output, rows, stats, printed>>

PrintSummary ==
    /\ pc = "returned"
    /\ printed' = Len(results)
    /\ pc' = "printed"
    /\ UNCHANGED <<config, listed, output, rows, stats, results>>

Terminated == pc \in {"failed", "printed"} /\ UNCHANGED vars

Work(f) == Begin(f) \/ Report(f) \/ Complete(f) \/ Fail(f)

Next ==
    \/ List
    \/ \E f \in Listed : Work(f)
    \/ Collect
    \/ PrintSummary
    \/ Terminated

\* The pool's threads, and the caller's, are scheduled, and process_file ends
\* (FlowEngine!EveryRunEnds).
Spec ==
    Init /\ [][Next]_vars /\ WF_vars(List \/ Collect \/ PrintSummary)
         /\ \A f \in Files : WF_vars(f \in Listed /\ Work(f))

-----------------------------------------------------------------------------
(* Properties.                                                             *)

\* What the statistics of a call that returns Ok say.  Of a file that can be
\* read they count every flow, and each has its row, whatever failed next to
\* it and in whatever order the workers came to it.  A file that cannot be
\* read is there only from the pool, as one without flows, even when rows of
\* it are in its output; the loop returns Ok only when there is none.
OkCountsAreTrue ==
    pc \in {"returned", "printed"} =>
        /\ Parallel \/ \A f \in Listed : readable[f]
        /\ \A f \in Listed : readable[f] => rows[f] = flows[f]
        /\ \A f \in Listed : \E i \in 1 .. Len(results) : results[i].file = f
        /\ \A i \in 1 .. Len(results) :
              results[i].total_flows = IF readable[results[i].file]
                                       THEN rows[results[i].file] ELSE 0

\* A bad file fails the call only without the pool, and then the call stops
\* at the first of them: the files before it are complete, and no output is
\* made for those after it.
StopsAtFirstFailure ==
    (pc = "failed" /\ Listed # {}) =>
        /\ ~Parallel
        /\ \E i \in 1 .. Len(listed) :
             /\ output[listed[i]] = "partial"
             /\ \A j \in 1 .. i - 1 : output[listed[j]] = "complete"
             /\ \A j \in i + 1 .. Len(listed) : output[listed[j]] = "none"

\* The call returns.
BatchEnds == <>(pc \in {"failed", "printed"})
=============================================================================
