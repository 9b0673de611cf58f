------------------------- MODULE BatchEngine_proofs -------------------------
(***************************************************************************)
(* Theorems about process_path, for any set of capture files, any number   *)
(* of threads, any number of flows and any outcome of each file.           *)
(***************************************************************************)
EXTENDS BatchEngine, SumLemmas, TLAPS

-----------------------------------------------------------------------------
(* The inductive invariant.                                                *)

TypeInv ==
    /\ threads \in Nat
    /\ readable \in [Files -> BOOLEAN]
    /\ pc \in {"list", "work", "returned", "printed", "failed"}
    /\ listed \in Seq(Files)
    /\ output \in [Files -> {"none", "open", "complete", "partial"}]
    /\ flows \in [Files -> Nat]
    /\ rows \in [Files -> Nat]
    /\ stats \in [Files -> Nat]

\* The list is in the order of the paths.
InOrder == \A i, j \in 1 .. Len(listed) : i < j => listed[i] < listed[j]

\* Nothing is begun before the list is made, and a call that fails without
\* a capture file has none.
NotBegun == pc = "list" => (listed = <<>> /\ \A f \in Files : output[f] = "none")

\* What a finished file left is as process_file returned.
OutcomesTrue ==
    \A f \in Files : /\ output[f] = "complete" => readable[f]
                     /\ output[f] = "partial" => ~readable[f]

\* The loop takes a file only when all before it are complete, and goes on
\* only as long as none has failed.
LoopInOrder ==
    ~Parallel =>
        /\ \A i, j \in 1 .. Len(listed) :
              (i < j /\ output[listed[j]] # "none")
                  => output[listed[i]] = "complete"
        /\ pc = "work" => \A f \in Listed : output[f] # "partial"

\* A call that failed with a list did so at one of its files.
FailedAtFile ==
    (pc = "failed" /\ Listed # {}) =>
        ~Parallel /\ \E f \in Listed : output[f] = "partial"

\* A finished file has all its rows in its output and in what its worker
\* hands on; of any other nothing is handed on.
Delivered ==
    \A f \in Files :
        IF output[f] = "complete" THEN rows[f] = flows[f] /\ stats[f] = rows[f]
                                  ELSE stats[f] = 0

\* A call that returned has an entry for each file, and all are through;
\* without the pool none of them failed.
ReturnedAll ==
    pc \in {"returned", "printed"} =>
        /\ results = [i \in 1 .. Len(listed) |->
                        [file |-> listed[i], total_flows |-> stats[listed[i]]]]
        /\ \A f \in Listed : output[f] \in {"complete", "partial"}
        /\ Parallel \/ \A f \in Listed : output[f] # "partial"

BatchInv ==
    /\ TypeInv /\ InOrder /\ NotBegun /\ OutcomesTrue /\ Delivered
    /\ LoopInOrder /\ FailedAtFile /\ ReturnedAll

-----------------------------------------------------------------------------
(* It is inductive.                                                        *)

LEMMA ListedFacts ==
    ASSUME listed \in Seq(Files)
    PROVE  /\ Len(listed) \in Nat
           /\ Listed \subseteq Files
           /\ \A i \in 1 .. Len(listed) : listed[i] \in Listed
           /\ \A f \in Listed : \E i \in 1 .. Len(listed) : listed[i] = f
BY DEF Listed

LEMMA InvInit == Init => BatchInv
<1> SUFFICES ASSUME Init PROVE BatchInv
  OBVIOUS
<1>1. Listed = {}
  BY DEF Init, Listed
<1>2. TypeInv
  BY BatchAssumption DEF Init, TypeInv
<1>3. QED
  BY <1>1, <1>2 DEF Init, BatchInv, InOrder, NotBegun, OutcomesTrue, Delivered,
     LoopInOrder, FailedAtFile, ReturnedAll

\* Sorting a set of paths gives a list of them in order.
LEMMA SortedFacts ==
    ASSUME NEW F \in SUBSET Files, NEW s \in Sorted(F)
    PROVE  /\ s \in Seq(Files)
           /\ \A i, j \in 1 .. Len(s) : i < j => s[i] < s[j]
           /\ Len(s) = 0 => F = {}
<1>1. IsFiniteSet(F)
  BY BatchAssumption, FS_Subset
<1>2. Cardinality(F) \in Nat
  BY <1>1, FS_CardinalityType
<1>3. s \in Seq(Files) /\ Len(s) = Cardinality(F) /\ DOMAIN s = 1 .. Len(s)
  BY <1>2 DEF Sorted
<1>4. QED
  BY <1>3 DEF Sorted

LEMMA ListKeeps == BatchInv /\ List => BatchInv'
<1> SUFFICES ASSUME BatchInv, List PROVE BatchInv'
  OBVIOUS
<1>1. /\ pc = "list" /\ listed = <<>> /\ (\A f \in Files : output[f] = "none")
      /\ UNCHANGED <<threads, readable, output, flows, rows, stats>>
  BY DEF List, BatchInv, NotBegun, config
<1>2. /\ listed' \in Seq(Files)
      /\ \A i, j \in 1 .. Len(listed') : i < j => listed'[i] < listed'[j]
      /\ \/ pc' = "work"
         \/ pc' = "failed" /\ listed' = <<>>
  <2>1. CASE input = "directory" /\ pc' = "work"
    <3>1. {f \in Files : is_pcap[f]} \in SUBSET Files
      OBVIOUS
    <3>2. listed' \in Sorted({f \in Files : is_pcap[f]})
      BY <2>1 DEF List
    <3>3. QED
      BY <2>1, <3>1, <3>2, SortedFacts
  <2>2. CASE input = "file" /\ \E f \in Files : listed' = <<f>> /\ pc' = "work"
    BY <2>2
  <2>3. CASE pc' = "failed" /\ listed' = listed
    BY <1>1, <2>3
  <2>4. QED
    BY <2>1, <2>2, <2>3 DEF List
<1>3. Listed' \subseteq Files /\ (pc' = "failed" => Listed' = {})
  BY <1>2 DEF Listed
<1>4. TypeInv' /\ InOrder'
  BY <1>1, <1>2 DEF BatchInv, TypeInv, InOrder
<1>5. NotBegun' /\ OutcomesTrue' /\ FailedAtFile' /\ ReturnedAll'
  BY <1>1, <1>2, <1>3 DEF NotBegun, OutcomesTrue, FailedAtFile, ReturnedAll
<1>7. Delivered'
  BY <1>1 DEF BatchInv, Delivered
<1>6. LoopInOrder'
  <2>1. \A i \in 1 .. Len(listed') : output'[listed'[i]] = "none"
    BY <1>1, <1>2
  <2>2. QED
    BY <1>1, <1>3, <2>1 DEF LoopInOrder
<1>8. QED
  BY <1>4, <1>5, <1>6, <1>7 DEF BatchInv

\* A step on one file leaves the list and the kind of run alone.
Touches(f, s) ==
    /\ f \in Listed
    /\ pc = "work"
    /\ output' = [output EXCEPT ![f] = s]
    /\ UNCHANGED <<threads, readable, listed, flows, rows>>

LEMMA TouchesFacts ==
    ASSUME BatchInv, NEW f, NEW s \in {"open", "complete", "partial"},
           Touches(f, s), pc' \in {"work", "failed"},
           s = "complete" => (readable[f] /\ rows[f] = flows[f]),
           s = "partial" => ~readable[f],
           output[f] \in {"none", "open"},
           stats' = [stats EXCEPT ![f] = IF s = "complete" THEN rows[f] ELSE 0]
    PROVE  /\ TypeInv' /\ InOrder' /\ NotBegun' /\ OutcomesTrue' /\ ReturnedAll'
           /\ Delivered'
           /\ f \in Files
           /\ Listed' = Listed /\ Parallel' = Parallel
           /\ output'[f] = s
           /\ \A g \in Files : g # f => output'[g] = output[g]
<1>1. f \in Files /\ listed' = listed
  BY ListedFacts DEF BatchInv, TypeInv, Touches
<1>2. Listed' = Listed /\ Parallel' = Parallel
  BY DEF Touches, Listed, Parallel
<1>3. output'[f] = s /\ \A g \in Files : g # f => output'[g] = output[g]
  BY <1>1 DEF Touches, BatchInv, TypeInv
<1>4. TypeInv' /\ InOrder'
  BY <1>1 DEF Touches, BatchInv, TypeInv, InOrder
<1>5. NotBegun' /\ ReturnedAll'
  BY DEF NotBegun, ReturnedAll
<1>6. OutcomesTrue'
  BY <1>3 DEF Touches, BatchInv, OutcomesTrue
<1>7. Delivered'
  <2> SUFFICES ASSUME NEW g \in Files
               PROVE  IF output'[g] = "complete"
                      THEN rows'[g] = flows'[g] /\ stats'[g] = rows'[g]
                      ELSE stats'[g] = 0
    BY DEF Delivered
  <2>1. CASE g = f
    BY <1>1, <1>3, <2>1 DEF Touches, BatchInv, TypeInv
  <2>2. CASE g # f
    BY <1>1, <1>3, <2>2 DEF Touches, BatchInv, TypeInv, Delivered
  <2>3. QED
    BY <2>1, <2>2
<1>8. QED
  BY <1>1, <1>2, <1>3, <1>4, <1>5, <1>6, <1>7

LEMMA BeginKeeps ==
    ASSUME BatchInv, NEW f \in Listed, Begin(f)
    PROVE  BatchInv'
<1>1. Touches(f, "open") /\ pc' = "work" /\ output[f] = "none"
  BY DEF Begin, Touches, config
<1>1a. stats' = [stats EXCEPT ![f] = 0]
  BY <1>1, ListedFacts DEF Begin, BatchInv, TypeInv, Delivered
<1>2. /\ TypeInv' /\ InOrder' /\ NotBegun' /\ OutcomesTrue' /\ ReturnedAll'
      /\ Delivered'
      /\ f \in Files
      /\ Listed' = Listed /\ Parallel' = Parallel
      /\ output'[f] = "open"
      /\ \A g \in Files : g # f => output'[g] = output[g]
  BY <1>1a, <1>1, TouchesFacts
<1>3. FailedAtFile'
  BY <1>1 DEF FailedAtFile
<1>4. LoopInOrder'
  <2> SUFFICES ASSUME ~Parallel PROVE LoopInOrder'
    BY <1>2 DEF LoopInOrder
  <2>1. /\ InState("open") = {} /\ f = Min(InState("none"))
        /\ \A g \in Listed : output[g] # "partial"
    BY <1>1 DEF Begin, BatchInv, LoopInOrder
  \* No file before f is still to be taken.
  <2>2. \A g \in InState("none") : f <= g
    <3>1. InState("none") \subseteq Nat /\ f \in InState("none")
      BY <1>1, BatchAssumption, ListedFacts DEF InState, BatchInv, TypeInv
    <3>2. PICK m \in InState("none") : \A g \in InState("none") : m <= g
      BY <3>1, LeastElement
    <3>3. Min(InState("none")) \in InState("none")
          /\ \A g \in InState("none") : Min(InState("none")) <= g
      BY <3>2 DEF Min
    <3>4. QED
      BY <2>1, <3>3
  <2>3. PICK k \in 1 .. Len(listed) : listed[k] = f
    BY ListedFacts DEF BatchInv, TypeInv
  <2>4. \A i \in 1 .. Len(listed) : i < k => output[listed[i]] = "complete"
    <3> SUFFICES ASSUME NEW i \in 1 .. Len(listed), i < k
                 PROVE  output[listed[i]] = "complete"
      OBVIOUS
    <3>1. listed[i] \in Listed /\ listed[i] \in Files /\ listed[i] < f
      BY <2>3, ListedFacts DEF BatchInv, TypeInv, InOrder
    <3>2. listed[i] \in Nat /\ f \in Nat
      BY <1>2, <3>1, BatchAssumption
    <3>3. output[listed[i]] # "none"
      BY <2>2, <3>1, <3>2 DEF InState
    <3>4. output[listed[i]] # "open" /\ output[listed[i]] # "partial"
      BY <2>1, <3>1 DEF InState
    <3>5. QED
      BY <3>1, <3>3, <3>4 DEF BatchInv, TypeInv
  <2>5. ASSUME NEW i \in 1 .. Len(listed), NEW j \in 1 .. Len(listed),
               i < j, output'[listed[j]] # "none"
        PROVE  output'[listed[i]] = "complete"
    <3>1. listed[i] \in Files /\ listed[j] \in Files /\ Len(listed) \in Nat
      BY ListedFacts DEF BatchInv, TypeInv
    <3>2. output[listed[i]] = "complete"
      <4>1. CASE listed[j] = f
        \* Paths are different, so j is k.
        <5>1. listed[k] \in Nat /\ listed[j] \in Nat
          BY <3>1, <2>3, <1>2, BatchAssumption
        <5>2. j = k
          BY <2>3, <4>1, <5>1, <3>1 DEF BatchInv, InOrder
        <5>3. QED
          BY <2>4, <2>5, <5>2
      <4>2. CASE listed[j] # f
        <5>1. output[listed[j]] # "none"
          BY <1>2, <2>5, <3>1, <4>2
        <5>2. QED
          BY <2>5, <5>1 DEF BatchInv, LoopInOrder
      <4>3. QED
        BY <4>1, <4>2
    <3>3. listed[i] # f
      BY <1>1, <3>2
    <3>4. QED
      BY <1>2, <3>1, <3>2, <3>3
  <2>6. \A g \in Listed : output'[g] # "partial"
    BY <1>2, <2>1, ListedFacts DEF BatchInv, TypeInv
  <2>7. QED
    BY <1>1, <1>2, <2>5, <2>6 DEF LoopInOrder, Touches
<1>5. QED
  BY <1>2, <1>3, <1>4 DEF BatchInv

LEMMA ReportKeeps ==
    ASSUME BatchInv, NEW f \in Listed, Report(f)
    PROVE  BatchInv'
<1>1. /\ pc = "work" /\ output[f] = "open" /\ f \in Files
      /\ rows' = [rows EXCEPT ![f] = @ + 1]
      /\ UNCHANGED <<threads, readable, flows, pc, listed, output, stats, results>>
  BY ListedFacts DEF Report, config, BatchInv, TypeInv
<1>2. Listed' = Listed /\ Parallel' = Parallel
  BY <1>1 DEF Listed, Parallel
<1>3. TypeInv' /\ InOrder' /\ NotBegun' /\ OutcomesTrue'
  BY <1>1 DEF BatchInv, TypeInv, InOrder, NotBegun, OutcomesTrue
<1>4. Delivered'
  BY <1>1 DEF BatchInv, TypeInv, Delivered
<1>5. LoopInOrder' /\ FailedAtFile' /\ ReturnedAll'
  BY <1>1, <1>2 DEF BatchInv, LoopInOrder, FailedAtFile, ReturnedAll
<1>6. QED
  BY <1>3, <1>4, <1>5 DEF BatchInv

\* A file that ends was open, so the loop had none behind it.
LEMMA EndKeepsOrder ==
    ASSUME BatchInv, NEW f \in Listed, NEW s \in {"complete", "partial"},
           Touches(f, s), output[f] = "open",
           Listed' = Listed, Parallel' = Parallel, output'[f] = s,
           \A g \in Files : g # f => output'[g] = output[g], ~Parallel
    PROVE  \A i, j \in 1 .. Len(listed') :
              (i < j /\ output'[listed'[j]] # "none")
                  => output'[listed'[i]] = "complete"
<1> SUFFICES ASSUME NEW i \in 1 .. Len(listed), NEW j \in 1 .. Len(listed),
                    i < j, output'[listed[j]] # "none"
             PROVE  output'[listed[i]] = "complete"
  BY DEF Touches
<1>1. listed[i] \in Files /\ listed[j] \in Files
  BY ListedFacts DEF BatchInv, TypeInv
<1>2. output[listed[j]] # "none"
  BY <1>1
<1>3. output[listed[i]] = "complete"
  BY <1>2 DEF BatchInv, LoopInOrder
<1>4. QED
  BY <1>1, <1>3

LEMMA CompleteKeeps ==
    ASSUME BatchInv, NEW f \in Listed, Complete(f)
    PROVE  BatchInv'
<1>1. /\ Touches(f, "complete") /\ pc' = "work" /\ output[f] = "open" /\ readable[f]
      /\ rows[f] = flows[f] /\ stats' = [stats EXCEPT ![f] = rows[f]]
  BY DEF Complete, Touches, config
<1>2. /\ TypeInv' /\ InOrder' /\ NotBegun' /\ OutcomesTrue' /\ ReturnedAll'
      /\ Delivered'
      /\ f \in Files
      /\ Listed' = Listed /\ Parallel' = Parallel
      /\ output'[f] = "complete"
      /\ \A g \in Files : g # f => output'[g] = output[g]
  BY <1>1, TouchesFacts
<1>3. FailedAtFile'
  BY <1>1 DEF FailedAtFile
<1>4. LoopInOrder'
  <2> SUFFICES ASSUME ~Parallel PROVE LoopInOrder'
    BY <1>2 DEF LoopInOrder
  <2>1. \A g \in Listed : output[g] # "partial"
    BY <1>1 DEF Touches, BatchInv, LoopInOrder
  <2>2. \A g \in Listed : output'[g] # "partial"
    BY <1>2, <2>1, ListedFacts DEF BatchInv, TypeInv
  <2>3. QED
    BY <1>1, <1>2, <2>2, EndKeepsOrder DEF LoopInOrder
<1>5. QED
  BY <1>2, <1>3, <1>4 DEF BatchInv

LEMMA FailKeeps ==
    ASSUME BatchInv, NEW f \in Listed, Fail(f)
    PROVE  BatchInv'
<1>1. /\ Touches(f, "partial") /\ output[f] = "open" /\ ~readable[f]
      /\ pc' = IF Parallel THEN "work" ELSE "failed"
  BY DEF Fail, Touches, config
<1>1a. stats' = [stats EXCEPT ![f] = 0]
  BY <1>1, ListedFacts DEF Fail, BatchInv, TypeInv, Delivered
<1>2. /\ TypeInv' /\ InOrder' /\ NotBegun' /\ OutcomesTrue' /\ ReturnedAll'
      /\ Delivered'
      /\ f \in Files
      /\ Listed' = Listed /\ Parallel' = Parallel
      /\ output'[f] = "partial"
      /\ \A g \in Files : g # f => output'[g] = output[g]
  BY <1>1a, <1>1, TouchesFacts
<1>3. FailedAtFile'
  BY <1>1, <1>2 DEF FailedAtFile
<1>4. LoopInOrder'
  BY <1>1, <1>2, EndKeepsOrder DEF LoopInOrder
<1>5. QED
  BY <1>2, <1>3, <1>4 DEF BatchInv

LEMMA CollectKeeps == BatchInv /\ Collect => BatchInv'
<1> SUFFICES ASSUME BatchInv, Collect PROVE BatchInv'
  OBVIOUS
<1>1. /\ pc = "work" /\ pc' = "returned"
      /\ results' = [i \in 1 .. Len(listed) |->
                       [file |-> listed[i], total_flows |-> stats[listed[i]]]]
      /\ UNCHANGED <<threads, readable, flows, listed, output, rows, stats>>
      /\ InState("none") = {} /\ InState("open") = {}
  BY DEF Collect, config
<1>2. Listed' = Listed /\ Parallel' = Parallel
  BY <1>1 DEF Listed, Parallel
<1>3. \A f \in Listed : output[f] \in {"complete", "partial"}
  BY <1>1, ListedFacts DEF InState, BatchInv, TypeInv
<1>4. Parallel \/ \A f \in Listed : output[f] # "partial"
  BY <1>1 DEF BatchInv, LoopInOrder
<1>5. ReturnedAll'
  BY <1>1, <1>2, <1>3, <1>4 DEF ReturnedAll
<1>6. TypeInv' /\ InOrder' /\ NotBegun' /\ OutcomesTrue' /\ Delivered'
  BY <1>1 DEF BatchInv, TypeInv, InOrder, NotBegun, OutcomesTrue, Delivered
<1>7. LoopInOrder' /\ FailedAtFile'
  BY <1>1, <1>2 DEF BatchInv, LoopInOrder, FailedAtFile
<1>8. QED
  BY <1>5, <1>6, <1>7 DEF BatchInv

LEMMA PrintKeeps == BatchInv /\ PrintSummary => BatchInv'
<1> SUFFICES ASSUME BatchInv, PrintSummary PROVE BatchInv'
  OBVIOUS
<1>1. /\ pc = "returned" /\ pc' = "printed"
      /\ UNCHANGED <<threads, readable, flows, listed, output, rows, stats, results>>
  BY DEF PrintSummary, config
<1>2. Listed' = Listed /\ Parallel' = Parallel
  BY <1>1 DEF Listed, Parallel
<1>3. QED
  BY <1>1, <1>2 DEF BatchInv, TypeInv, InOrder, NotBegun, OutcomesTrue, Delivered,
     LoopInOrder, FailedAtFile, ReturnedAll

LEMMA StutterKeeps == BatchInv /\ UNCHANGED vars => BatchInv'
BY DEF vars, config, BatchInv, TypeInv, InOrder, NotBegun, OutcomesTrue,
       Delivered, LoopInOrder, FailedAtFile, ReturnedAll, Listed, Parallel

LEMMA InvStep == BatchInv /\ [Next]_vars => BatchInv'
BY ListKeeps, BeginKeeps, ReportKeeps, CompleteKeeps, FailKeeps, CollectKeeps, PrintKeeps,
   StutterKeeps DEF Next, Work, Terminated

LEMMA InvCorrect == Spec => []BatchInv
BY InvInit, InvStep, PTL DEF Spec

-----------------------------------------------------------------------------
(* What follows from it.                                                   *)

\* What process_path returns with Ok counts every flow of every readable
\* file, each with its row, and nothing of a file that failed, for any number
\* of files, threads and flows, and any interleaving of the workers; without
\* the pool no file failed.
THEOREM OkCountsTrue == Spec => []OkCountsAreTrue
<1>1. BatchInv => OkCountsAreTrue
  <2> SUFFICES ASSUME BatchInv, pc \in {"returned", "printed"}
               PROVE  OkCountsAreTrue
    BY DEF OkCountsAreTrue
  <2>1. /\ listed \in Seq(Files) /\ Len(listed) \in Nat
        /\ results = [i \in 1 .. Len(listed) |->
                        [file |-> listed[i], total_flows |-> stats[listed[i]]]]
        /\ \A f \in Listed : f \in Files /\ output[f] \in {"complete", "partial"}
        /\ Parallel \/ \A f \in Listed : output[f] # "partial"
    BY ListedFacts DEF BatchInv, TypeInv, ReturnedAll
  <2>2. Len(results) = Len(listed)
    BY <2>1
  <2>3. \A f \in Listed : output[f] = IF readable[f] THEN "complete" ELSE "partial"
    BY <2>1 DEF BatchInv, OutcomesTrue
  <2>4. \A f \in Listed : readable[f] => rows[f] = flows[f]
    BY <2>1, <2>3 DEF BatchInv, Delivered
  <2>5. \A f \in Listed : \E i \in 1 .. Len(results) : results[i].file = f
    BY <2>1, <2>2, ListedFacts
  <2>6. ASSUME NEW i \in 1 .. Len(results)
        PROVE  results[i].total_flows = IF readable[results[i].file]
                                        THEN rows[results[i].file] ELSE 0
    <3>1. /\ listed[i] \in Listed /\ results[i].file = listed[i]
          /\ results[i].total_flows = stats[listed[i]]
      BY <2>1, <2>2, ListedFacts
    <3>2. QED
      BY <2>1, <2>3, <3>1 DEF BatchInv, Delivered
  <2>7. Parallel \/ \A f \in Listed : readable[f]
    BY <2>1, <2>3
  <2>8. QED
    BY <2>4, <2>5, <2>6, <2>7 DEF OkCountsAreTrue
<1>2. QED
  BY <1>1, InvCorrect, PTL

\* Only the loop fails the call because of a file, and it does so at the
\* first bad one: all before it are complete and none behind it is begun.
THEOREM LoopStopsAtFirst == Spec => []StopsAtFirstFailure
<1>1. BatchInv => StopsAtFirstFailure
  <2> SUFFICES ASSUME BatchInv, pc = "failed", Listed # {}
               PROVE  /\ ~Parallel
                      /\ \E i \in 1 .. Len(listed) :
                           /\ output[listed[i]] = "partial"
                           /\ \A j \in 1 .. i - 1 : output[listed[j]] = "complete"
                           /\ \A j \in i + 1 .. Len(listed) : output[listed[j]] = "none"
    BY DEF StopsAtFirstFailure
  <2>1. ~Parallel /\ \E f \in Listed : output[f] = "partial"
    BY DEF BatchInv, FailedAtFile
  <2>2. PICK i \in 1 .. Len(listed) : output[listed[i]] = "partial"
    BY <2>1, ListedFacts DEF BatchInv, TypeInv
  <2>3. Len(listed) \in Nat
    BY ListedFacts DEF BatchInv, TypeInv
  <2>4. \A j \in 1 .. i - 1 : output[listed[j]] = "complete"
    BY <2>1, <2>2, <2>3 DEF BatchInv, LoopInOrder
  <2>5. \A j \in i + 1 .. Len(listed) : output[listed[j]] = "none"
    BY <2>1, <2>2, <2>3 DEF BatchInv, LoopInOrder
  <2>6. QED
    BY <2>1, <2>2, <2>4, <2>5
<1>2. QED
  BY <1>1, InvCorrect, PTL
=============================================================================
