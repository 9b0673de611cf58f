# A verification project for Rust-CICFlow

Rust-CICFlow reads packets from capture files or an interface, groups them into
network flows, computes features of each flow and writes one row per flow as
CSV, JSON or JSON Lines. This directory holds TLA+ modules translated from its
source (paths below are relative to the repository; `src/…` is its Rust code),
TLC configurations that check them on small instances, and theorems about the
flow table, the flow record with its trackers and statistics, the packet parser, the
file reader, the writers, the engine and the batch engine that TLAPS checks for every
instance. Every invariant and action property of the passing runs is a theorem.

`PROJECT.json` is the index: components, runs, mutants, the map from each
definition to its source lines, findings, hazards and theorems.

## 1. Inventory

| Part | State it keeps | Operations | Talks to |
|---|---|---|---|
| Flow table, `src/flow/generator.rs` | open flows by flow id, reported flows that wait, listener, count of finished flows, minimum size | `add_packet`, `finish_all_flows`, `get_finished_flows`, `set_min_packets_per_flow`, `set_flow_listener` | owns the flow records; called by the engine |
| Flow record, `src/flow/basic_flow.rs` | identity, times, counters, statistics, two bulk trackers, a subflow tracker | `new`/`first_packet`, `add_packet`, `set_fwd_fin`, `set_bwd_fin`, feature getters | its trackers |
| Subflow and activity tracker, `src/flow/subflow.rs` | last packet, active period, active and idle statistics, subflow count | `first_packet`, `update_subflow`, `update_active_idle_time` | called by the record *and* by the flow table |
| Bulk tracker, `src/flow/bulk.rs` | run in progress (helpers), totals over bulks | `update`, averages | two per flow; each is told the other's last timestamp |
| Statistics, `src/flow/stats.rs` | count, sum, range, Welford moments | `add_value` | embedded in records and trackers |
| Packet identity, `src/packet/info.rs`, `src/flow/key.rs` | – | forward and backward flow id, direction test | flow table |
| Parser, `src/packet/parser.rs` | link type | `parse_packet` | readers |
| Capture file reader, `src/reader/pcap.rs` | position, byte order, interfaces of a pcapng file | `open`, `next_packet` | parser; called by the engine |
| Live capture, `src/reader/live.rs` | libpcap handle | `next_packet` | engine |
| Writers, `src/writer/csv.rs`, `json.rs` | 256 KiB buffer, first-item and closed flags; the file survives the process | `new`, `write_flow`, `flush`, `close`, drop | engine |
| Engine, `src/engine.rs` | one generator, reader and writer per call | `process_file`, `process_live`, `process_path` | everything above; a rayon pool |
| Command line, `src/bin/main.rs` | the flag of the Ctrl-C handler | – | engine |
| Features, `src/flow/feature.rs` | – | copies a record into 84 columns | writers |

**How they interact.** A run of `process_file` or `process_live` is one thread:
reader → flow table → drain → writer, packet after packet, and at the end a
flush of the table into the writer. `process_path` runs many of them in a pool.
There is one piece of state shared between threads inside a run, the flag that
the Ctrl-C handler clears. What outlives a run is the output file.

**What is hard here.** Not locks: the flow table is `&mut self` throughout. It
is (a) long sequences of packets that reach combinations of FIN, RST, age and
direction no test feeds; (b) the same decision taken in several places (minimum
size, count of finished flows, extension of the active period); (c) two values
standing for one thing, or one value for two (last timestamp of the other
direction for "was interrupted", 0 for "no run", `None` for "no packet" and for
"end of file"); (d) failures, kills and restarts between the steps of writing;
(e) workers of the pool in any order, one of which fails; (f) offsets that are
sums of lengths which a frame claims for itself; (g) some forty counters of a
record, updated in several branches, that must stay consistent. The full list, each
at its line with the properties that guard it, is `hazards` in `PROJECT.json`.

**What makes each part correct.**

- *Flow table*: each packet is in one flow of its own connection, each flow in
  one place; the lookup under two keys is unambiguous; flows of a connection
  follow each other; age is bounded; teardown closes; counts agree.
- *Flow record, trackers*: the counters are functions of the packets: direction
  counts, lengths, gaps, moments, subflows, active and idle periods, bulks;
  columns that say the same thing agree.
- *Parser*: reads nothing outside the frame, counts as payload what is payload,
  finds the transport header, takes the families it is told to, and ends.
- *Reader*: delivers the packets of the file in order, under the right link
  type, and ends.
- *Writers and engine*: a run that returns Ok has written every flow once; a
  JSON file is well formed whatever happened to earlier runs, a CSV file has
  one header and at most one spoilt line for each kill or failed write; a live
  capture has its reported flows on disk.
- *Batch engine*: the counts it returns are those of the files that could be
  read, all of them in full; failures contained or reported as the mode
  promises.

## 2. Modules

| Module | Models | State and actions |
|---|---|---|
| `Packet` | `BasicPacketInfo`, flow ids, direction, `generate_flow_id` | operators only. A flow id (a string) is the 5-tuple it is formatted from, one to one; `Octets` gives the address bytes that the exported id compares |
| `PacketParser` | `parse_packet` | a frame is its captured length; `scan` holds the parser's locals, one action per stage or turn of a loop; what a field says is chosen when it is read. History: `seen`, what the frame was found to say |
| `SummaryStats`, `WelfordStats` | `SummaryStats` without, and with, mean and `m2` | operators; the moments are multiplied by `Scale` and exact |
| `SubflowTracker` | `SubflowTracker` | operators on its record |
| `BasicFlow` | the life-cycle part of `BasicFlow` | operators; `members` is a history field, the positions of the packets in the record |
| `FlowRecord` | all accumulators of `BasicFlow`, `extract_features` | `NextPacket` is `add_packet`, `NextFlow` starts a record with `new` and `first_packet`; `Features` are the columns computed from more than one counter. History: `log` |
| `FlowGenerator` | `FlowGenerator` | one variable per field, one action per method; `AddPacket` has one disjunct per branch (`OpenFlow`, `ExpireFlow`, `FinPacket`, `RstPacket`, `DataPacket`). History: `log`, `handed`, `dropped` |
| `FlowLedger` | abstract specification of the table | the packets of each connection are cut into successive groups; a group ends once, reported if it has reached the minimum and discarded otherwise |
| `ActivityPeriods`, `FlowClaims`, `BulkTransfer` | properties only | what periods and bulks mean in terms of packets; what the documents claim |
| `BulkTracker` | `BulkTracker` | operators on its record |
| `FlowWriter` | both writers and the file | `format` is the configuration's; the file is a sequence of tokens (header, row, newline, bracket, comma, and what is left of a header or row that was cut off) that survives runs; the buffer may spill before any token; making a writer, writing and closing may each fail or be killed with any part written |
| `FlowEngine` | `process_file`, `process_live` | extends `FlowGenerator` and `FlowWriter`; `live` tells `process_live` from `process_file`; `pc` walks through the loop; faults are actions of their own (`OpenFails`, `CreateFails`, `ReadFails`, `WriteFails`, `FinishFails`, `DropFails`, `Kill`), and `broken` counts those that hit the file |
| `FlowSink` | abstract specification of a run | packets are read; groups of them are settled, saved as a row or too short for one, once; a run that ends well has settled every packet |
| `BatchEngine` | `process_path` and the printed summary | a file is taken up, reports its flows one at a time, and completes with all of them or fails after any number; `threads` bounds how many are open at a time; what a worker hands on (`stats`) and the rows in the outputs (`rows`) are separate |
| `PcapReader` | `PcapReader` | one action per record kind; the caller's loop is the fairness |
| `FlowGenerator_proofs`, `ActivityPeriods_proofs`, `FlowRecord_proofs`, `PacketParser_proofs`, `PcapReader_proofs`, `FlowEngine_proofs`, `BatchEngine_proofs` | theorems (section 5) | – |
| `SumLemmas` | nothing | lemmas on least and greatest elements and on sums, for the modules of theorems |
| `MCPackets`, `MCFlowGenerator`, `MCFlowRecord`, `MCFlowEngine`, `MCPcapReader`, `MCPacketParser` | the packets, captures and lengths TLC is given | – |

Operators whose name begins with `Mut` are deliberately wrong versions of the
definition after them; `PROJECT.json` says which property each must break. They
are not used by any specification.

**Abstractions worth knowing.**

- Time is an integer in an arbitrary unit. The constants keep the order that
  the defaults have (1 s < activity timeout 5 s < flow timeout 120 s): 1, 2, 4.
- An operation of the table is atomic, since no other thread can see it.
- `get_finished_flows` on an empty list and `finish_all_flows` on an empty table
  change nothing and are left out as stuttering; in `FlowEngine`, where they
  move the program on, that case is a disjunct.
- `finished_flows` is a set: the order within one drain is not modelled (a
  drain after each packet has at most one flow in it).
- The parser's frame has a length and no bytes. A field is chosen when it is
  read, so a run sees every combination of fields; the version nibble, the only
  field read at several places, is kept. Addresses, ports, flags and windows lie
  inside headers whose presence has been tested and are left out.
- A record is fed packets in any order of timestamps without the table, which
  decides when a record ends. `BasicFlow` and `FlowRecord` are two views of one
  structure: what decides, and what is counted.
- Means and `m2` are fractions times `Scale` (420), which every division of
  Welford's algorithm over seven values goes into; TLC computes them exactly.
- In `EngineImplementsSink` a group is saved once the file holds its row (a row
  in the buffer is not), and short once the table has dropped its flow.
- In `PcapReader` a record of a capture is one unit; the parser's verdict is the set of link
  types under which the frame holds a packet it takes. A record that is cut short
  is the last of its file (`ReaderAssumption`).
- In `FlowEngine`, `Row(f)` names a row by run and packets of its flow; how the
  features are formatted does not matter to any property.
- A failed write lets a first part of what is written get through, and the
  destructor's second attempt may get through as well; the model takes any
  first part of buffer, row and bracket, between two tokens or inside a row
  (`TornRow`), and the same when the process is killed inside a write. The
  header of a new CSV file is written and flushed by the constructor, which may
  fail before it, inside it (`TornHeader`), before its newline or after it
  (`FailCreate`). A row is never larger than the buffer.
- How a run ended is told apart by what can be promised of it: Ok (`done`), the
  capture could not be opened (`unopened`) or read on (`failed`), the output could
  not be made or written (`spoilt`), `killed`.
- `BatchEngine` takes rayon's and the iterator's `collect` as they are documented,
  and states nothing about the order of the results.

## 3. Runs

All runs finish in minutes with 2 workers. Runs named `claim_*` end in a
counterexample and are the findings of section 6.

| Run | Configuration | Bounds | Shows |
|---|---|---|---|
| `flow_table` | `FlowTable.cfg` | 4 packets of one connection, times 0 and 6 (timeout 4), data/FIN/RST, both directions, minimum settable to 1 | seven invariants and `RetiredStaysRetired` |
| `flow_table_shared` | `FlowTableShared.cfg` | 3 packets out of three connections on the same hosts and ports, one of a host with itself; packets with FIN and RST at once; times 0, 3, 6; `Bidirectional = FALSE`; addresses whose order depends on the sign of an octet | counters in the unidirectional mode, span, exported ids, and refinement of `FlowLedger` |
| `activity_periods` | `ActivityPeriods.cfg` | 4 packets of one direction, times 0 to 4 | periods and subflows |
| `flow_record` | `FlowRecord.cfg` | 5 packets with and without payload, both directions, four modes, first timestamp 0 or 1, steps -1, 0, 1 and 3, at most one of them not forward (one second is 2, so that an interruption fits into the gap of a run) | moments and columns are those of the packets; bulks are the maximal runs where timestamps increase, and whole in any order; flows begin at 0, the code's value for "no run", or at 1 |
| `engine` | `Engine.cfg` | 2 runs of up to 3 packets on one CSV, JSON or JSON Lines file, of a file or a live capture, with expiry and reset, two minimum sizes, all faults, in the header's write too and inside a row | completeness, durability, header, lines, append only, well-formedness, refinement of `FlowSink`, liveness |
| `parser` | `Parser.cfg` | lengths 0 to 90, all link types, three family settings; declared lengths 0 to 44, header lengths 0, 16, 20, 24, extension headers of 8 to 16 bytes, UDP lengths 0 to 20 | in range, payload, walk, family, end |
| `batch` | `Batch.cfg` | 3 files with 0 to 2 flows each, 0 to 3 threads, every set of captures and of readable ones | the counts returned in every interleaving of the pool, the loop's first failure, the end |
| `reader` | `Reader.cfg` | all classic and pcapng files of up to 3 records and a cut one, two link types | the prefix, or every packet block under its link type, is delivered; reading ends |

**Why the bounds are enough.** A flow interacts with the next packet through
its start, its two FIN counters and its key. Four packets reach every pair of
FIN counters that the branches tell apart, a close followed by a new flow, an
expiry followed by a packet of the other direction, and two expiries; three
connections are the least in which the key of one shares every field with
another's. Three packets are enough for the refinement: a group is opened,
joined and ended, with another open beside it. For the bulks, five packets hold
a run of four with an interruption before, inside or after it, or a bulk that
grows beyond four; runs of four on both sides are the same code with the roles
exchanged. They also give each direction a first, a second and a third
inter-arrival time beside packets of the other. A flow that begins at 0 and one that
begins at 1 are the two cases of the bulk tracker's test for 0. The parser's lengths reach from
nothing to past a tagged Ethernet header with an IPv6 header and two extension
headers; its theorems have no bound. Two engine runs are what a file needs to be inherited in
every state a fault can leave; format and mode are chosen in the initial state
and stay, as a configuration does. With three files a worker of two or three finishes
before, between and after the reports and failures of the others, and with two
a file still waits; two flows let a file fail before, between and after its rows. Three
blocks and a cut one hold two interfaces and a packet of either. What the bounds
could hide in the table is covered by the theorems, which have none.

**Fairness.** Liveness is stated in four specifications.
`EngineSpec` has weak fairness on `Work`, the thread's own steps: the thread is
scheduled, reads of a file return, and a live capture is opened with a read
timeout of 1000 ms (`src/engine.rs:298`), so `next_packet` returns with or
without a packet. Faults, kills, Ctrl-C and starting again are not fair.
`BatchEngine` has it on the caller's steps and on each worker's file, because
`process_file` returns (`EveryRunEnds`). `PcapReader` has it on the caller's
loop. `FlowGenerator` has none and no liveness: in the code nothing moves a
flow on but a packet or the end of the capture, which `claim_inactive` shows.
`PacketParser` has weak fairness on its own steps: it is a function of one
thread that makes no calls that block.

No configuration turns the deadlock check off: specifications that end do so
in an explicit `Terminated` action.

## 4. Properties

The comment before each property says what it means in the code; in short:

- `NoTwinFlows`: never both directions of a connection in the table.
- `PacketsAccountedOnce`: every packet in exactly one flow, every flow in
  exactly one of open, waiting, handed over, dropped.
- `FinishedCountMatches`: the two places that count agree with what is reported.
- `FlowsMatchTheirPackets`: only packets of the flow's own connection, counted
  under their direction, the closing ones included.
- `FlowSpanBounded`: no packet later than the flow timeout after the start.
- `OneFinEachWayCloses`, `FlowsSucceedEachOther`, `RetiredStaysRetired`.
- `ImplementsLedger`: refinement of `FlowLedger` with the groups given by the
  `members` of the flows.
- `IdleIsLongGaps`, `PeriodsTileTheFlow`, `SubflowsAreSeparated`: the trackers'
  numbers recomputed from the packets. A long gap is one *above* the activity
  timeout, as in the code and in README.md:426; Methodology.md:201-202 counts one of
  exactly the timeout too (section 6).
- `BulksAreMaximalRuns`: the same for the bulks, when timestamps increase, with
  one exception stated in `Begins`: a packet stamped 0 is in no run with the next
  (section 6);
  `BulksAreWhole`: in any order, no bulk is too short, and no packet and no byte
  is in two.
- `StatisticsMatchPackets`: the six running statistics, moments included, are
  those of the lists of lengths and gaps that their names promise.
- `FeaturesAgree`: columns computed from different counters agree.
- `ExportedIdsAreCanonical`: flows between two hosts have the same Flow ID
  exactly when they are of one connection.
- `NoPanic`, `PayloadWithinPacket`, `UpperLayerReached`, `FamilyAskedFor`,
  `ParseEnds`: the parser.
- `EngineImplementsSink`: a run is a behaviour of `FlowSink`, whatever fails.
- `SuccessIsComplete`, `FailureKeepsReported`, `LiveRowsAreDurable`: rows in the
  file against flows reported by the table. In a file of lines the rows of a run
  that ended well are lines of their own (`RowsAreLines`), except that the first
  row of a CSV run continues a line which an earlier kill or failed write cut
  off.
- `HeaderFirstOnly`, `LinesStayWhole`, `CsvOnlyGrows`, `JsonWellFormed`: the
  file, over runs, faults and kills. A header can be torn by a fault of its own
  write only, and is then the only one the file will have; a kill or failed write
  spoils at most one line, the next run's first row counted with the line it
  continues.
- `StopIsHeeded`, `EveryRunEnds`, `BatchEnds`, `ReadsToAnEnd`: liveness.
- `OkCountsAreTrue`, `StopsAtFirstFailure`: what the two modes of
  `process_path` promise: the counts that are returned against the rows in the
  outputs, and where the loop stops.
- `ClassicDeliversPrefix`, `PcapngDeliversAll`: what a reader delivers of a file.

## 5. Proofs

### Flow table (`FlowGenerator_proofs`)

For every set of hosts, addresses, ports, protocols and packets, every timeout,
minimum and bound, in both direction modes: each invariant of `flow_table` and
`flow_table_shared`, the action property, and the refinement of `FlowLedger`.

| Theorem | States |
|---|---|
| `TypeSafe` | `Spec => []TypeOK` |
| `LookupUnambiguous` | `Spec => []NoTwinFlows` |
| `NothingLostOrDoubled` | `Spec => []PacketsAccountedOnce` |
| `CountCorrect` | `Spec => []FinishedCountMatches` |
| `CountersMatchPackets` | `Spec => []FlowsMatchTheirPackets` |
| `SpanBounded` | `Spec => []FlowSpanBounded` |
| `SuccessiveFlows` | `Spec => []FlowsSucceedEachOther` |
| `TeardownCloses` | `Spec => []OneFinEachWayCloses` |
| `RetiredForGood` | `Spec => RetiredStaysRetired` |
| `TableImplementsLedger` | `Spec => ImplementsLedger` |
| `IdsCanonical` | `Spec => []ExportedIdsAreCanonical` |

*Assumptions*: those of the modules (`OctetsAssumption`, `TrackerAssumption`,
`DirectionAssumption`, `GeneratorAssumption`), which TLC evaluates in every run
of the flow table: timeouts are natural numbers, packets have their fields,
hosts have different addresses of octets.

*The argument.* The properties are not inductive one by one; they are built on
each other.

1. `TypeInv` is `TypeOK` and the finiteness of the table (`TableFinite`), which
   is needed for the cardinality that `finish_all_flows` adds to the count.
2. `NoTwinFlows` is inductive with `TypeInv`. The branch that needs an argument
   is `ExpireFlow`, which removes the key it found and inserts the packet's.
3. `AddPacketShape` uses both to say, once, what a packet does to the set of
   open flows: it starts a flow in a connection that has none, joins the only
   open flow of its connection, or replaces it.
4. `AccountInv` (`TypeInv`, `NoTwinFlows`, and the two halves of
   `PacketsAccountedOnce`: `Partition` of the log and `OnePlaceEach`) is
   inductive. The halves need each other: a flow reported is new to the reports
   because it was open, and one opened is new to all places because it holds
   the packet being fed, which no flow held.
5. On `AccountInv` rest the others: the count (with finiteness of the reports,
   `CountInv`), the counters (a packet joins one flow and raises one counter),
   the span (a packet is compared before it joins), the order of flows (a new
   position is larger than all others), the reports, and the refinement, whose
   extra fact is that a flow's packet count is the size of its group
   (`CountIsSize`).
6. `OneFinEachWayCloses` needs `TypeInv` only: a step makes a counter 1 exactly
   when the close test runs.
7. `IdsCanonical` needs `TypeOK` and four facts about `GenerateFlowId`: two
   different addresses of one length differ first in exactly one place
   (`FirstDifferenceExists`, from the well-foundedness of `<` on the naturals),
   that place is the same from either side, exactly one of the two octets ranks
   higher, signed or not, and so a key and its reverse get one id.

### Packet parser (`PacketParser_proofs`)

For frames of every length, any number of tags and extension headers and any
values of length fields:

| Theorem | States |
|---|---|
| `ParserTypeSafe` | `Spec => []TypeOK` |
| `ParserNeverPanics` | `Spec => []NoPanic` |
| `PayloadBounded` | `Spec => []PayloadWithinPacket` |
| `WalkReachesTransport` | `Spec => []UpperLayerReached` |
| `FamiliesRespected` | `Spec => []FamilyAskedFor` |

*Assumption*: `ParserAssumption` (lengths are natural numbers, families are sets
of IP versions).

*The argument.* `ParserInv` says of each stage what the next one relies on: no
result before the end (`NoResultYet`); the tag offset is between 14 and the
length of the frame (`InTags`); the slice in hand is the network data
(`InNetwork`), of a family that is to be read (`InFamily`); in the walk the
offset is at least 40 and `max_len` is the smaller of the declared and the
captured length (`InWalk`); the slice handed to the transport layer ends
there (`InTransport`), and its protocol is an extension header only if that
header is not whole. The last is why the walk must remember how long the header
was that it stopped at. Each lemma `…Keeps` shows one action to preserve the
whole of it; `ReachHolds` turns a guard into the fact that an index is in range.

### Subflows and activity (`ActivityPeriods_proofs`)

| Theorem | States |
|---|---|
| `SubflowsCounted` | `TimesAreSet => (Spec => []SubflowsAreSeparated)` |
| `PeriodsTile` | `TimesAreSet => (Spec => []PeriodsTileTheFlow)` |
| `IdleExact` | `TimesAreSet /\ TimeoutIsASecond => (Spec => []IdleIsLongGaps)` |

*Assumptions*: those of the flow table, and `TimesAreSet`: no packet is stamped
-1. The tracker keeps -1 for "no packet yet" (`subflow.rs`), and it forgets its
last packet when one has that timestamp. A classic capture cannot hold one; a
pcapng file whose 64 bits of timestamp are all ones does (`pcap.rs:270`), so this
is a hypothesis of the theorems and not an assumption of the module.
`IdleExact` also asks that the activity timeout is no less than the gap of a second
that separates subflows (`TimeoutIsASecond`; the default is 5 s). With a
smaller one (`-a` takes any) the property is false: a RST is added without the table's
own extension of the period (`generator.rs:122`), the tracker looks at a gap only when
it is a subflow's (`subflow.rs:44`), and so a gap between the two limits before a RST is
not logged. TLC finds it when `ActivityPeriods.cfg` is given an activity timeout of 0.

*The argument.* `TrackerInv` says of every flow, wherever it is kept, that the
tracker's last time is the timestamp of the flow's last packet (`AtLast`), that
the subflow count is the number of the far gaps (`CountsSubflows`), and, when
the packets came in order, that the current period is not reversed, ends no later
than the last packet, and begins where the logged periods end (`Tiles`). The middle
part of `Tiles` is what the property leaves out and its proof needs: an extension
that ran ahead of the packets would make the next gap negative. A flow grows
through one of several branches of the table, some of which extend the period
before the record sees the packet; `Tracked` (in `FlowGenerator_proofs`) names the
two things that can have happened to the tracker, `TrackedFacts` what they have in
common, and `GrownGaps` what one more packet does to the gaps. `AllFlows` only
gains flows that grew or started, by `AddPacketShape`.

`IdleInv` adds for the idle periods what the table does and not the tracker: as long
as no FIN was counted, a flow that is still open has been extended up to its last
packet (`BusyTillLast`), and its logged periods are the long gaps (`IdleTold`).
The first is needed because the tracker measures a gap from the end of the
active period, and is the packet's gap only if that end is the packet before. It
holds of open flows alone: the packet with a RST is not preceded by an extension, but
it is also the last. `Extended` (in `FlowGenerator_proofs`) says which branches
extend, and `GrownIdle` adds one gap, or none, to the sum.

### Flow record (`FlowRecord_proofs`)

| Theorem | States |
|---|---|
| `WholeBulksOnly` | `Spec => []BulksAreWhole` |
| `BulksExact` | `Spec => []BulksAreMaximalRuns` |
| `StatisticsExact` | `Spec => []StatisticsMatchPackets` |
| `FeaturesConsistent` | `Spec => []FeaturesAgree` |

*Assumptions*: `BulkAssumption`; `RecordAssumption` (packets have their fields, a
header is shorter than `NoSegment`, which stands for `u64::MAX`, flows begin at natural
numbers, steps in time are integers, and `MaxCount` is more than the packets of a flow); and `ScaleAssumption`,
that the divisions by n(n+1) of Welford's update come out exact up to `MaxCount`
values, which a common multiple does for any bound. The statistics are therefore about
exact fractions; the rounding of `f64` is not modelled. Timestamps may come in any
order; `BulksAreMaximalRuns` itself asks for increasing ones.

*Whole bulks.* `Counted` relates a tracker to the number of payload packets of
its direction. The property alone is not inductive, for two reasons. A run
that becomes a bulk adds four packets at once, of which three were seen earlier, so
the packets that wait (`Uncommitted`) have to be set aside in the bound; and a
later packet of the run adds itself without raising the number of bulks, so it must
be known that a run of four packets is in a bulk already. For bytes, `Load` sets
aside those of the run in the same way; `BulkInv` bounds it by the byte counters
of the record, by direction in the bidirectional mode and in sum in both.
`UpdateKeeps` carries this through an interruption, a new run and an extension;
`AddPacketBulks` shows that of the long handling of a packet only `update_bulk`
touches the trackers, and of them only the one of the packet's direction;
`PayloadGrows` counts.

*Statistics.* `Summarises` says of a record of statistics and a function of values what
the property does, in the form that one more value preserves: count, sum, sum
of squares, least and greatest value, and the two moments multiplied out. `SampleGrows`
is the algebra of Welford's update: the difference to the old mean and the
product of the two deviations divide exactly (`ExactQuotient`, `ScaleDivides`), and
the new `m2` is the sum of squares less the square of the sum by the number
(`MomentsGrow`). `StatInv` has it for the six lists, and of the gaps also what the
next one is measured from: the count of a direction and the time of its last packet
(`Timed`). `LengthsGrow` and `GapsGrow` say how one packet extends the lists,
`FlowLengthsGrow` the same for the list of the compatible mode with its extra value at 0.

*Features.* `FeatInv` adds to `BulkInv` and `StatInv` that the gaps of a direction
sum to the time between its first and last packet (`Telescopes`), that the bytes are
the sums of lengths, the flag counts, the least header and the subflow count. Every
conjunct of `FeaturesAgree` is arithmetic on these: that a mean times a count is a sum
(`RatioIsMean`), and that two rounded-down quotients do not exceed the whole (`PartsFit`).

*Maximal runs.* `RunOf`, `LongOf` and the three lists of values restate the property
for any set P of positions with payload and any set B of those that begin a run; in this
form one lemma covers both directions. When position n is added to P, all runs but
the last stay (`RunStays`); the last one grows (`RunExtends`) or a new one begins
(`RunBegins`), so the sums stay as they are below four packets (`ListsStay`) and then
gain the whole run, or one packet of it (`ListsGrow`). `Tracks` says of a tracker
that its totals are the sums and its helpers are those of the last run (`InRun`): from
a to z, with none of the other direction's packets Q between, and ended only if one
came after z or z is stamped 0. That clause is what the property rests on and is needed because the
tracker sees of Q one timestamp: the last packet of Q is later than the run's *start*
exactly when it is later than its *end*, since none is inside (`InterruptTracks`).
`TakeTracks` and `SkipTracks` then carry `Tracks` over `Update`, with and without a
payload, and `OtherTracks` over a packet of the other direction. `RunInv` has it
for both trackers under increasing times; that the first timestamp is not negative is
part of it. Then only the first packet of a flow can be stamped 0, the code's value
for "no run in progress": its run has ended as soon as it has begun, which
is the last case of `InRun`, and `Begins` has the next packet begin a new one.

*Sums* (`SumLemmas`). A sum over the packets is the library's fold over a set,
defined by a `CHOOSE` over functions on the subsets. What it yields for a set with
one element more (`SumMore`) needs that such a function exists, by induction on
the size of a set. The library's induction theorems take a predicate as a parameter,
which the installed provers cannot instantiate; stated over a *set* of numbers
(`Inductive`: a set that has 0 and with n also n + 1 has all), from the least element
of its complement, the same induction is first-order and goes through.

### Capture file reader (`PcapReader_proofs`)

For files of any length and any link types:

| Theorem | States |
|---|---|
| `ClassicPrefix` | `Spec => []ClassicDeliversPrefix` |
| `PcapngComplete` | `Spec => []PcapngDeliversAll` |

*Assumption*: `ReaderAssumption`, on what a capture is: its records are of the
kinds its format has, and only the last can be cut short.

*The argument.* `ReaderInv` holds, beside types, that nothing is delivered before
the file is open (`NotOpened`); for a classic file that the records before the
position are the ones delivered, frame by frame (`ClassicInv`, `FramesTaken`); and
for a pcapng file that the interface list is that of the blocks before the position
(`InterfacesKnown`) and that the delivered packets are those of the blocks before
it, each under the link type meant for it and in order (`PcapngInv`,
`DeliveredUpTo`). The property speaks of the end only; the invariant speaks of
every position and says of the end where the reader stopped and why.

### Output file (`FlowEngine_proofs`)

For any number of runs, packets, faults and kills, in all three formats:

| Theorem | States |
|---|---|
| `HeaderOnce` | `EngineSpec => []HeaderFirstOnly` |
| `CsvKeepsItsRows` | `EngineSpec => CsvOnlyGrows` |
| `OneLinePerBreak` | `EngineSpec => []LinesStayWhole` |
| `JsonIsArray` | `EngineSpec => []JsonWellFormed` |

*Assumptions*: those of the flow table's modules, `FormatAssumption` and
`EngineAssumption` (which formats, modes and faults there are, and a bound on runs).

*The argument.* All four are about `Content`, the file with the buffer behind it:
a spill moves tokens from one to the other and changes nothing. `EngineType` has
the types and three facts on which the cases rest: the flows about to be
written were handed over, there are none outside the two writing states, and the
buffer is empty between runs. `Remains` says what a fault leaves of a sequence of
tokens: a first part of it, whose last token may be a torn row. `FileStep` then
says once what a step of the engine does to the content: nothing (`Rests`), begin
a file (`Begins`), fail to begin one (`BadStart`), add a whole row (`AddsRow`), close
it (`Closes`), or stop with what remains of the content and what was to be written,
and one more break counted (`Breaks`). Each invariant has six short cases after
that:

- `HeaderInv`: a CSV file is empty or `Headed`: its first token is a whole header,
  or a torn one and something broke, and there is no other. It speaks of the file
  and the content, since only what is in the file makes `is_new` false.
- `SpoiltInv`: the lines of the content that are not a header or one row, or have
  no end, are at most the breaks. It is about the content, because a line that
  the file holds in part may have its end in the buffer. A row added behind a cut line
  continues a line that is counted already.
- `JsonInv`: an open array while the run is active, empty exactly when no item was
  written; a whole one when it is done or failed on its input. A run whose write
  failed is `spoilt` and nothing is claimed of its array.
- `FileGrows` for the action property.

### Engine (`FlowEngine_proofs`)

| Theorem | States |
|---|---|
| `OkIsComplete` | `EngineSpec => []SuccessIsComplete` |
| `FailureIsOrderly` | `EngineSpec => []FailureKeepsReported` |
| `LiveIsDurable` | `EngineSpec => []LiveRowsAreDurable` |
| `EngineIsSink` | `EngineSpec => EngineImplementsSink` |

*Assumptions*: as for the output file.

*The argument.* `EngineInv` puts the parts of the system beside each other:

- `EngineType` of the output file;
- `TableInv`: a step of the engine is a step of the flow table or replaces it by a
  new one (`TableStep`), so the invariants proved of the table (`AccountInv`,
  `CountInv`, `FlowsMatchTheirPackets`) hold in the engine's hands; and since the
  engine sets the minimum before the first packet, every reported flow reaches it
  and every dropped one does not (`SizeInv`);
- `LoopInv`: no flow waits in the table except between a packet and the next
  drain, and none is open after the last flush;
- `RowsInv`: the rows of the current run in the content are those of the flows
  that are out (handed over and not pending), once each, and none of a later run;
  while the run goes well (`Unbroken`), each of those flows has its row, whatever broke
  in earlier runs;
- `DurableInv`: a live capture leaves no row in the buffer;
- `LineInv`: in a file of lines the next row begins a line, or something broke
  and the run has no row yet, and each row of the run has its end and, but for the
  first one, begins a line.

`SuccessIsComplete` is then: at the end nothing waits, is open or is pending, so the
flows that are out are all that were reported, and the buffer is empty, so the rows
are in the file (`RowsInFile`), as lines by `LineInv`. `RowsInv` has to speak of earlier and later
runs, because the file is the only thing that outlives one: without it a row of an
earlier run could be taken for one of this. For the refinement, `SinkFacts` says
which groups are settled in a state, `StepSettles` that a step never takes one back,
and `SinkStep` maps every step of the engine to reading a packet, settling groups,
ending or beginning a run, or a stutter; groups do not share a packet by
`AccountInv`. Theorems of the ledger are about the table alone; this
one is about what a user finds on the disk.

### Batch engine (`BatchEngine_proofs`)

For any set of files with any number of flows, any number of threads and any of the
files unreadable:

| Theorem | States |
|---|---|
| `OkCountsTrue` | `Spec => []OkCountsAreTrue` |
| `LoopStopsAtFirst` | `Spec => []StopsAtFirstFailure` |

*Assumption*: `BatchAssumption`: the files are a finite set of numbers in the order
of their paths.

*The argument.* `BatchInv`: the list is in the order of the paths (`InOrder`), no
file is begun before it is made (`NotBegun`), what a file left is as `process_file`
returned (`OutcomesTrue`), a complete file has all its rows and its worker hands on
their number, while nothing is handed on of any other (`Delivered`), the loop takes a
file only behind complete ones and goes on only as long as none failed
(`LoopInOrder`), it fails at a file that failed (`FailedAtFile`), and a call that
returned has an entry for each file, none of them failed without the pool
(`ReturnedAll`). `Delivered` is what `OkCountsAreTrue` rests on: the entry was
handed on by another step than the one that returns, and other files reported and
failed in between. The first failure that `StopsAtFirstFailure` speaks of is at the
index of the one file that failed; `LeastElement` gives the file that the loop takes
next.

### Only model-checked

- Liveness (`EveryRunEnds`, `StopIsHeeded`, `BatchEnds`, `ReadsToAnEnd`,
  `ParseEnds`): out of the provers' reach.
- The claims of section 6, which are refuted and not proved.

## 6. Findings

Four statements of the documents that the code does not do; each is a `claim_*`
run with a short counterexample.

| Run | The document says | The code does |
|---|---|---|
| `claim_fin` | a FIN from both sides terminates (Methodology.md:177, Architecture.md:137) | FIN, FIN, FIN from A, A, B leaves the flow open (`generator.rs:90`) |
| `claim_inactive` | inactive flows are evicted (Architecture.md:139) | only by a later packet of the same flow, and by age (`generator.rs:71`) |
| `claim_idle` | idle periods are quiet gaps (README.md:426) | after a FIN its sender's busy time is logged as idle (`generator.rs:136`) |
| `claim_rejected` | illegal frames are discarded (Architecture.md:216) | the first one ends a classic capture (`pcap.rs:164`) |

More was met while modelling. The following come from one or two lines of code
each, so there is no run for them; the models show the behaviour.

*Where a document or comment says otherwise.*

- RST terminates unconditionally (Architecture.md:138), but not on a packet that
  also has FIN: FIN is tested first (`generator.rs:121`, `RstPacket`).
- Forward is the initiator's direction (Architecture.md:134), but between two
  ports of one host both directions are (`info.rs:131`, `IsForward`).
- The flow id is "bidirectional canonical" (`info.rs:73`), but for a host that
  talks to itself it has the ports in the order of the packet; this is why
  `ExportedIdsAreCanonical` speaks of two hosts.
- Bulks are contiguous (README.md:422), but an interruption that has the same
  timestamp as the start of the run is missed (`bulk.rs:21`, `Interrupt`). This
  is why `BulksAreMaximalRuns` asks for increasing timestamps.
- A bulk is "at least 4 packets" (README.md:422), but 0 is the tracker's value for
  "no run" (`bulk.rs:29`), so four payload packets at times 0, 1, 2 and 3 are no
  bulk: the second begins the run anew. Packets with time 0 come from simple packet blocks
  (`pcap.rs:296`) and from captures with relative times. `BulksAreMaximalRuns` and its
  theorem say what the code does (`Begins`), not what the document says.
- An idle pause is a gap of 5.0 s or more, and an active burst has gaps below it
  (Methodology.md:201-202), but the code takes a gap of exactly the timeout for
  active time (`subflow.rs:54`), as README.md:426 says ("exceeds"). The documents
  disagree; `IdleIsLongGaps` and its theorem are the code's side. `activity_periods`
  reaches a gap equal to the timeout; with `>=` in place of `>` it ends in a
  counterexample, two packets at 0 and 2.
- "Files processed" (main.rs:235) counts the files that failed in the pool as
  well (`engine.rs:245`, `PrintSummary`).
- Illegal headers are discarded (Architecture.md:216), but an IPv6 packet whose
  chain of extension headers is cut short becomes a packet with the number of
  that header as its protocol (`parser.rs:275`, `EndOfWalk`).

*Worth knowing of the parser.* A total length of 0, which a capture below
segmentation offload can have, is less than a header and the packet is dropped
(`parser.rs:206`). A fragment behind the first is parsed as if a transport header
stood at its beginning. The "ports" of ICMP are its type, code and checksum
(`parser.rs:423`), so that its packets fall into many flows. Tags are peeled on
Ethernet only. The arm of `parse_packet` for a link layer that fails
(`parser.rs:70`) is never reached.

*Worth knowing of the reader.* A pcapng timestamp of all ones becomes -1
(`pcap.rs:270`), which the activity tracker takes for "no packet" (`subflow.rs`);
hence the hypothesis `TimesAreSet` of three theorems.

*Worth knowing of the record.* PSH and URG are counted by direction on the first
packet only (`basic_flow.rs:155`), which is always forward, so the backward
columns are 0 and the other arm of `first_packet` (line 161) is never taken.
`init_win_bytes_backward` is the last window, not the initial one (line 204).
`act_data_pkt_forward` leaves the first packet out. The compatible mode counts
the first length twice on purpose (line 142), so its average packet size may
exceed the longest packet; `FeaturesAgree` compares the average with the mean in
the other mode only.

## 7. Not modelled, and the plan

Not modelled: the names, order and text of the 84 columns, timestamps as text,
argument parsing, the Python wrapper, scripts, examples, benchmarks. Floating
point is out of TLA+'s reach. Of the reader, byte order inside a record, options
and timestamp conversion; `end_active_idle_time`, which nothing calls.

Order of the plan; the first four stages are done.

1. **Flow table** with its record and trackers, the ledger, and its theorems.
2. **Around it**: bulks, writers, engine, batch, reader.
3. **Extend**: the parser with its theorems, the accumulators of
   `basic_flow.rs` with the columns computed from them, Welford's moments,
   `generate_flow_id` with its theorem, and the sink that the engine implements.
4. **Prove**: the batch engine, both readers, the output file, the engine and its
   refinement of `FlowSink`, subflows, periods and idle time, and of the record its
   statistics, features and bulks (section 5). Done: no invariant or action property is
   only model-checked.
5. **Compose**: `PcapReader` with `PacketParser` as the packet source of
   `FlowEngine`, and `process_path` over `FlowSink` in place of its one step per
   file; timestamps and option parsing of the reader with their widths.
