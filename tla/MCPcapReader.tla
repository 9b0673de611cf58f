---------------------------- MODULE MCPcapReader ----------------------------
(* Instances of PcapReader for TLC: all files of a few records.            *)
EXTENDS PcapReader, SequencesExt

CONSTANT MaxRecords     \* bound: records of a file

MCLinkTypes == {1, 113}

Record(kind, if_id, link, links) ==
    [kind |-> kind, if_id |-> if_id, link |-> link, links |-> links]
Plain(kind) == Record(kind, 0, 1, {})

\* Frames with a packet under either link type, under both or under none.
Frames(kind, ids) ==
    {Record(kind, i, 1, links) : i \in ids, links \in {{}, {1}, {113}}}

FilesOf(whole, last, pcapng, orders) ==
    LET bodies == UNION {[1 .. n -> whole] : n \in 0 .. MaxRecords}
        files == bodies \cup {Append(b, r) : b \in bodies, r \in last}
    IN  [pcapng: {pcapng}, big_endian: orders, link: {1}, records: files]

ClassicFiles ==
    LET bodies == FilesOf(Frames("frame", {0}),
                          {Plain("cut_header"), Plain("cut_body")}, FALSE, BOOLEAN)
    IN  bodies \cup {[c EXCEPT !.link = 113] : c \in bodies}

Blocks ==
    {Record("idb", 0, l, {}) : l \in MCLinkTypes}
      \cup Frames("epb", {0, 1}) \cup Frames("spb", {0})
      \cup {Plain(k) : k \in {"other", "section", "short_epb", "bad_length"}}

PcapngFiles ==
    FilesOf(Blocks, {Plain("cut_header"), Plain("cut_body")}, TRUE, {FALSE})
      \cup FilesOf({}, {}, TRUE, {TRUE})

CaptureFiles == ClassicFiles \cup PcapngFiles
=============================================================================
