----------------------------- MODULE FlowWriter -----------------------------
(***************************************************************************)
(* The output file of a run and the writer in front of it                  *)
(* (src/src/writer/csv.rs and json.rs; the engine makes one of the two).   *)
(* The content is a sequence of tokens; the layout between them (spaces,   *)
(* and the newlines of a JSON array) is left out.                          *)
(*                                                                         *)
(* The writers put a 256 KiB buffer before the file.  Rows have any size   *)
(* up to that, so the buffer may have to be written out before any token   *)
(* is put into it.  A process that is killed loses what is still in the    *)
(* buffer, and a write that is cut short may stop anywhere: between two    *)
(* tokens, or in the middle of a header or row, which leaves a torn one.   *)
(***************************************************************************)
EXTENDS Naturals, Sequences

CONSTANT Formats    \* the formats the configuration may name

ASSUME FormatAssumption == Formats \subseteq {"csv", "json", "jsonl"}

VARIABLES
    format,         \* of the configuration; a file keeps its format
    file,           \* what has reached the file, over all runs
    buffer,         \* BufWriter's buffer
    first_item,     \* no element of the array has been written yet
    closed          \* the writer has been closed, or dropped

writer == <<file, buffer, first_item, closed>>

Header == <<"header">>
NL == <<"nl">>
Open == <<"[">>
Comma == <<",">>
Close == <<"]">>
TornHeader == <<"torn header">>
TornRow == <<"torn row">>

IsRow(t) == t[1] = "row"

InitWriter ==
    /\ format \in Formats
    /\ file = <<>>
    /\ buffer = <<>>
    /\ first_item = TRUE
    /\ closed = TRUE

\* Mutated forms: the header is written whenever a writer is made; a CSV file
\* is truncated like a JSON file.
MutCreateRepeatsHeader ==
    /\ file' = IF format = "csv" THEN file \o <<Header, NL>> ELSE <<>>
    /\ buffer' = IF format = "json" THEN <<Open>> ELSE <<>>
    /\ first_item' = TRUE
    /\ closed' = FALSE
MutCreateTruncates ==
    /\ file' = IF format = "csv" THEN <<Header, NL>> ELSE <<>>
    /\ buffer' = IF format = "json" THEN <<Open>> ELSE <<>>
    /\ first_item' = TRUE
    /\ closed' = FALSE

\* A CSV file is opened for appending, and a header flushed to it when it is
\* new or empty; a JSON file is truncated.
Create ==
    /\ file' = IF format # "csv" THEN <<>>
               ELSE IF file = <<>> THEN <<Header, NL>> ELSE file
    /\ buffer' = IF format = "json" THEN <<Open>> ELSE <<>>
    /\ first_item' = TRUE
    /\ closed' = FALSE

\* The writer cannot be made.  Either nothing was touched (no directory, no
\* permission), or the header of a new CSV file got out in part or as a whole
\* and writing or flushing it failed all the same.  The opening bracket of an
\* array stays in the buffer, where it cannot fail.
FailCreate ==
    /\ \/ UNCHANGED file
       \/ /\ format = "csv" /\ file = <<>>
          /\ file' \in {<<TornHeader>>, <<Header>>, <<Header, NL>>}
    /\ UNCHANGED <<buffer, first_item, closed>>

\* The tokens of one flow.
MutRowTokens(row) == <<Comma, row>>
RowTokens(row) ==
    IF format # "json" THEN <<row, NL>>
    ELSE IF first_item THEN <<row>> ELSE <<Comma, row>>

\* The buffer is written out before the token after the first k.
Spill(tokens, k) ==
    /\ file' = file \o buffer \o SubSeq(tokens, 1, k)
    /\ buffer' = SubSeq(tokens, k + 1, Len(tokens))

\* write_flow
WriteFlow(row) ==
    /\ \/ buffer' = buffer \o RowTokens(row) /\ UNCHANGED file
       \/ \E k \in 0 .. Len(RowTokens(row)) - 1 : Spill(RowTokens(row), k)
    /\ first_item' = (first_item /\ format # "json")
    /\ UNCHANGED closed

\* write_flow followed by flush
MutWriteAndFlush(row) == WriteFlow(row)
WriteAndFlush(row) ==
    /\ file' = file \o buffer \o RowTokens(row)
    /\ buffer' = <<>>
    /\ first_item' = (first_item /\ format # "json")
    /\ UNCHANGED closed

\* A mutated form: the array is not closed.
MutFinish ==
    /\ file' = file \o buffer
    /\ buffer' = <<>>
    /\ closed' = TRUE
    /\ UNCHANGED first_item

\* flush of a CSV writer, close of a JSON writer; dropping a writer does the
\* same.  Once closed it adds nothing.
Finish ==
    /\ file' = file \o buffer
                 \o (IF format = "json" /\ ~closed THEN <<Close>> ELSE <<>>)
    /\ buffer' = <<>>
    /\ closed' = TRUE
    /\ UNCHANGED first_item

Closing == IF format = "json" THEN <<Close>> ELSE <<>>

\* c is being written out when the disk fails or the process is killed: a
\* first part of it got through, which may end in a part of a row.
SomeOf(c) ==
    /\ \E j \in 0 .. Len(c), torn \in {<<>>, <<TornRow>>} :
         /\ torn # <<>> => j < Len(c) /\ IsRow(c[j + 1])
         /\ file' = file \o SubSeq(c, 1, j) \o torn
    /\ buffer' = <<>>
    /\ closed' = TRUE
    /\ UNCHANGED first_item

\* write_flow (or the flush that follows it) fails with the first k tokens in
\* the buffer.  The error returns to the caller at once, who drops the
\* writer: what is left is tried again, and a second failure is ignored.
FailWrite(row) ==
    \E k \in 0 .. Len(RowTokens(row)) :
        SomeOf(buffer \o SubSeq(RowTokens(row), 1, k) \o Closing)

\* The last flush or close fails.  A JSON writer that has put its bracket into
\* the buffer by then is not closed yet, and puts another when it is dropped.
FailFinish == SomeOf(buffer \o Closing) \/ SomeOf(buffer \o Closing \o Closing)

\* The process is killed: no destructor runs.  It was not writing to the
\* file; or it was, for write_flow and flush; or for close or drop.
LoseBuffer ==
    /\ buffer' = <<>>
    /\ UNCHANGED <<file, first_item, closed>>
CutWrite(row) == SomeOf(buffer \o RowTokens(row))
CutFinish == SomeOf(buffer \o Closing)
=============================================================================
