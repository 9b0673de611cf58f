-------------------------- MODULE FlowEngine_proofs --------------------------
(***************************************************************************)
(* Theorems about the engine: what kills, failures of the disk and further *)
(* runs can make of the output file; what a run that returns Ok, fails or  *)
(* waits for packets has written of the flows that were reported; and that *)
(* the program implements FlowSink.  For every capture, format, minimum,   *)
(* flow timeout, set of faults and number of runs.                         *)
(***************************************************************************)
EXTENDS FlowEngine, FlowGenerator_proofs, SequenceTheorems

-----------------------------------------------------------------------------
(* Tokens and sequences of them.                                           *)

RowToken == {<<"row", r, m>> : r \in Nat, m \in SUBSET Nat}
Token == {Header, NL, Open, Comma, Close, TornHeader, TornRow} \cup RowToken

LEMMA TokenFacts ==
    /\ ~IsRow(Header) /\ ~IsRow(NL) /\ ~IsRow(Open)
    /\ ~IsRow(Comma) /\ ~IsRow(Close)
    /\ ~IsRow(TornHeader) /\ ~IsRow(TornRow)
    /\ Header # NL /\ Header # Open /\ Header # Comma /\ Header # Close
    /\ TornHeader # NL /\ TornHeader # Comma /\ TornHeader # Close
    /\ TornRow # NL /\ TornRow # Header /\ TornRow # TornHeader
    /\ \A t \in RowToken :
          /\ IsRow(t) /\ t[2] \in Nat
          /\ t # NL /\ t # Header /\ t # TornHeader
<1>1. /\ ~IsRow(Header) /\ ~IsRow(NL) /\ ~IsRow(Open)
      /\ ~IsRow(Comma) /\ ~IsRow(Close)
      /\ ~IsRow(TornHeader) /\ ~IsRow(TornRow)
  BY DEF IsRow, Header, NL, Open, Comma, Close, TornHeader, TornRow
<1>2. /\ Header # NL /\ Header # Open /\ Header # Comma /\ Header # Close
      /\ TornHeader # NL /\ TornHeader # Comma /\ TornHeader # Close
      /\ TornRow # NL /\ TornRow # Header /\ TornRow # TornHeader
  BY DEF Header, NL, Open, Comma, Close, TornHeader, TornRow
<1>3. ASSUME NEW t \in RowToken PROVE IsRow(t) /\ t[2] \in Nat
  BY <1>3 DEF RowToken, IsRow
<1>4. QED
  BY <1>1, <1>2, <1>3

\* Where a token is a row.
LEMMA RowsAreTokens == \A t \in Token : IsRow(t) => t \in RowToken
BY TokenFacts DEF Token

\* s is what t begins with.
InitialPart(s, t) ==
    Len(s) <= Len(t) /\ \A i \in 1 .. Len(s) : t[i] = s[i]

LEMMA ConcatFacts ==
    ASSUME NEW s \in Seq(Token), NEW t \in Seq(Token)
    PROVE  /\ s \o t \in Seq(Token)
           /\ Len(s) \in Nat /\ Len(t) \in Nat
           /\ Len(s \o t) = Len(s) + Len(t)
           /\ \A i \in 1 .. Len(s) : (s \o t)[i] = s[i]
           /\ \A i \in 1 .. Len(t) : (s \o t)[Len(s) + i] = t[i]
           /\ InitialPart(s, s \o t)
<1>1. Len(s) \in Nat /\ Len(t) \in Nat
  BY LenProperties
<1>2. /\ s \o t \in Seq(Token)
      /\ Len(s \o t) = Len(s) + Len(t)
      /\ \A i \in 1 .. Len(s) + Len(t) :
            (s \o t)[i] = IF i <= Len(s) THEN s[i] ELSE t[i - Len(s)]
  BY ConcatProperties
<1>3. \A i \in 1 .. Len(s) : (s \o t)[i] = s[i]
  BY <1>1, <1>2
<1>4. ASSUME NEW i \in 1 .. Len(t) PROVE (s \o t)[Len(s) + i] = t[i]
  <2>1. /\ Len(s) + i \in 1 .. Len(s) + Len(t)
        /\ ~(Len(s) + i <= Len(s))
        /\ (Len(s) + i) - Len(s) = i
    BY <1>1
  <2>2. QED
    BY <1>2, <2>1
<1>5. QED
  BY <1>1, <1>2, <1>3, <1>4 DEF InitialPart

LEMMA Regroup ==
    \A r, s, t \in Seq(Token) : (r \o s) \o t = r \o (s \o t)
BY ConcatAssociative

\* A part of a sequence from its beginning.
LEMMA PartFacts ==
    ASSUME NEW s \in Seq(Token), NEW k \in 0 .. Len(s)
    PROVE  /\ SubSeq(s, 1, k) \in Seq(Token)
           /\ Len(SubSeq(s, 1, k)) = k
           /\ \A i \in 1 .. k : SubSeq(s, 1, k)[i] = s[i]
           /\ SubSeq(s, k + 1, Len(s)) \in Seq(Token)
           /\ SubSeq(s, 1, k) \o SubSeq(s, k + 1, Len(s)) = s
           /\ InitialPart(SubSeq(s, 1, k), s)
<1>1. Len(s) \in Nat /\ k \in Nat /\ k <= Len(s)
  BY LenProperties
<1>2. \A i \in 1 .. Len(s) : s[i] \in Token
  BY ElementOfSeq
<1>3. \A i \in 1 .. k : s[i] \in Token
  BY <1>1, <1>2
<1>4. \A i \in k + 1 .. Len(s) : s[i] \in Token
  BY <1>1, <1>2
<1>5. /\ SubSeq(s, 1, k) \in Seq(Token)
      /\ Len(SubSeq(s, 1, k)) = IF 1 <= k THEN k - 1 + 1 ELSE 0
      /\ \A i \in 1 .. k - 1 + 1 : SubSeq(s, 1, k)[i] = s[1 + i - 1]
  BY <1>1, <1>3, SubSeqProperties
<1>6. Len(SubSeq(s, 1, k)) = k
  BY <1>1, <1>5
<1>7. \A i \in 1 .. k : SubSeq(s, 1, k)[i] = s[i]
  BY <1>1, <1>5
<1>8. k + 1 \in Int /\ Len(s) \in Int
  BY <1>1
<1>9. SubSeq(s, k + 1, Len(s)) \in Seq(Token)
  BY <1>4, <1>8, SubSeqProperties
<1>10. SubSeq(s, 1, k) \o SubSeq(s, k + 1, Len(s)) = SubSeq(s, 1, Len(s))
  <2>1. 1 \in 1 .. Len(s) + 1 /\ k \in 1 - 1 .. Len(s) /\ Len(s) \in k .. Len(s)
    BY <1>1
  <2>2. QED
    BY <2>1, ConcatAdjacentSubSeq
<1>11. SubSeq(s, 1, Len(s)) = s
  BY SubSeqFull
<1>12. QED
  BY <1>1, <1>5, <1>6, <1>7, <1>9, <1>10, <1>11 DEF InitialPart

LEMMA PartOfPart ==
    ASSUME NEW r \in Seq(Token), NEW s \in Seq(Token), NEW t \in Seq(Token),
           InitialPart(r, s), InitialPart(s, t)
    PROVE  InitialPart(r, t)
<1>1. Len(r) \in Nat /\ Len(s) \in Nat /\ Len(t) \in Nat
  BY LenProperties
<1>2. QED
  BY <1>1 DEF InitialPart

\* Behind a common beginning.
LEMMA PartBehind ==
    ASSUME NEW r \in Seq(Token), NEW s \in Seq(Token), NEW t \in Seq(Token),
           InitialPart(s, t)
    PROVE  InitialPart(r \o s, r \o t)
<1>1. /\ Len(r) \in Nat /\ Len(s) \in Nat /\ Len(t) \in Nat
      /\ Len(r \o s) = Len(r) + Len(s)
      /\ Len(r \o t) = Len(r) + Len(t)
  BY ConcatFacts
<1>2. ASSUME NEW i \in 1 .. Len(r \o s) PROVE (r \o t)[i] = (r \o s)[i]
  <2>1. CASE i <= Len(r)
    BY <1>1, <2>1, ConcatFacts
  <2>2. CASE ~(i <= Len(r))
    <3>1. PICK j \in 1 .. Len(s) : i = Len(r) + j
      <4>1. i - Len(r) \in 1 .. Len(s) /\ i = Len(r) + (i - Len(r))
        BY <1>1, <2>2
      <4>2. QED
        BY <4>1
    <3>2. j \in 1 .. Len(t)
      BY <1>1 DEF InitialPart
    <3>3. (r \o s)[Len(r) + j] = s[j] /\ (r \o t)[Len(r) + j] = t[j]
      BY <3>2, ConcatFacts
    <3>4. QED
      BY <3>1, <3>3 DEF InitialPart
  <2>3. QED
    BY <2>1, <2>2
<1>3. QED
  BY <1>1, <1>2 DEF InitialPart

\* s is what t begins with, or its last token is a torn row of t.
Remains(s, t) ==
    /\ Len(s) <= Len(t)
    /\ \A i \in 1 .. Len(s) :
          \/ s[i] = t[i]
          \/ i = Len(s) /\ s[i] = TornRow /\ IsRow(t[i])

LEMMA PartRemains ==
    ASSUME NEW s, NEW t, InitialPart(s, t)
    PROVE  Remains(s, t)
BY DEF InitialPart, Remains

NoRows(s) == \A i \in 1 .. Len(s) : ~IsRow(s[i])

-----------------------------------------------------------------------------
(* What the writer's operations do to what has been written.               *)

\* What has been written, whether it has reached the file or not.
Content == file \o buffer

WriterType ==
    /\ format \in {"csv", "json", "jsonl"}
    /\ file \in Seq(Token)
    /\ buffer \in Seq(Token)
    /\ first_item \in BOOLEAN
    /\ closed \in BOOLEAN

\* A piece of output that a run may add: at most one row, of a flow that is
\* still to be written, and as a line nothing but the row and its end.
Piece(w) ==
    /\ w \in Seq(Token)
    /\ \A i \in 1 .. Len(w) :
          /\ w[i] # Header /\ w[i] # TornHeader
          /\ IsRow(w[i]) => \E f \in pending : w[i] = Row(f)
          /\ format # "json" /\ i < Len(w) => IsRow(w[i]) /\ w[i + 1] = NL
    /\ \A i, j \in 1 .. Len(w) : IsRow(w[i]) /\ IsRow(w[j]) => i = j

LEMMA EmptyPiece == Piece(<<>>)
<1>1. <<>> \in Seq(Token) /\ Len(<<>>) = 0
  BY EmptySeq
<1>2. QED
  BY <1>1 DEF Piece

LEMMA RowType ==
    ASSUME NEW f \in Flow, run \in Nat
    PROVE  Row(f) \in RowToken /\ Row(f) \in Token /\ IsRow(Row(f))
<1>1. f.members \in SUBSET Nat
  BY DEF Flow
<1>2. Row(f) \in RowToken
  BY <1>1 DEF Row, RowToken
<1>3. QED
  BY <1>2, TokenFacts DEF Token

LEMMA RowTokensPiece ==
    ASSUME NEW f \in pending, f \in Flow, run \in Nat, WriterType
    PROVE  Piece(RowTokens(Row(f)))
<1> DEFINE r == Row(f)
           w == RowTokens(r)
<1>1. r \in Token /\ IsRow(r) /\ r # NL /\ r # Header /\ r # TornHeader
  BY RowType, TokenFacts
<1>2. NL \in Token /\ Comma \in Token
  BY DEF Token
<1>3. /\ ~IsRow(NL) /\ ~IsRow(Comma)
      /\ NL # Header /\ Comma # Header
      /\ NL # TornHeader /\ Comma # TornHeader
  BY TokenFacts
<1>4. \E g \in pending : r = Row(g)
  OBVIOUS
<1> HIDE DEF r
<1>5. CASE format # "json"
  <2>1. w = <<r, NL>>
    BY <1>5 DEF RowTokens
  <2> HIDE DEF w
  <2>2. w \in Seq(Token) /\ Len(w) = 2 /\ w[1] = r /\ w[2] = NL
    BY <1>1, <1>2, <2>1
  <2>3. \A i \in 1 .. Len(w) : i = 1 \/ i = 2
    BY <2>2
  <2>4. \A i \in 1 .. Len(w) :
          /\ w[i] # Header /\ w[i] # TornHeader
          /\ IsRow(w[i]) => \E g \in pending : w[i] = Row(g)
          /\ format # "json" /\ i < Len(w) => IsRow(w[i]) /\ w[i + 1] = NL
    BY <1>1, <1>3, <1>4, <2>2, <2>3
  <2>5. \A i, j \in 1 .. Len(w) : IsRow(w[i]) /\ IsRow(w[j]) => i = j
    BY <1>1, <1>3, <1>4, <2>2, <2>3
  <2>6. Piece(w)
    BY <2>2, <2>4, <2>5 DEF Piece
  <2>7. QED
    BY <2>6 DEF w, r
<1>6. CASE format = "json" /\ first_item
  <2>1. w = <<r>>
    BY <1>6 DEF RowTokens
  <2> HIDE DEF w
  <2>2. w \in Seq(Token) /\ Len(w) = 1 /\ w[1] = r
    BY <1>1, <2>1
  <2>3. \A i \in 1 .. Len(w) : i = 1
    BY <2>2
  <2>4. \A i \in 1 .. Len(w) :
          /\ w[i] # Header /\ w[i] # TornHeader
          /\ IsRow(w[i]) => \E g \in pending : w[i] = Row(g)
          /\ format # "json" /\ i < Len(w) => IsRow(w[i]) /\ w[i + 1] = NL
    BY <1>1, <1>4, <1>6, <2>2, <2>3
  <2>5. \A i, j \in 1 .. Len(w) : IsRow(w[i]) /\ IsRow(w[j]) => i = j
    BY <1>1, <1>4, <1>6, <2>2, <2>3
  <2>6. Piece(w)
    BY <2>2, <2>4, <2>5 DEF Piece
  <2>7. QED
    BY <2>6 DEF w, r
<1>7. CASE format = "json" /\ ~first_item
  <2>1. w = <<Comma, r>>
    BY <1>7 DEF RowTokens
  <2> HIDE DEF w
  <2>2. w \in Seq(Token) /\ Len(w) = 2 /\ w[1] = Comma /\ w[2] = r
    BY <1>1, <1>2, <2>1
  <2>3. \A i \in 1 .. Len(w) : i = 1 \/ i = 2
    BY <2>2
  <2>4. \A i \in 1 .. Len(w) :
          /\ w[i] # Header /\ w[i] # TornHeader
          /\ IsRow(w[i]) => \E g \in pending : w[i] = Row(g)
          /\ format # "json" /\ i < Len(w) => IsRow(w[i]) /\ w[i + 1] = NL
    BY <1>1, <1>3, <1>4, <1>7, <2>2, <2>3
  <2>5. \A i, j \in 1 .. Len(w) : IsRow(w[i]) /\ IsRow(w[j]) => i = j
    BY <1>1, <1>3, <1>4, <1>7, <2>2, <2>3
  <2>6. Piece(w)
    BY <2>2, <2>4, <2>5 DEF Piece
  <2>7. QED
    BY <2>6 DEF w, r
<1>8. QED
  BY <1>5, <1>6, <1>7 DEF WriterType

\* A piece may be cut short.
LEMMA PartOfPiece ==
    ASSUME NEW w, Piece(w), NEW k \in 0 .. Len(w)
    PROVE  Piece(SubSeq(w, 1, k))
<1> DEFINE v == SubSeq(w, 1, k)
<1>1. w \in Seq(Token)
  BY DEF Piece
<1>2. v \in Seq(Token) /\ Len(v) = k /\ \A i \in 1 .. k : v[i] = w[i]
  BY <1>1, PartFacts
<1>3. Len(w) \in Nat /\ k \in Nat /\ k <= Len(w)
  BY <1>1, LenProperties
<1> HIDE DEF v
<1>4. ASSUME NEW i \in 1 .. Len(v)
      PROVE  /\ v[i] # Header /\ v[i] # TornHeader
             /\ IsRow(v[i]) => \E f \in pending : v[i] = Row(f)
             /\ format # "json" /\ i < Len(v) => IsRow(v[i]) /\ v[i + 1] = NL
  <2>1. i \in 1 .. Len(w) /\ v[i] = w[i]
    BY <1>2, <1>3
  <2>2. i < Len(v) => v[i + 1] = w[i + 1] /\ i < Len(w)
    BY <1>2, <1>3
  <2>3. QED
    BY <2>1, <2>2 DEF Piece
<1>5. ASSUME NEW i \in 1 .. Len(v), NEW j \in 1 .. Len(v),
             IsRow(v[i]), IsRow(v[j])
      PROVE  i = j
  <2>1. i \in 1 .. Len(w) /\ v[i] = w[i] /\ j \in 1 .. Len(w) /\ v[j] = w[j]
    BY <1>2, <1>3
  <2>2. QED
    BY <1>5, <2>1 DEF Piece
<1>6. Piece(v)
  BY <1>2, <1>4, <1>5 DEF Piece
<1>7. QED
  BY <1>6 DEF v

\* The end of a JSON array may follow it; the other formats have none.
LEMMA ClosingPiece ==
    ASSUME NEW w, Piece(w)
    PROVE  Piece(w \o Closing)
<1>1. w \in Seq(Token)
  BY DEF Piece
<1>2. CASE format # "json"
  <2>1. Closing = <<>>
    BY <1>2 DEF Closing
  <2>2. w \o <<>> = w
    BY <1>1, ConcatEmptySeq
  <2>3. QED
    BY <2>1, <2>2
<1>3. CASE format = "json"
  <2> DEFINE c == <<Close>>
             v == w \o c
  <2>1. Closing = c
    BY <1>3 DEF Closing
  <2>2. c \in Seq(Token) /\ Len(c) = 1 /\ c[1] = Close
    BY DEF Token
  <2> HIDE DEF c
  <2>3. /\ v \in Seq(Token) /\ Len(w) \in Nat /\ Len(v) = Len(w) + 1
        /\ \A i \in 1 .. Len(w) : v[i] = w[i]
        /\ v[Len(w) + 1] = Close
    <3>1. /\ v \in Seq(Token) /\ Len(w) \in Nat /\ Len(v) = Len(w) + Len(c)
          /\ \A i \in 1 .. Len(w) : v[i] = w[i]
          /\ \A i \in 1 .. Len(c) : v[Len(w) + i] = c[i]
      BY <1>1, <2>2, ConcatFacts
    <3>2. 1 \in 1 .. Len(c)
      BY <2>2
    <3> HIDE DEF v
    <3>3. v[Len(w) + 1] = c[1]
      BY <3>1, <3>2
    <3>4. QED
      BY <2>2, <3>1, <3>3
  <2> HIDE DEF v
  <2>4. ~IsRow(Close) /\ Close # Header /\ Close # TornHeader
    BY TokenFacts
  <2>5. \A i \in 1 .. Len(v) : i \in 1 .. Len(w) \/ v[i] = Close
    BY <2>3
  <2>6. \A i \in 1 .. Len(v) : IsRow(v[i]) => i \in 1 .. Len(w) /\ v[i] = w[i]
    BY <2>3, <2>4, <2>5
  <2>7. \A i \in 1 .. Len(v) :
          /\ v[i] # Header /\ v[i] # TornHeader
          /\ IsRow(v[i]) => \E f \in pending : v[i] = Row(f)
    BY <2>3, <2>4, <2>5, <2>6 DEF Piece
  <2>8. \A i, j \in 1 .. Len(v) : IsRow(v[i]) /\ IsRow(v[j]) => i = j
    <3>1. \A i, j \in 1 .. Len(w) : IsRow(w[i]) /\ IsRow(w[j]) => i = j
      BY DEF Piece
    <3>2. QED
      BY <2>6, <3>1
  <2>9. Piece(v)
    BY <1>3, <2>3, <2>7, <2>8 DEF Piece
  <2>10. QED
    BY <2>1, <2>9 DEF v
<1>4. QED
  BY <1>2, <1>3

\* What has been written, after a step that is not the start of a run, is what
\* remains of what was written before and a piece; the file only grows.
Continues(w) ==
    /\ Piece(w)
    /\ file' \in Seq(Token)
    /\ buffer' \in Seq(Token)
    /\ InitialPart(file, file')
    /\ Remains(file' \o buffer', Content \o w)

LEMMA ContentType ==
    ASSUME WriterType
    PROVE  /\ Content \in Seq(Token)
           /\ InitialPart(file, Content)
           /\ Len(file) \in Nat /\ Len(Content) \in Nat
           /\ Len(file) <= Len(Content)
           /\ \A i \in 1 .. Len(file) : Content[i] = file[i]
BY ConcatFacts DEF WriterType, Content, InitialPart

LEMMA WriteFlowFacts ==
    ASSUME WriterType, NEW row, RowTokens(row) \in Seq(Token),
           WriteFlow(row) \/ WriteAndFlush(row)
    PROVE  /\ file' \in Seq(Token)
           /\ buffer' \in Seq(Token)
           /\ file' \o buffer' = Content \o RowTokens(row)
           /\ InitialPart(file, file')
           /\ first_item' = (first_item /\ format # "json")
           /\ closed' = closed
<1> DEFINE R == RowTokens(row)
<1> HIDE DEF R
<1>1. file \in Seq(Token) /\ buffer \in Seq(Token) /\ Content \in Seq(Token)
      /\ R \in Seq(Token) /\ InitialPart(file, Content)
  BY ContentType DEF WriterType, R
<1>2. first_item' = (first_item /\ format # "json") /\ closed' = closed
  BY DEF WriteFlow, WriteAndFlush
<1>3. CASE buffer' = buffer \o R /\ file' = file
  <2>1. file \o (buffer \o R) = Content \o R /\ buffer \o R \in Seq(Token)
    <3>1. buffer \o R \in Seq(Token)
      BY ONLY <1>1, ConcatFacts
    <3>2. (file \o buffer) \o R = file \o (buffer \o R)
      BY ONLY <1>1, Regroup
    <3>3. QED
      BY <3>1, <3>2 DEF Content
  <2>2. InitialPart(file, file')
    BY <1>1, <1>3, LenProperties DEF InitialPart
  <2>3. QED
    BY <1>1, <1>2, <1>3, <2>1, <2>2 DEF R
<1>4. ASSUME NEW k \in 0 .. Len(R), Spill(R, k)
      PROVE  /\ file' \in Seq(Token)
             /\ buffer' \in Seq(Token)
             /\ file' \o buffer' = Content \o R
             /\ InitialPart(file, file')
  <2> DEFINE head == SubSeq(R, 1, k)
             tail == SubSeq(R, k + 1, Len(R))
  <2>1. head \in Seq(Token) /\ tail \in Seq(Token) /\ head \o tail = R
    BY <1>1, PartFacts
  <2>2. file' = Content \o head /\ buffer' = tail
    BY <1>4 DEF Spill, Content
  <2> HIDE DEF head, tail
  <2>3. (Content \o head) \o tail = Content \o (head \o tail)
    <3>1. \A u, v \in Seq(Token) : (Content \o u) \o v = Content \o (u \o v)
      BY <1>1, Regroup
    <3>2. QED
      BY <2>1, <3>1
  <2>4. Content \o head \in Seq(Token) /\ InitialPart(Content, Content \o head)
    BY <1>1, <2>1, ConcatFacts
  <2>5. InitialPart(file, Content \o head)
    BY <1>1, <2>4, PartOfPart
  <2>6. QED
    BY <2>1, <2>2, <2>3, <2>4, <2>5
<1>5. CASE file' = file \o buffer \o R /\ buffer' = <<>>
  <2>1. file' = Content \o R
    BY <1>5 DEF Content
  <2>2. Content \o R \in Seq(Token) /\ InitialPart(Content, Content \o R)
    BY <1>1, ConcatFacts
  <2>3. (Content \o R) \o <<>> = Content \o R /\ <<>> \in Seq(Token)
    BY <2>2, ConcatEmptySeq, EmptySeq
  <2>4. InitialPart(file, Content \o R)
    BY <1>1, <2>2, PartOfPart
  <2>5. QED
    BY <1>2, <1>5, <2>1, <2>2, <2>3, <2>4 DEF R
<1>6. \/ buffer' = buffer \o R /\ file' = file
      \/ \E k \in 0 .. Len(R) - 1 : Spill(R, k)
      \/ file' = file \o buffer \o R /\ buffer' = <<>>
  BY DEF WriteFlow, WriteAndFlush, R
<1>7. Len(R) \in Nat
  BY <1>1, LenProperties
<1>8. \A k \in 0 .. Len(R) - 1 : k \in 0 .. Len(R)
  BY <1>7
<1>9. ASSUME \E k \in 0 .. Len(R) - 1 : Spill(R, k)
      PROVE  /\ file' \in Seq(Token)
             /\ buffer' \in Seq(Token)
             /\ file' \o buffer' = Content \o R
             /\ InitialPart(file, file')
  BY <1>4, <1>8, <1>9
<1>10. QED
  BY <1>2, <1>3, <1>5, <1>6, <1>9 DEF R

\* Behind a common beginning.
LEMMA RemainsBehind ==
    ASSUME NEW r \in Seq(Token), NEW s \in Seq(Token), NEW t \in Seq(Token),
           Remains(s, t)
    PROVE  Remains(r \o s, r \o t)
<1>1. /\ Len(r) \in Nat /\ Len(s) \in Nat /\ Len(t) \in Nat
      /\ Len(r \o s) = Len(r) + Len(s)
      /\ Len(r \o t) = Len(r) + Len(t)
      /\ Len(s) <= Len(t)
  BY ConcatFacts DEF Remains
<1> DEFINE a == r \o s
           b == r \o t
<1>2. ASSUME NEW i \in 1 .. Len(a)
      PROVE  a[i] = b[i] \/ (i = Len(a) /\ a[i] = TornRow /\ IsRow(b[i]))
  <2>1. CASE i \in 1 .. Len(r)
    BY <2>1, ConcatFacts
  <2>2. CASE i \notin 1 .. Len(r)
    <3>1. PICK j \in 1 .. Len(s) : i = Len(r) + j
      <4>1. i - Len(r) \in 1 .. Len(s) /\ i = Len(r) + (i - Len(r))
        BY <1>1, <2>2
      <4>2. QED
        BY <4>1
    <3>2. j \in 1 .. Len(t)
      BY <1>1
    <3>3. a[i] = s[j] /\ b[i] = t[j]
      BY <3>1, <3>2, ConcatFacts
    <3>4. j = Len(s) => i = Len(a)
      BY <1>1, <3>1
    <3>5. s[j] = t[j] \/ (j = Len(s) /\ s[j] = TornRow /\ IsRow(t[j]))
      BY DEF Remains
    <3> HIDE DEF a, b
    <3>6. QED
      BY <3>3, <3>4, <3>5
  <2>3. QED
    BY <2>1, <2>2
<1>3. Len(a) <= Len(b)
  BY <1>1
<1> HIDE DEF a, b
<1>4. Remains(a, b)
  BY <1>2, <1>3 DEF Remains
<1>5. QED
  BY <1>4 DEF a, b

\* What is left of c when only a first part of it, or of a row in it, is kept.
LEMMA CutRemains ==
    ASSUME NEW c \in Seq(Token), NEW j \in 0 .. Len(c),
           NEW torn \in {<<>>, <<TornRow>>},
           torn # <<>> => j < Len(c) /\ IsRow(c[j + 1])
    PROVE  LET d == SubSeq(c, 1, j) \o torn IN d \in Seq(Token) /\ Remains(d, c)
<1> DEFINE h == SubSeq(c, 1, j)
<1>1. h \in Seq(Token) /\ Len(h) = j /\ InitialPart(h, c)
      /\ \A i \in 1 .. j : h[i] = c[i]
  BY PartFacts
<1>2. Len(c) \in Nat /\ j \in Nat /\ j <= Len(c)
  BY LenProperties
<1> HIDE DEF h
<1>3. CASE torn = <<>>
  <2>1. h \o torn = h
    BY <1>1, <1>3, ConcatEmptySeq
  <2>2. QED
    BY <1>1, <2>1, PartRemains DEF h
<1>4. CASE torn # <<>>
  <2> DEFINE x == <<TornRow>>
             d == h \o x
  <2>1. torn = x /\ x \in Seq(Token) /\ Len(x) = 1 /\ x[1] = TornRow
    BY <1>4 DEF Token
  <2> HIDE DEF x
  <2>2. /\ d \in Seq(Token) /\ Len(d) = j + 1
        /\ \A i \in 1 .. j : d[i] = h[i]
        /\ d[j + 1] = TornRow
    <3>1. /\ d \in Seq(Token) /\ Len(d) = Len(h) + Len(x)
          /\ \A i \in 1 .. Len(h) : d[i] = h[i]
          /\ \A i \in 1 .. Len(x) : d[Len(h) + i] = x[i]
      BY <1>1, <2>1, ConcatFacts
    <3>2. 1 \in 1 .. Len(x)
      BY <2>1
    <3> HIDE DEF d
    <3>3. QED
      BY <1>1, <2>1, <3>1, <3>2
  <2> HIDE DEF d
  <2>3. j < Len(c) /\ IsRow(c[j + 1])
    BY <1>4
  <2>4. \A i \in 1 .. Len(d) : i \in 1 .. j \/ i = j + 1
    BY <1>2, <2>2
  <2>5. Len(d) <= Len(c)
    BY <1>2, <2>2, <2>3
  <2>6. Remains(d, c)
    BY <1>1, <2>2, <2>3, <2>4, <2>5 DEF Remains
  <2>7. QED
    BY <2>1, <2>2, <2>6 DEF d, h
<1>5. QED
  BY <1>3, <1>4

\* A first part of what is in the buffer, and of a piece behind it, reaches
\* the file.
LEMMA SomeOfFacts ==
    ASSUME WriterType, NEW w, Piece(w), SomeOf(buffer \o w)
    PROVE  Continues(w) /\ buffer' = <<>>
<1> DEFINE c == buffer \o w
<1>1. file \in Seq(Token) /\ buffer \in Seq(Token) /\ w \in Seq(Token)
  BY DEF WriterType, Piece
<1>2. c \in Seq(Token) /\ Content \o w = file \o c /\ file \o c \in Seq(Token)
  BY <1>1, ConcatFacts, Regroup DEF Content
<1> HIDE DEF c
<1>3. PICK j \in 0 .. Len(c), torn \in {<<>>, <<TornRow>>} :
        /\ torn # <<>> => j < Len(c) /\ IsRow(c[j + 1])
        /\ file' = file \o SubSeq(c, 1, j) \o torn
  BY DEF SomeOf, c
<1> DEFINE h == SubSeq(c, 1, j)
           d == h \o torn
<1>4. d \in Seq(Token) /\ Remains(d, c)
  BY <1>2, <1>3, CutRemains
<1>5. h \in Seq(Token) /\ torn \in Seq(Token)
  <2>1. TornRow \in Token
    BY DEF Token
  <2>2. <<>> \in Seq(Token) /\ <<TornRow>> \in Seq(Token)
    BY <2>1, EmptySeq
  <2>3. h \in Seq(Token)
    BY <1>2, PartFacts
  <2>4. torn = <<>> \/ torn = <<TornRow>>
    OBVIOUS
  <2>5. QED
    BY <2>2, <2>3, <2>4
<1>6. file' = file \o d
  <2>1. (file \o h) \o torn = file \o (h \o torn)
    <3> HIDE DEF h
    <3>1. QED
      BY <1>1, <1>5, Regroup
  <2>2. QED
    BY <1>3, <2>1
<1> HIDE DEF d
<1>7. file \o d \in Seq(Token) /\ InitialPart(file, file \o d)
  BY <1>1, <1>4, ConcatFacts
<1>8. Remains(file \o d, file \o c)
  BY <1>1, <1>2, <1>4, RemainsBehind
<1>9. (file \o d) \o <<>> = file \o d /\ <<>> \in Seq(Token)
  BY <1>7, ConcatEmptySeq, EmptySeq
<1>10. buffer' = <<>>
  BY DEF SomeOf
<1>11. QED
  BY <1>2, <1>6, <1>7, <1>8, <1>9, <1>10 DEF Continues

\* The destructor or the last flush: all of it is in the file.
LEMMA FinishFacts ==
    ASSUME WriterType, Finish
    PROVE  /\ Continues(IF format = "json" /\ ~closed THEN <<Close>> ELSE <<>>)
           /\ buffer' = <<>>
           /\ closed' = TRUE
           /\ first_item' = first_item
           /\ file' = Content \o (IF format = "json" /\ ~closed
                                  THEN <<Close>> ELSE <<>>)
<1> DEFINE w == IF format = "json" /\ ~closed THEN <<Close>> ELSE <<>>
<1>1. Piece(w)
  <2>1. CASE format = "json" /\ ~closed
    <3>1. w = <<>> \o Closing
      <4>1. Closing = <<Close>> /\ <<Close>> \in Seq(Token)
        BY <2>1 DEF Closing, Token
      <4>2. <<>> \o Closing = Closing
        BY <4>1, ConcatEmptySeq
      <4>3. QED
        BY <2>1, <4>1, <4>2
    <3>2. QED
      BY <3>1, EmptyPiece, ClosingPiece
  <2>2. CASE ~(format = "json" /\ ~closed)
    BY <2>2, EmptyPiece
  <2>3. QED
    BY <2>1, <2>2
<1>2. /\ file' = Content \o w /\ buffer' = <<>>
      /\ closed' = TRUE /\ first_item' = first_item
  BY DEF Finish, Content
<1> HIDE DEF w
<1>3. file \in Seq(Token) /\ Content \in Seq(Token) /\ w \in Seq(Token)
      /\ InitialPart(file, Content)
  BY <1>1, ContentType DEF WriterType, Piece
<1>4. Content \o w \in Seq(Token) /\ InitialPart(Content, Content \o w)
  BY <1>3, ConcatFacts
<1>5. (Content \o w) \o <<>> = Content \o w /\ <<>> \in Seq(Token)
  BY <1>4, ConcatEmptySeq, EmptySeq
<1>6. InitialPart(file, Content \o w)
  BY <1>3, <1>4, PartOfPart
<1>7. InitialPart(Content \o w, Content \o w)
  BY <1>4, LenProperties DEF InitialPart
<1>8. Remains(Content \o w, Content \o w)
  BY <1>7, PartRemains
<1>9. Continues(w)
  BY <1>1, <1>2, <1>4, <1>5, <1>6, <1>8 DEF Continues
<1>10. QED
  BY <1>2, <1>9 DEF w

LEMMA ClosingType == Closing \in Seq(Token)
<1>1. <<>> \in Seq(Token) /\ <<Close>> \in Seq(Token)
  BY DEF Token
<1>2. Closing = <<>> \/ Closing = <<Close>>
  BY DEF Closing
<1>3. QED
  BY <1>1, <1>2

LEMMA FailWriteFacts ==
    ASSUME WriterType, NEW row, Piece(RowTokens(row)), FailWrite(row)
    PROVE  (\E w : Continues(w)) /\ buffer' = <<>>
<1> DEFINE R == RowTokens(row)
<1>1. PICK k \in 0 .. Len(R) : SomeOf(buffer \o SubSeq(R, 1, k) \o Closing)
  BY DEF FailWrite
<1> DEFINE h == SubSeq(R, 1, k)
<1>2. Piece(h)
  BY PartOfPiece
<1>3. Piece(h \o Closing)
  BY <1>2, ClosingPiece
<1>4. SomeOf(buffer \o h \o Closing)
  BY <1>1
<1> HIDE DEF h
<1>5. buffer \in Seq(Token) /\ h \in Seq(Token) /\ Closing \in Seq(Token)
  BY <1>2, ClosingType DEF WriterType, Piece
<1>6. (buffer \o h) \o Closing = buffer \o (h \o Closing)
  <2>1. \A u, v \in Seq(Token) : (buffer \o u) \o v = buffer \o (u \o v)
    BY <1>5, Regroup
  <2>2. QED
    BY <1>5, <2>1
<1>7. SomeOf(buffer \o (h \o Closing))
  BY <1>4, <1>6
<1>8. QED
  BY <1>3, <1>7, SomeOfFacts

LEMMA FailFinishFacts ==
    ASSUME WriterType, FailFinish
    PROVE  (\E w : Continues(w)) /\ buffer' = <<>>
<1>1. buffer \in Seq(Token) /\ Closing \in Seq(Token)
  BY ClosingType DEF WriterType
<1>2. Piece(Closing)
  <2>1. <<>> \o Closing = Closing
    BY <1>1, ConcatEmptySeq
  <2>2. QED
    BY <2>1, EmptyPiece, ClosingPiece
<1>3. Piece(Closing \o Closing)
  BY <1>2, ClosingPiece
<1>4. (buffer \o Closing) \o Closing = buffer \o (Closing \o Closing)
  BY <1>1, Regroup
<1>5. SomeOf(buffer \o Closing) \/ SomeOf(buffer \o (Closing \o Closing))
  BY <1>4 DEF FailFinish
<1>6. QED
  BY <1>2, <1>3, <1>5, SomeOfFacts

LEMMA LoseBufferFacts ==
    ASSUME WriterType, LoseBuffer
    PROVE  Continues(<<>>) /\ buffer' = <<>>
<1>1. file' = file /\ buffer' = <<>>
  BY DEF LoseBuffer
<1>2. file \in Seq(Token) /\ Content \in Seq(Token) /\ InitialPart(file, Content)
  BY ContentType DEF WriterType
<1>3. /\ file \o <<>> = file /\ Content \o <<>> = Content
      /\ <<>> \in Seq(Token)
  BY <1>2, ConcatEmptySeq, EmptySeq
<1>4. InitialPart(file, file)
  BY <1>2, LenProperties DEF InitialPart
<1>5. Remains(file, Content)
  BY <1>2, PartRemains
<1>6. QED
  BY <1>1, <1>2, <1>3, <1>4, <1>5, EmptyPiece DEF Continues

LEMMA CutWriteFacts ==
    ASSUME WriterType, NEW row, Piece(RowTokens(row)), CutWrite(row)
    PROVE  (\E w : Continues(w)) /\ buffer' = <<>>
BY SomeOfFacts DEF CutWrite

LEMMA CutFinishFacts ==
    ASSUME WriterType, CutFinish
    PROVE  (\E w : Continues(w)) /\ buffer' = <<>>
<1>1. FailFinish
  BY DEF CutFinish, FailFinish
<1>2. QED
  BY <1>1, FailFinishFacts

LEMMA FailCreateFacts ==
    ASSUME WriterType, FailCreate
    PROVE  /\ file' \in Seq(Token)
           /\ buffer' = buffer /\ first_item' = first_item /\ closed' = closed
           /\ \/ file' = file
              \/ /\ format = "csv" /\ file = <<>>
                 /\ file' \in {<<TornHeader>>, <<Header>>, <<Header, NL>>}
<1>1. /\ <<TornHeader>> \in Seq(Token) /\ <<Header>> \in Seq(Token)
      /\ <<Header, NL>> \in Seq(Token)
  BY DEF Token
<1>2. QED
  BY <1>1 DEF FailCreate, WriterType

\* What a file may be made to hold before the first row.
LEMMA EmptyOutputs ==
    ASSUME NEW t \in {<<>>, <<TornHeader>>, <<Header>>, <<Header, NL>>, <<Open>>}
    PROVE  t \in Seq(Token) /\ NoRows(t)
<1>1. CASE t = <<>>
  BY <1>1, EmptySeq DEF NoRows
<1>2. ASSUME NEW x \in {TornHeader, Header, Open}, t = <<x>>
      PROVE  t \in Seq(Token) /\ NoRows(t)
  <2>1. x \in Token /\ ~IsRow(x)
    BY TokenFacts DEF Token
  <2>2. Len(t) = 1 /\ t[1] = x
    BY <1>2
  <2>3. QED
    BY <1>2, <2>1, <2>2 DEF NoRows
<1>3. CASE t = <<Header, NL>>
  <2>1. t \in Seq(Token) /\ Len(t) = 2 /\ t[1] = Header /\ t[2] = NL
    BY <1>3 DEF Token
  <2>2. \A i \in 1 .. Len(t) : i = 1 \/ i = 2
    BY <2>1
  <2>3. QED
    BY <2>1, <2>2, TokenFacts DEF NoRows
<1>4. QED
  BY <1>1, <1>2, <1>3

LEMMA CreateFacts ==
    ASSUME WriterType, Create
    PROVE  /\ file' \in Seq(Token)
           /\ buffer' \in Seq(Token)
           /\ first_item' = TRUE
           /\ closed' = FALSE
           /\ format = "csv" =>
                buffer' = <<>> /\ (file' = file \/ file' = <<Header, NL>>)
           /\ format = "csv" /\ file # <<>> => file' = file
           /\ format = "csv" /\ file = <<>> => file' = <<Header, NL>>
           /\ format = "json" => file' = <<>> /\ buffer' = <<Open>>
           /\ format = "jsonl" => file' = <<>> /\ buffer' = <<>>
<1>1. /\ <<>> \in Seq(Token) /\ <<Header, NL>> \in Seq(Token)
      /\ <<Open>> \in Seq(Token)
  BY DEF Token
<1>2. format \in {"csv", "json", "jsonl"} /\ file \in Seq(Token)
  BY DEF WriterType
<1>3. QED
  BY <1>1, <1>2 DEF Create

-----------------------------------------------------------------------------
(* What a step of the engine does to the flow table and to the file.       *)

EngineType ==
    /\ TypeInv
    /\ WriterType
    /\ live \in BOOLEAN
    /\ pc \in Active \cup Ended
    /\ run \in Nat
    /\ broken \in Nat
    /\ pending \subseteq handed
    /\ pc \notin {"write", "final"} => pending = {}
    /\ pc \in Ended => buffer = <<>>

\* A step is one of the flow table, or starts a new one.
LEMMA TableStep ==
    ASSUME [EngineNext]_allvars
    PROVE  [Next]_vars \/ \E n \in Nat : FreshGenerator(n)
<1>1. CASE Start \/ OpenFails \/ CreateFails
  BY <1>1, GeneratorAssumption DEF Start, OpenFails, CreateFails
<1>2. CASE UNCHANGED generator
  BY <1>2 DEF generator
<1>3. CASE TakePacket
  BY <1>3 DEF TakePacket, Next
<1>4. CASE Drain
  BY <1>4 DEF Drain, Next, generator
<1>5. CASE LastPackets
  BY <1>5 DEF LastPackets, Next, generator
<1>6. QED
  BY <1>1, <1>2, <1>3, <1>4, <1>5
  DEF EngineNext, Work, Happening, Terminated, allvars, CheckFlag, NoPacket,
      Write, WriteLast, Written, Succeed, ReadFails, DropFails, WriteFails,
      FinishFails, Kill, Stop

\* The output and the faults are left alone.
Rests ==
    /\ file' = file /\ buffer' = buffer
    /\ first_item' = first_item /\ closed' = closed
    /\ broken' = broken
    /\ \/ pc \in Active /\ pc' \in Active /\ run' = run
       \/ pc \in Ended /\ pc' = pc /\ run' = run
       \/ pc \in Ended /\ pc' = "unopened" /\ run' = run + 1

\* A writer is made.
Begins ==
    /\ pc \in Ended /\ pc' = "read"
    /\ Create
    /\ broken' = broken
    /\ run' = run + 1

\* A row is written.
AddsRow(f) ==
    /\ f \in pending
    /\ pc \in {"write", "final"} /\ pc' = pc
    /\ WriteFlow(Row(f)) \/ WriteAndFlush(Row(f))
    /\ broken' = broken
    /\ run' = run

\* The writer is closed or dropped.
Closes ==
    /\ pc \in Active /\ pc' \in {"done", "failed"}
    /\ Finish
    /\ broken' = broken
    /\ run' = run

\* A writer cannot be made.
BadStart ==
    /\ pc \in Ended /\ pc' \in {"spoilt", "killed"}
    /\ FailCreate
    /\ broken' = broken + 1
    /\ run' = run + 1

\* The disk fails, or the process is killed.
Breaks ==
    /\ pc \in Active /\ pc' \in {"spoilt", "killed"}
    /\ \/ \E f \in pending : FailWrite(Row(f)) \/ CutWrite(Row(f))
       \/ FailFinish \/ CutFinish
       \/ LoseBuffer
    /\ broken' = broken + 1
    /\ run' = run

LEMMA FileStep ==
    ASSUME EngineType, [EngineNext]_allvars
    PROVE  /\ format' = format /\ live' = live
           /\ \/ Rests \/ Begins \/ BadStart
              \/ (\E f \in pending : AddsRow(f)) \/ Closes \/ Breaks
<1>1. format' = format /\ live' = live
  BY DEF EngineNext, Work, Happening, Terminated, allvars, options
<1>2. pc \in Active \/ pc \in Ended
  BY DEF EngineType
<1>3. ASSUME UNCHANGED <<writer, run, broken>>,
             (pc \in Active /\ pc' \in Active) \/ pc' = pc
      PROVE  Rests
  BY <1>2, <1>3 DEF Rests, writer
<1>4. CASE CheckFlag \/ TakePacket \/ NoPacket \/ Drain \/ Written
            \/ LastPackets
  BY <1>1, <1>3, <1>4
  DEF CheckFlag, TakePacket, NoPacket, Drain, Written, LastPackets, Reading, Active
<1>5. CASE Stop \/ UNCHANGED allvars
  BY <1>1, <1>3, <1>5 DEF Stop, allvars, engine
<1>6. CASE Start
  BY <1>1, <1>6 DEF Start, Begins
<1>7. CASE OpenFails
  BY <1>1, <1>7 DEF OpenFails, Rests, writer
<1>13. CASE CreateFails
  BY <1>1, <1>13 DEF CreateFails, BadStart
<1>8. ASSUME NEW f \in pending, Write(f) \/ WriteLast(f) PROVE AddsRow(f)
  BY <1>8 DEF Write, WriteLast, AddsRow
<1>9. CASE Succeed \/ ReadFails
  BY <1>1, <1>9 DEF Succeed, ReadFails, Closes, Reading, Active
<1>10. ASSUME NEW f \in pending, WriteFails(f) PROVE Breaks
  BY <1>10 DEF WriteFails, Breaks, Active
<1>11. CASE FinishFails \/ DropFails \/ Kill
  BY <1>1, <1>11 DEF FinishFails, DropFails, Kill, Breaks, Reading, Active
<1>12. QED
  BY <1>1, <1>4, <1>5, <1>6, <1>7, <1>8, <1>9, <1>10, <1>11, <1>13
  DEF EngineNext, Work, Happening, Terminated

-----------------------------------------------------------------------------
(* The types of the engine's variables.                                    *)

LEMMA FreshType ==
    ASSUME NEW n \in Nat, FreshGenerator(n)
    PROVE  TypeInv'
<1>1. DOMAIN current_flows' = {}
  BY DEF FreshGenerator
<1>2. TableFinite'
  BY <1>1, FS_EmptySet DEF TableFinite
<1>3. current_flows' \in [DOMAIN current_flows' -> Flow]
  BY <1>1 DEF FreshGenerator
<1>4. /\ DOMAIN current_flows' \subseteq Key
      /\ finished_flows' \subseteq Flow
      /\ handed' \subseteq Flow
      /\ dropped' \subseteq Flow
      /\ listener' \in BOOLEAN
      /\ finished_flow_count' \in Nat
      /\ min_packets_per_flow' \in Nat
  BY <1>1 DEF FreshGenerator
<1>5. log' \in Seq(Packets)
  <2>1. log' = <<>>
    BY DEF FreshGenerator
  <2>2. QED
    BY <2>1
<1>6. QED
  BY <1>2, <1>3, <1>4, <1>5 DEF TypeInv, TypeOK

LEMMA PendingFlows ==
    ASSUME EngineType
    PROVE  \A f \in pending :
              /\ f \in Flow
              /\ Row(f) \in RowToken
              /\ Piece(RowTokens(Row(f)))
              /\ RowTokens(Row(f)) \in Seq(Token)
<1>1. ASSUME NEW f \in pending PROVE f \in Flow
  BY DEF EngineType, TypeInv, TypeOK
<1>2. ASSUME NEW f \in pending
      PROVE  Row(f) \in RowToken /\ Piece(RowTokens(Row(f)))
  BY <1>1, RowType, RowTokensPiece DEF EngineType
<1>3. QED
  BY <1>1, <1>2 DEF Piece

\* What every step but the start of a run leaves of the output.
LEMMA StepContinues ==
    ASSUME EngineType,
           (\E f \in pending : AddsRow(f)) \/ Closes \/ Breaks
    PROVE  /\ \E w : Continues(w)
           /\ first_item' \in BOOLEAN /\ closed' \in BOOLEAN
           /\ pc' \in Ended => buffer' = <<>>
<1>1. WriterType
  BY DEF EngineType
<1>2. ASSUME NEW f \in pending, AddsRow(f)
      PROVE  /\ \E w : Continues(w)
             /\ first_item' \in BOOLEAN /\ closed' \in BOOLEAN
             /\ pc' \notin Ended
  <2> DEFINE R == RowTokens(Row(f))
  <2>1. R \in Seq(Token) /\ Piece(R)
    BY PendingFlows
  <2>2. /\ file' \in Seq(Token)
        /\ buffer' \in Seq(Token)
        /\ file' \o buffer' = Content \o R
        /\ InitialPart(file, file')
        /\ first_item' = (first_item /\ format # "json")
        /\ closed' = closed
    BY <1>1, <1>2, <2>1, WriteFlowFacts DEF AddsRow
  <2> HIDE DEF R
  <2>3. Content \o R \in Seq(Token)
    BY <1>1, <2>1, ContentType, ConcatFacts
  <2>4. Remains(Content \o R, Content \o R)
    BY <2>3, LenProperties DEF Remains
  <2>5. Continues(R)
    BY <2>1, <2>2, <2>4 DEF Continues
  <2>6. QED
    BY <1>1, <1>2, <2>2, <2>5 DEF WriterType, AddsRow, Ended
<1>3. CASE Closes
  <2>1. first_item' = first_item /\ closed' = TRUE /\ buffer' = <<>>
        /\ \E w : Continues(w)
    BY <1>1, <1>3, FinishFacts DEF Closes
  <2>2. QED
    BY <1>1, <2>1 DEF WriterType
<1>4. CASE Breaks
  <2>1. (\E w : Continues(w)) /\ buffer' = <<>>
    BY <1>1, <1>4, PendingFlows, FailWriteFacts, FailFinishFacts,
       CutWriteFacts, CutFinishFacts, LoseBufferFacts
    DEF Breaks
  <2>2. first_item' = first_item /\ (closed' = TRUE \/ closed' = closed)
    BY <1>4 DEF Breaks, FailWrite, FailFinish, CutWrite, CutFinish, SomeOf, LoseBuffer
  <2>3. QED
    BY <1>1, <2>1, <2>2 DEF WriterType
<1>5. QED
  BY <1>2, <1>3, <1>4

LEMMA PendingStep ==
    ASSUME EngineType, [EngineNext]_allvars
    PROVE  /\ pending' \subseteq handed'
           /\ pc' \notin {"write", "final"} => pending' = {}
<1>1. /\ pending \subseteq handed
      /\ pc \notin {"write", "final"} => pending = {}
  BY DEF EngineType
<1>2. CASE Start \/ OpenFails \/ CreateFails
  BY <1>1, <1>2 DEF Start, OpenFails, CreateFails, Ended
<1>3. CASE TakePacket
  BY <1>1, <1>3 DEF TakePacket, Reading
<1>4. CASE Drain
  BY <1>4 DEF Drain, GetFinishedFlows
<1>5. CASE LastPackets
  BY <1>5 DEF LastPackets
<1>6. ASSUME UNCHANGED generator PROVE handed' = handed
  BY <1>6 DEF generator, vars
<1>7. CASE CheckFlag \/ NoPacket \/ Written \/ ReadFails
  BY <1>1, <1>6, <1>7 DEF CheckFlag, NoPacket, Written, ReadFails, Reading
<1>8. CASE Succeed \/ FinishFails \/ DropFails
  BY <1>1, <1>6, <1>8 DEF Succeed, FinishFails, DropFails, Reading
<1>9. ASSUME NEW f \in pending, Write(f) \/ WriteLast(f)
      PROVE  /\ pending' \subseteq handed'
             /\ pc' \notin {"write", "final"} => pending' = {}
  BY <1>1, <1>6, <1>9 DEF Write, WriteLast
<1>10. ASSUME NEW f \in pending, WriteFails(f) PROVE pending' = {}
  BY <1>10 DEF WriteFails
<1>11. CASE Kill
  BY <1>11 DEF Kill
<1>12. CASE Stop \/ UNCHANGED allvars
  BY <1>1, <1>6, <1>12 DEF Stop, allvars, engine
<1>13. QED
  BY <1>2, <1>3, <1>4, <1>5, <1>7, <1>8, <1>9, <1>10, <1>11, <1>12
  DEF EngineNext, Work, Happening, Terminated

LEMMA EngineTypeStep == EngineType /\ [EngineNext]_allvars => EngineType'
<1> SUFFICES ASSUME EngineType, [EngineNext]_allvars PROVE EngineType'
  OBVIOUS
<1>1. TypeInv'
  BY TableStep, TypeStep, FreshType DEF EngineType
<1>2. /\ format' = format /\ live' = live
      /\ \/ Rests \/ Begins \/ BadStart
         \/ (\E f \in pending : AddsRow(f)) \/ Closes \/ Breaks
  BY FileStep
<1>3. WriterType
  BY DEF EngineType
<1>4. WriterType' /\ (pc' \in Ended => buffer' = <<>>)
  <2>1. CASE Rests
    <3>1. WriterType'
      BY <1>2, <1>3, <2>1 DEF Rests, WriterType
    <3>2. pc' \in Ended => pc \in Ended
      BY <2>1 DEF Rests, Active, Ended
    <3>3. QED
      BY <2>1, <3>1, <3>2 DEF Rests, EngineType
  <2>2. CASE Begins
    <3>1. /\ file' \in Seq(Token) /\ buffer' \in Seq(Token)
          /\ first_item' = TRUE /\ closed' = FALSE
      BY <1>3, <2>2, CreateFacts DEF Begins
    <3>2. QED
      BY <1>2, <1>3, <2>2, <3>1 DEF WriterType, Begins, Ended
  <2>3. CASE (\E f \in pending : AddsRow(f)) \/ Closes \/ Breaks
    <3>1. /\ file' \in Seq(Token) /\ buffer' \in Seq(Token)
          /\ first_item' \in BOOLEAN /\ closed' \in BOOLEAN
          /\ pc' \in Ended => buffer' = <<>>
      BY <2>3, StepContinues DEF Continues
    <3>2. QED
      BY <1>2, <1>3, <3>1 DEF WriterType
  <2>4. CASE BadStart
    <3>1. /\ file' \in Seq(Token) /\ buffer' = buffer
          /\ first_item' = first_item /\ closed' = closed
      BY <1>3, <2>4, FailCreateFacts DEF BadStart
    <3>2. buffer = <<>>
      BY <2>4 DEF BadStart, EngineType
    <3>3. QED
      BY <1>2, <1>3, <3>1, <3>2 DEF WriterType
  <2>5. QED
    BY <1>2, <2>1, <2>2, <2>3, <2>4
<1>5. /\ pc' \in Active \cup Ended
      /\ run' \in Nat /\ broken' \in Nat
  <2>1. pc \in Active \cup Ended /\ run \in Nat /\ broken \in Nat
    BY DEF EngineType
  <2>2. CASE Rests
    BY <2>1, <2>2 DEF Rests, Ended
  <2>3. CASE Begins
    BY <2>1, <2>3 DEF Begins, Active
  <2>4. CASE \E f \in pending : AddsRow(f)
    BY <2>1, <2>4 DEF AddsRow
  <2>5. CASE Closes \/ Breaks \/ BadStart
    BY <2>1, <2>5 DEF Closes, Breaks, BadStart, Ended
  <2>6. QED
    BY <1>2, <2>2, <2>3, <2>4, <2>5
<1>6. QED
  BY <1>1, <1>2, <1>4, <1>5, PendingStep DEF EngineType

LEMMA EngineTypeInit == EngineInit => EngineType
<1> SUFFICES ASSUME EngineInit PROVE EngineType
  OBVIOUS
<1>1. TypeInv
  BY TypeInit DEF EngineInit
<1>2. WriterType
  <2>1. <<>> \in Seq(Token)
    BY EmptySeq
  <2>2. QED
    BY <2>1, FormatAssumption DEF EngineInit, InitWriter, WriterType
<1>3. QED
  BY <1>1, <1>2, EngineAssumption DEF EngineInit, InitWriter, EngineType, Ended

\* Every variable of the engine stays in its type, a flow is pending only
\* while rows are written, and the buffer is empty between the runs.
THEOREM EngineTypeCorrect == EngineSpec => []EngineType
BY EngineTypeInit, EngineTypeStep, PTL DEF EngineSpec

-----------------------------------------------------------------------------
(* CSV files.                                                              *)

\* A place in a concatenation is in the first part or in the second.
LEMMA ConcatPlaces ==
    ASSUME NEW s \in Seq(Token), NEW t \in Seq(Token),
           NEW i \in 1 .. Len(s \o t)
    PROVE  \/ i \in 1 .. Len(s) /\ (s \o t)[i] = s[i]
           \/ \E j \in 1 .. Len(t) : i = Len(s) + j /\ (s \o t)[i] = t[j]
<1>1. /\ Len(s) \in Nat /\ Len(t) \in Nat
      /\ Len(s \o t) = Len(s) + Len(t)
      /\ \A k \in 1 .. Len(s) : (s \o t)[k] = s[k]
      /\ \A k \in 1 .. Len(t) : (s \o t)[Len(s) + k] = t[k]
  BY ConcatFacts
<1>2. CASE i <= Len(s)
  BY <1>1, <1>2
<1>3. CASE ~(i <= Len(s))
  <2>1. i - Len(s) \in 1 .. Len(t) /\ i = Len(s) + (i - Len(s))
    BY <1>1, <1>3
  <2>2. PICK j \in 1 .. Len(t) : i = Len(s) + j
    BY <2>1
  <2>3. QED
    BY <1>1, <2>2
<1>4. QED
  BY <1>2, <1>3

\* Between the runs the buffer is empty.
LEMMA AtRest ==
    ASSUME EngineType, pc \in Ended
    PROVE  Content = file
BY ConcatEmptySeq DEF EngineType, WriterType, Content

IsHeader(t) == t \in {Header, TornHeader}

\* A CSV file that has a header, whole or cut, and the rows after it.
Headed(f, c) ==
    /\ \/ Len(f) >= 2 /\ f[1] = Header /\ f[2] = NL
       \/ broken > 0 /\ Len(f) >= 1 /\ IsHeader(f[1])
    /\ \A i \in 2 .. Len(c) : ~IsHeader(c[i])

HeaderInv ==
    format = "csv" =>
        \/ pc \in Ended /\ Content = <<>>
        \/ Headed(file, Content)

\* The file and the content when nothing is in the buffer.
LEMMA EmptyBuffer ==
    ASSUME file' \in Seq(Token), buffer' = <<>>
    PROVE  Content' = file'
BY ConcatEmptySeq DEF Content

LEMMA FreshHeader ==
    ASSUME format' = "csv", file' \in {<<TornHeader>>, <<Header>>, <<Header, NL>>},
           buffer' = <<>>, file' = <<Header, NL>> \/ broken' > 0
    PROVE  HeaderInv'
<1>1. Content' = file'
  BY EmptyOutputs, EmptyBuffer
<1>2. CASE file' = <<Header, NL>>
  <2>1. Len(file') = 2 /\ file'[1] = Header /\ file'[2] = NL
    BY <1>2
  <2>2. ~IsHeader(NL)
    BY TokenFacts DEF IsHeader, NL, TornHeader
  <2>3. \A i \in 2 .. Len(Content') : i = 2
    BY <1>1, <2>1
  <2>4. QED
    BY <1>1, <2>1, <2>2, <2>3 DEF HeaderInv, Headed, IsHeader
<1>3. ASSUME NEW x \in {TornHeader, Header}, file' = <<x>>, broken' > 0
      PROVE  HeaderInv'
  <2>1. Len(file') = 1 /\ IsHeader(file'[1])
    BY <1>3 DEF IsHeader
  <2>2. QED
    BY <1>1, <1>3, <2>1 DEF HeaderInv, Headed, IsHeader
<1>4. QED
  BY <1>2, <1>3

LEMMA HeaderStep ==
    ASSUME EngineType, HeaderInv, [EngineNext]_allvars
    PROVE  HeaderInv'
<1> SUFFICES ASSUME format = "csv" PROVE HeaderInv'
  BY FileStep DEF HeaderInv
<1>1. /\ format' = "csv"
      /\ \/ Rests \/ Begins \/ BadStart
         \/ (\E f \in pending : AddsRow(f)) \/ Closes \/ Breaks
  BY FileStep
<1>2. WriterType /\ broken \in Nat
  BY DEF EngineType
<1>3. ASSUME file' = file, Content' = Content, pc' \in Ended \/ file # <<>>,
             broken' = broken \/ broken' = broken + 1
      PROVE  HeaderInv'
  <2>1. CASE Content = <<>>
    <3>1. file = <<>>
      BY <1>2, <2>1, ConcatSimplifications DEF Content, WriterType
    <3>2. QED
      BY <1>3, <2>1, <3>1 DEF HeaderInv
  <2>2. CASE Content # <<>>
    <3>1. Headed(file, Content)
      BY <2>2 DEF HeaderInv
    <3>2. broken > 0 => broken' > 0
      BY <1>2, <1>3
    <3>3. QED
      BY <1>1, <1>3, <3>1, <3>2 DEF HeaderInv, Headed, IsHeader
  <2>3. QED
    BY <2>1, <2>2
<1>4. CASE Rests
  <2>1. /\ Content' = Content /\ file' = file /\ broken' = broken
        /\ pc \in Ended => pc' \in Ended
    BY <1>4 DEF Rests, Content, Active, Ended
  <2>2. CASE Content = <<>> /\ pc \in Ended
    BY <2>1, <2>2 DEF HeaderInv
  <2>3. CASE Headed(file, Content)
    BY <1>1, <2>1, <2>3 DEF HeaderInv, Headed, IsHeader
  <2>4. QED
    BY <2>2, <2>3 DEF HeaderInv
<1>5. CASE Begins
  <2>1. Content = file
    BY <1>5, AtRest DEF Begins
  <2>2. CASE file = <<>>
    BY <1>1, <1>2, <1>5, <2>2, CreateFacts, FreshHeader DEF Begins
  <2>3. CASE file # <<>>
    <3>1. file' = file /\ buffer' = <<>> /\ broken' = broken
      BY <1>2, <1>5, <2>3, CreateFacts DEF Begins
    <3>2. Content' = Content
      BY <1>2, <2>1, <3>1, EmptyBuffer DEF WriterType
    <3>3. QED
      BY <1>3, <2>3, <3>1, <3>2
  <2>4. QED
    BY <2>2, <2>3
<1>6. CASE BadStart
  <2>1. /\ Content = file /\ buffer = <<>>
        /\ pc' \in Ended /\ broken' = broken + 1
    BY <1>6, AtRest DEF BadStart, EngineType, Ended
  <2>2. file' \in Seq(Token) /\ buffer' = <<>> /\ Content' = file'
    BY <1>2, <1>6, <2>1, FailCreateFacts, EmptyBuffer DEF BadStart
  <2>3. CASE file' = file
    BY <1>3, <2>1, <2>2, <2>3
  <2>4. CASE file' \in {<<TornHeader>>, <<Header>>, <<Header, NL>>}
    <3>1. broken' > 0
      BY <1>2, <2>1
    <3>2. QED
      BY <1>1, <2>2, <2>4, <3>1, FreshHeader
  <2>5. QED
    BY <1>2, <1>6, <2>3, <2>4, FailCreateFacts DEF BadStart
<1>7. CASE (\E f \in pending : AddsRow(f)) \/ Closes \/ Breaks
  <2>1. pc \notin Ended /\ (broken' = broken \/ broken' = broken + 1)
    BY <1>7 DEF AddsRow, Closes, Breaks, Active, Ended
  <2>2. Headed(file, Content)
    BY <2>1 DEF HeaderInv
  <2>3. PICK w : Continues(w)
    BY <1>7, StepContinues
  <2>4. Len(file) \in Nat /\ Len(file') \in Nat /\ Len(Content) \in Nat
    BY <1>2, <2>3, LenProperties, ContentType DEF WriterType, Continues
  <2>5. \/ Len(file') >= 2 /\ file'[1] = Header /\ file'[2] = NL
        \/ broken' > 0 /\ Len(file') >= 1 /\ IsHeader(file'[1])
    <3>1. Len(file) <= Len(file') /\ \A i \in 1 .. Len(file) : file'[i] = file[i]
      BY <2>3 DEF Continues, InitialPart
    <3>2. CASE Len(file) >= 2 /\ file[1] = Header /\ file[2] = NL
      <4>1. 1 \in 1 .. Len(file) /\ 2 \in 1 .. Len(file) /\ Len(file') >= 2
        BY <2>4, <3>1, <3>2
      <4>2. QED
        BY <3>1, <3>2, <4>1
    <3>3. CASE broken > 0 /\ Len(file) >= 1 /\ IsHeader(file[1])
      <4>1. 1 \in 1 .. Len(file) /\ Len(file') >= 1 /\ broken' > 0
        BY <1>2, <2>1, <2>4, <3>1, <3>3
      <4>2. QED
        BY <3>1, <3>3, <4>1 DEF IsHeader
    <3>4. QED
      BY <2>2, <3>2, <3>3 DEF Headed
  <2>6. ASSUME NEW i \in 2 .. Len(Content') PROVE ~IsHeader(Content'[i])
    <3>1. /\ w \in Seq(Token)
          /\ \A j \in 1 .. Len(w) : ~IsHeader(w[j])
          /\ Remains(Content', Content \o w)
          /\ Content' \in Seq(Token)
      BY <2>3, ConcatFacts DEF Continues, Content, Piece, IsHeader
    <3>2. Content \in Seq(Token) /\ Content \o w \in Seq(Token)
      BY <1>2, <3>1, ContentType, ConcatFacts
    <3>3. Len(Content') \in Nat /\ Len(Content \o w) \in Nat
      BY <3>1, <3>2, LenProperties
    <3>4. /\ i \in 1 .. Len(Content') /\ i \in 1 .. Len(Content \o w) /\ i >= 2
          /\ Content'[i] = (Content \o w)[i] \/ Content'[i] = TornRow
      BY <3>1, <3>3 DEF Remains
    <3>5. \/ i \in 1 .. Len(Content) /\ (Content \o w)[i] = Content[i]
          \/ \E j \in 1 .. Len(w) : (Content \o w)[i] = w[j]
      BY <3>1, <3>2, <3>4, ConcatPlaces
    <3>6. ~IsHeader(TornRow)
      BY TokenFacts DEF IsHeader
    <3>7. i \in 1 .. Len(Content) => ~IsHeader(Content[i])
      BY <2>2, <3>4 DEF Headed
    <3>8. QED
      BY <3>1, <3>4, <3>5, <3>6, <3>7
  <2>7. QED
    BY <2>5, <2>6 DEF HeaderInv, Headed, IsHeader
<1>8. QED
  BY <1>1, <1>4, <1>5, <1>6, <1>7

LEMMA HeaderInit == EngineInit => HeaderInv
<1> SUFFICES ASSUME EngineInit PROVE HeaderInv
  OBVIOUS
<1>1. pc \in Ended /\ file = <<>>
  BY DEF EngineInit, InitWriter, Ended
<1>2. Content = file
  BY <1>1, EngineTypeInit, AtRest
<1>3. QED
  BY <1>1, <1>2 DEF HeaderInv

\* A CSV file has one header, its first line, which is whole unless a kill or
\* a failed write has cut it: for every number of runs, kills and failures,
\* of the header's own write too.
THEOREM HeaderOnce == EngineSpec => []HeaderFirstOnly
<1>1. EngineType /\ HeaderInv => HeaderFirstOnly
  <2> SUFFICES ASSUME EngineType, HeaderInv, format = "csv", file # <<>>
               PROVE  /\ \/ file[1] = Header /\ Len(file) > 1 /\ file[2] = NL
                         \/ broken > 0 /\ file[1] \in {Header, TornHeader}
                      /\ \A i \in 2 .. Len(file) : file[i] \notin {Header, TornHeader}
    BY DEF HeaderFirstOnly
  <2>1. WriterType
    BY DEF EngineType
  <2>2. Content # <<>>
    <3>1. file \in Seq(Token) /\ buffer \in Seq(Token)
      BY <2>1 DEF WriterType
    <3>2. QED
      BY <3>1, ConcatSimplifications DEF Content
  <2>3. Headed(file, Content)
    BY <2>2 DEF HeaderInv
  <2>4. /\ Len(file) \in Nat /\ Len(Content) \in Nat
        /\ Len(file) <= Len(Content)
        /\ \A i \in 1 .. Len(file) : Content[i] = file[i]
    BY <2>1, ContentType DEF WriterType
  <2>5. \A i \in 2 .. Len(file) : i \in 1 .. Len(file) /\ i \in 2 .. Len(Content)
    BY <2>4
  <2>6. \A i \in 2 .. Len(file) : file[i] \notin {Header, TornHeader}
    BY <2>3, <2>4, <2>5 DEF Headed, IsHeader
  <2>7. \/ file[1] = Header /\ Len(file) > 1 /\ file[2] = NL
        \/ broken > 0 /\ file[1] \in {Header, TornHeader}
    BY <2>3, <2>4 DEF Headed, IsHeader
  <2>8. QED
    BY <2>6, <2>7
<1>2. EngineType /\ HeaderInv /\ [EngineNext]_allvars => HeaderInv'
  BY HeaderStep
<1>3. QED
  BY <1>1, <1>2, HeaderInit, EngineTypeCorrect, PTL DEF EngineSpec

LEMMA InitialPartMeaning ==
    ASSUME NEW s \in Seq(Token), NEW t \in Seq(Token), InitialPart(s, t)
    PROVE  Len(s) <= Len(t) /\ SubSeq(t, 1, Len(s)) = s
<1>1. Len(s) \in Nat /\ Len(t) \in Nat /\ Len(s) <= Len(t)
      /\ \A i \in 1 .. Len(s) : t[i] = s[i]
  BY LenProperties DEF InitialPart
<1>2. Len(s) \in 0 .. Len(t)
  BY <1>1
<1>3. /\ SubSeq(t, 1, Len(s)) \in Seq(Token)
      /\ Len(SubSeq(t, 1, Len(s))) = Len(s)
      /\ \A i \in 1 .. Len(s) : SubSeq(t, 1, Len(s))[i] = t[i]
  BY <1>2, PartFacts
<1>4. \A i \in 1 .. Len(SubSeq(t, 1, Len(s))) : SubSeq(t, 1, Len(s))[i] = s[i]
  BY <1>1, <1>3
<1>5. SubSeq(t, 1, Len(s)) = s
  BY <1>3, <1>4, SeqEqual
<1>6. QED
  BY <1>1, <1>5

\* A step takes nothing back from a CSV file; nor from another but by the
\* start of a run.
LEMMA FileGrows ==
    ASSUME EngineType, [EngineNext]_allvars, format = "csv" \/ ~Begins
    PROVE  file' \in Seq(Token) /\ InitialPart(file, file')
<1>1. file \in Seq(Token) /\ InitialPart(file, file)
  BY LenProperties DEF EngineType, WriterType, InitialPart
<1>2. \/ Rests \/ Begins \/ BadStart
      \/ (\E f \in pending : AddsRow(f)) \/ Closes \/ Breaks
  BY FileStep
<1>3. CASE Rests
  BY <1>1, <1>3 DEF Rests
<1>4. CASE Begins
  <2>1. \/ file' = file
        \/ file = <<>> /\ file' = <<Header, NL>>
    BY <1>4, CreateFacts DEF Begins, EngineType
  <2>2. InitialPart(<<>>, <<Header, NL>>) /\ <<Header, NL>> \in Seq(Token)
    BY DEF InitialPart, Token
  <2>3. QED
    BY <1>1, <2>1, <2>2
<1>5. CASE (\E f \in pending : AddsRow(f)) \/ Closes \/ Breaks
  BY <1>5, StepContinues DEF Continues
<1>6. CASE BadStart
  <2>1. \/ file' = file
        \/ file = <<>> /\ file' \in Seq(Token)
    BY <1>6, FailCreateFacts DEF BadStart, EngineType
  <2>2. \A t \in Seq(Token) : InitialPart(<<>>, t)
    BY LenProperties DEF InitialPart
  <2>3. QED
    BY <1>1, <2>1, <2>2
<1>7. QED
  BY <1>2, <1>3, <1>4, <1>5, <1>6

\* No step of the engine, nor of the world around it, shortens a CSV file or
\* changes what is in it.
THEOREM CsvKeepsItsRows == EngineSpec => CsvOnlyGrows
<1>1. EngineType /\ [EngineNext]_allvars =>
        [ format = "csv" =>
            /\ Len(file) <= Len(file')
            /\ SubSeq(file', 1, Len(file)) = file ]_file
  <2> SUFFICES ASSUME EngineType, [EngineNext]_allvars, format = "csv"
               PROVE  /\ Len(file) <= Len(file')
                      /\ SubSeq(file', 1, Len(file)) = file
    OBVIOUS
  <2>1. file \in Seq(Token)
    BY DEF EngineType, WriterType
  <2>2. QED
    BY <2>1, FileGrows, InitialPartMeaning
<1>2. QED
  BY <1>1, EngineTypeCorrect, PTL DEF EngineSpec, CsvOnlyGrows

-----------------------------------------------------------------------------
(* Lines that are spoilt.                                                  *)

\* A line begins at i.
LineStart(s, i) == i = 1 \/ s[i - 1] = NL

\* Lines of an output that are not a header or a row with its end.
Spoilt(s) ==
    {i \in 1 .. Len(s) :
        /\ LineStart(s, i)
        /\ ~ /\ s[i] = Header \/ IsRow(s[i])
             /\ i < Len(s) /\ s[i + 1] = NL}

LEMMA SpoiltFinite ==
    ASSUME NEW s \in Seq(Token)
    PROVE  IsFiniteSet(Spoilt(s)) /\ Cardinality(Spoilt(s)) \in Nat
<1>1. IsFiniteSet(1 .. Len(s))
  BY FS_Interval, LenProperties
<1>2. Spoilt(s) \subseteq 1 .. Len(s)
  BY DEF Spoilt
<1>3. IsFiniteSet(Spoilt(s))
  BY <1>1, <1>2, FS_Subset
<1>4. QED
  BY <1>3, FS_CardinalityType

\* A continued output has no spoilt line that it did not have, but for one at
\* its very end.
LEMMA SpoiltContinue ==
    ASSUME NEW s \in Seq(Token), NEW t \in Seq(Token), NEW w, Piece(w),
           Remains(t, s \o w), format # "json"
    PROVE  Spoilt(t) \subseteq Spoilt(s) \cup {Len(t)}
<1> SUFFICES ASSUME NEW i \in Spoilt(t), i # Len(t) PROVE i \in Spoilt(s)
  OBVIOUS
<1> DEFINE u == s \o w
<1>1. w \in Seq(Token)
  BY DEF Piece
<1>2. /\ u \in Seq(Token)
      /\ Len(s) \in Nat /\ Len(w) \in Nat /\ Len(t) \in Nat
      /\ Len(u) = Len(s) + Len(w)
      /\ \A j \in 1 .. Len(s) : u[j] = s[j]
      /\ \A j \in 1 .. Len(w) : u[Len(s) + j] = w[j]
  BY <1>1, ConcatFacts, LenProperties
<1>3. /\ Len(t) <= Len(u)
      /\ \A j \in 1 .. Len(t) : j < Len(t) => t[j] = u[j]
      /\ \A j \in 1 .. Len(t) : t[j] = NL <=> u[j] = NL
  <2>1. \A j \in 1 .. Len(t) :
          \/ t[j] = u[j]
          \/ j = Len(t) /\ t[j] = TornRow /\ IsRow(u[j])
    BY DEF Remains
  <2>2. TornRow # NL /\ \A x : IsRow(x) => x # NL
    BY TokenFacts
  <2>3. Len(t) <= Len(u)
    BY DEF Remains
  <2> HIDE DEF u
  <2>4. \A j \in 1 .. Len(t) : j < Len(t) => t[j] = u[j]
    BY <1>2, <2>1
  <2>5. \A j \in 1 .. Len(t) : t[j] = NL <=> u[j] = NL
    BY <2>1, <2>2
  <2>6. QED
    BY <2>3, <2>4, <2>5
<1>4. \/ i \in 1 .. Len(s) /\ u[i] = s[i]
      \/ \E j \in 1 .. Len(w) : i = Len(s) + j /\ u[i] = w[j]
  <2>1. i \in 1 .. Len(u)
    BY <1>2, <1>3 DEF Spoilt
  <2>2. QED
    BY <1>1, <2>1, ConcatPlaces
<1> HIDE DEF u
<1>5. /\ i \in 1 .. Len(t) /\ i < Len(t) /\ i + 1 \in 1 .. Len(t)
      /\ LineStart(t, i)
      /\ ~((t[i] = Header \/ IsRow(t[i])) /\ t[i + 1] = NL)
  BY <1>2 DEF Spoilt
<1>6. ~((u[i] = Header \/ IsRow(u[i])) /\ u[i + 1] = NL)
  BY <1>3, <1>5
<1>7. LineStart(u, i)
  <2>1. i # 1 => i - 1 \in 1 .. Len(t)
    BY <1>2, <1>5
  <2>2. QED
    BY <1>3, <1>5, <2>1 DEF LineStart
<1>8. CASE i \in 1 .. Len(s) /\ u[i] = s[i]
  <2>1. LineStart(s, i)
    <3>1. i # 1 => i - 1 \in 1 .. Len(s)
      BY <1>2, <1>8
    <3>2. QED
      BY <1>2, <1>7, <3>1 DEF LineStart
  <2>2. i < Len(s) => u[i + 1] = s[i + 1]
    BY <1>2, <1>8
  <2>3. QED
    BY <1>6, <1>8, <2>1, <2>2 DEF Spoilt
<1>9. CASE \E j \in 1 .. Len(w) : i = Len(s) + j /\ u[i] = w[j]
  <2>1. PICK j \in 1 .. Len(w) : i = Len(s) + j /\ u[i] = w[j]
    BY <1>9
  <2>2. i + 1 = Len(s) + (j + 1) /\ j + 1 \in 1 .. Len(w) /\ j < Len(w)
    BY <1>2, <1>3, <1>5, <2>1
  <2>3. IsRow(w[j]) /\ w[j + 1] = NL
    BY <2>1, <2>2 DEF Piece
  <2>4. u[i + 1] = w[j + 1]
    BY <1>2, <2>2
  <2>5. QED
    BY <1>6, <2>1, <2>3, <2>4
<1>10. QED
  BY <1>4, <1>8, <1>9

\* What a file is given before the first row spoils its first line at most.
LEMMA SpoiltHeaders ==
    /\ Spoilt(<<>>) = {} /\ Spoilt(<<Header, NL>>) = {}
    /\ Spoilt(<<Header>>) \subseteq {1} /\ Spoilt(<<TornHeader>>) \subseteq {1}
<1>1. Spoilt(<<>>) = {}
  BY DEF Spoilt
<1>2. \A x : Len(<<x>>) = 1
  OBVIOUS
<1>3. Spoilt(<<Header>>) \subseteq {1} /\ Spoilt(<<TornHeader>>) \subseteq {1}
  BY <1>2 DEF Spoilt
<1>4. Spoilt(<<Header, NL>>) = {}
  <2>1. Len(<<Header, NL>>) = 2 /\ <<Header, NL>>[1] = Header /\ <<Header, NL>>[2] = NL
    OBVIOUS
  <2>2. \A i \in 1 .. 2 : i = 1 \/ i = 2
    OBVIOUS
  <2>3. Header # NL
    BY TokenFacts
  <2>4. QED
    BY <2>1, <2>2, <2>3 DEF Spoilt, LineStart
<1>5. QED
  BY <1>1, <1>3, <1>4

LEMMA OneMore ==
    ASSUME NEW S, IsFiniteSet(S), NEW x, NEW T, T \subseteq S \cup {x}
    PROVE  Cardinality(T) \in Nat /\ Cardinality(T) <= Cardinality(S) + 1
<1>1. PICK n \in Nat : n = Cardinality(S)
  BY FS_CardinalityType
<1>2. /\ IsFiniteSet(S \cup {x})
      /\ Cardinality(S \cup {x}) \in {Cardinality(S), Cardinality(S) + 1}
  BY FS_AddElement
<1>3. Cardinality(T) \in Nat /\ Cardinality(T) <= Cardinality(S \cup {x})
  BY <1>2, FS_Subset, FS_CardinalityType
<1>4. PICK m : m = Cardinality(S \cup {x})
  OBVIOUS
<1>5. m = n \/ m = n + 1
  BY <1>1, <1>2, <1>4
<1>6. QED
  BY <1>1, <1>3, <1>4, <1>5

SpoiltInv == format # "json" => Cardinality(Spoilt(Content)) <= broken

LEMMA SpoiltStep ==
    ASSUME EngineType, SpoiltInv, [EngineNext]_allvars
    PROVE  SpoiltInv'
<1> SUFFICES ASSUME format # "json" PROVE Cardinality(Spoilt(Content')) <= broken'
  BY FileStep DEF SpoiltInv
<1>1. /\ format' = format
      /\ \/ Rests \/ Begins \/ BadStart
         \/ (\E f \in pending : AddsRow(f)) \/ Closes \/ Breaks
  BY FileStep
<1>2. /\ WriterType /\ broken \in Nat /\ Content \in Seq(Token)
      /\ Cardinality(Spoilt(Content)) <= broken
      /\ IsFiniteSet(Spoilt(Content)) /\ Cardinality(Spoilt(Content)) \in Nat
  BY ContentType, SpoiltFinite DEF EngineType, SpoiltInv
<1>3. ASSUME Spoilt(Content') \subseteq Spoilt(Content), broken' = broken
      PROVE  Cardinality(Spoilt(Content')) <= broken'
  <2>1. Cardinality(Spoilt(Content')) <= Cardinality(Spoilt(Content))
        /\ Cardinality(Spoilt(Content')) \in Nat
    BY <1>2, <1>3, FS_Subset, FS_CardinalityType
  <2>2. QED
    BY <1>2, <1>3, <2>1
<1>4. ASSUME NEW x, Spoilt(Content') \subseteq Spoilt(Content) \cup {x},
             broken' = broken + 1
      PROVE  Cardinality(Spoilt(Content')) <= broken'
  <2>1. Cardinality(Spoilt(Content')) <= Cardinality(Spoilt(Content)) + 1
        /\ Cardinality(Spoilt(Content')) \in Nat
    BY <1>2, <1>4, OneMore
  <2>2. QED
    BY <1>2, <1>4, <2>1
<1>5. CASE Rests
  <2>1. Content' = Content
    BY <1>5 DEF Rests, Content
  <2>2. QED
    BY <1>3, <1>5, <2>1 DEF Rests
<1>6. CASE Begins
  <2>1. /\ buffer' = <<>> /\ file' \in Seq(Token)
        /\ file' = file \/ file' = <<>> \/ file' = <<Header, NL>>
    BY <1>2, <1>6, CreateFacts DEF Begins, WriterType
  <2>2. Content' = file' /\ Content = file
    BY <1>6, <2>1, EmptyBuffer, AtRest DEF Begins
  <2>3. Spoilt(Content') \subseteq Spoilt(Content)
    BY <2>1, <2>2, SpoiltHeaders
  <2>4. QED
    BY <1>3, <1>6, <2>3 DEF Begins
<1>7. CASE BadStart
  <2>1. Content = file /\ buffer = <<>> /\ broken' = broken + 1
    BY <1>7, AtRest DEF BadStart, EngineType
  <2>2. /\ file' \in Seq(Token) /\ buffer' = <<>>
        /\ file' = file \/ file' \in {<<TornHeader>>, <<Header>>, <<Header, NL>>}
    BY <1>2, <1>7, <2>1, FailCreateFacts DEF BadStart
  <2>3. Content' = file'
    BY <2>2, EmptyBuffer
  <2>4. Spoilt(Content') \subseteq Spoilt(Content) \cup {1}
    BY <2>1, <2>2, <2>3, SpoiltHeaders
  <2>5. QED
    BY <1>4, <2>1, <2>4
<1>8. ASSUME NEW f \in pending, AddsRow(f)
      PROVE  Cardinality(Spoilt(Content')) <= broken'
  <2> DEFINE R == RowTokens(Row(f))
  <2>1. R \in Seq(Token) /\ Piece(R)
    BY PendingFlows
  <2>2. Content' = Content \o R /\ Content' \in Seq(Token)
    BY <1>2, <1>8, <2>1, WriteFlowFacts, ConcatFacts DEF AddsRow, Content
  <2>3. Len(R) = 2 /\ IsRow(R[1]) /\ R[2] = NL
    BY PendingFlows, TokenFacts DEF RowTokens
  <2> HIDE DEF R
  <2>4. /\ Len(Content) \in Nat
        /\ Len(Content') = Len(Content) + 2
        /\ IsRow(Content'[Len(Content) + 1])
    <3>1. /\ Len(Content \o R) = Len(Content) + Len(R)
          /\ \A i \in 1 .. Len(R) : (Content \o R)[Len(Content) + i] = R[i]
      BY <1>2, <2>1, ConcatFacts
    <3>2. 1 \in 1 .. Len(R)
      BY <2>3
    <3>3. QED
      BY <1>2, <2>2, <2>3, <3>1, <3>2, ContentType
  <2>5. Len(Content') \notin Spoilt(Content')
    <3>1. Len(Content') # 1 /\ Len(Content') - 1 = Len(Content) + 1
      BY <2>4
    <3>2. Content'[Len(Content') - 1] # NL
      BY <2>4, <3>1, TokenFacts
    <3>3. QED
      BY <3>1, <3>2 DEF Spoilt, LineStart
  <2>6. Remains(Content', Content \o R)
    BY <2>2, LenProperties DEF Remains
  <2>7. Spoilt(Content') \subseteq Spoilt(Content) \cup {Len(Content')}
    BY <1>2, <2>1, <2>2, <2>6, SpoiltContinue
  <2>8. QED
    BY <1>3, <1>8, <2>5, <2>7 DEF AddsRow
<1>9. CASE Closes
  <2>1. Content' = Content
    <3>1. file' = Content \o <<>> /\ buffer' = <<>>
      BY <1>2, <1>9, FinishFacts DEF Closes
    <3>2. Content \o <<>> = Content
      BY <1>2, ConcatEmptySeq
    <3>3. QED
      BY <3>1, <3>2 DEF Content
  <2>2. QED
    BY <1>3, <1>9, <2>1 DEF Closes
<1>10. CASE Breaks
  <2>1. PICK w : Continues(w)
    BY <1>10, StepContinues
  <2>2. /\ Content' \in Seq(Token) /\ Piece(w)
        /\ Remains(Content', Content \o w)
    BY <2>1, ConcatFacts DEF Continues, Content
  <2>3. Spoilt(Content') \subseteq Spoilt(Content) \cup {Len(Content')}
    BY <1>2, <2>2, SpoiltContinue
  <2>4. broken' = broken + 1
    BY <1>10 DEF Breaks
  <2>5. PICK x : x = Len(Content')
    OBVIOUS
  <2>6. QED
    BY <1>4, <2>3, <2>4, <2>5
<1>11. QED
  BY <1>1, <1>5, <1>6, <1>7, <1>8, <1>9, <1>10

LEMMA SpoiltInit == EngineInit => SpoiltInv
<1> SUFFICES ASSUME EngineInit PROVE SpoiltInv
  OBVIOUS
<1>1. pc \in Ended /\ file = <<>> /\ broken = 0
  BY DEF EngineInit, InitWriter, Ended
<1>2. Content = <<>>
  BY <1>1, EngineTypeInit, AtRest
<1>3. Spoilt(Content) = {}
  BY <1>2, SpoiltHeaders
<1>4. Cardinality(Spoilt(Content)) = 0
  BY <1>3, FS_EmptySet
<1>5. QED
  BY <1>1, <1>4 DEF SpoiltInv

\* However often the program is killed or its disk fails, each time costs at
\* most one line of a CSV or JSON Lines file, counting as one the cut line
\* and the row that a later run appends to it.
THEOREM OneLinePerBreak == EngineSpec => []LinesStayWhole
<1>1. EngineType /\ SpoiltInv => LinesStayWhole
  <2> SUFFICES ASSUME EngineType, SpoiltInv, format # "json"
               PROVE  Cardinality(SpoiltLines) <= broken
    BY DEF LinesStayWhole
  <2>1. /\ Content \in Seq(Token) /\ broken \in Nat
        /\ Len(file) \in Nat /\ Len(Content) \in Nat /\ Len(file) <= Len(Content)
        /\ \A i \in 1 .. Len(file) : Content[i] = file[i]
        /\ pc \in Active \/ pc \in Ended
    BY ContentType DEF EngineType
  <2>2. SpoiltLines \subseteq Spoilt(Content)
    <3> SUFFICES ASSUME NEW i \in SpoiltLines PROVE i \in Spoilt(Content)
      OBVIOUS
    <3>1. /\ i \in 1 .. Len(file) /\ (i = 1 \/ file[i - 1] = NL)
          /\ ~ /\ file[i] = Header \/ IsRow(file[i])
               /\ IF i < Len(file) THEN file[i + 1] = NL ELSE pc \in Active
      BY DEF SpoiltLines
    <3>2. i # 1 => i - 1 \in 1 .. Len(file)
      BY <2>1, <3>1
    <3>3. i \in 1 .. Len(Content) /\ Content[i] = file[i] /\ LineStart(Content, i)
      BY <2>1, <3>1, <3>2 DEF LineStart
    <3>4. CASE i < Len(file)
      <4>1. Content[i + 1] = file[i + 1]
        BY <2>1, <3>1, <3>4
      <4>2. QED
        BY <3>1, <3>3, <3>4, <4>1 DEF Spoilt
    <3>5. CASE ~(i < Len(file)) /\ pc \in Ended
      <4>1. Content = file
        BY <3>5, AtRest
      <4>2. QED
        BY <2>1, <3>1, <3>3, <3>5, <4>1 DEF Spoilt
    <3>6. CASE ~(i < Len(file)) /\ pc \in Active
      BY <3>1, <3>3, <3>6 DEF Spoilt
    <3>7. QED
      BY <2>1, <3>4, <3>5, <3>6
  <2>3. Cardinality(SpoiltLines) <= Cardinality(Spoilt(Content))
        /\ Cardinality(SpoiltLines) \in Nat /\ Cardinality(Spoilt(Content)) \in Nat
    BY <2>1, <2>2, SpoiltFinite, FS_Subset, FS_CardinalityType
  <2>4. QED
    BY <2>1, <2>3 DEF SpoiltInv
<1>2. EngineType /\ SpoiltInv /\ [EngineNext]_allvars => SpoiltInv'
  BY SpoiltStep
<1>3. QED
  BY <1>1, <1>2, SpoiltInit, EngineTypeCorrect, PTL DEF EngineSpec

-----------------------------------------------------------------------------
(* JSON files.                                                             *)

\* An array that is being written, and one that is complete.
OpenArray(s) ==
    /\ Len(s) >= 1 /\ s[1] = Open
    /\ Len(s) = 1 \/ Len(s) % 2 = 0
    /\ \A i \in 2 .. Len(s) : IF i % 2 = 0 THEN IsRow(s[i]) ELSE s[i] = Comma

WholeArray(s) ==
    /\ Len(s) >= 2
    /\ Len(s) > 2 => Len(s) % 2 = 1
    /\ s[1] = Open
    /\ s[Len(s)] = Close
    /\ \A i \in 2 .. Len(s) - 1 : IF i % 2 = 0 THEN IsRow(s[i])
                                             ELSE s[i] = Comma

LEMMA FirstElement ==
    ASSUME NEW s \in Seq(Token), OpenArray(s), Len(s) = 1, NEW r \in RowToken
    PROVE  OpenArray(s \o <<r>>) /\ Len(s \o <<r>>) # 1
<1> DEFINE w == <<r>>
           t == s \o w
<1>1. w \in Seq(Token) /\ Len(w) = 1 /\ w[1] = r /\ IsRow(r)
  BY TokenFacts DEF Token
<1> HIDE DEF w
<1>2. /\ Len(t) = Len(s) + Len(w)
      /\ \A i \in 1 .. Len(s) : t[i] = s[i]
      /\ \A i \in 1 .. Len(w) : t[Len(s) + i] = w[i]
  BY <1>1, ConcatFacts
<1> HIDE DEF t
<1>3. 1 \in 1 .. Len(s) /\ 1 \in 1 .. Len(w)
  BY <1>1
<1>4. Len(t) = 2 /\ t[1] = s[1] /\ t[Len(s) + 1] = r
  BY <1>1, <1>2, <1>3
<1>5. t[2] = r /\ t[1] = Open
  BY <1>4 DEF OpenArray
<1>6. \A i \in 2 .. 2 : i = 2 /\ i % 2 = 0
  OBVIOUS
<1>7. OpenArray(t) /\ Len(t) # 1
  BY <1>1, <1>4, <1>5, <1>6 DEF OpenArray
<1>8. QED
  BY <1>7 DEF t, w

LEMMA NextElement ==
    ASSUME NEW s \in Seq(Token), OpenArray(s), Len(s) # 1, NEW r \in RowToken
    PROVE  OpenArray(s \o <<Comma, r>>) /\ Len(s \o <<Comma, r>>) # 1
<1> DEFINE w == <<Comma, r>>
           t == s \o w
<1>1. w \in Seq(Token) /\ Len(w) = 2 /\ w[1] = Comma /\ w[2] = r /\ IsRow(r)
  BY TokenFacts DEF Token
<1> HIDE DEF w
<1>2. /\ Len(s) \in Nat
      /\ Len(t) = Len(s) + Len(w)
      /\ \A i \in 1 .. Len(s) : t[i] = s[i]
      /\ \A i \in 1 .. Len(w) : t[Len(s) + i] = w[i]
  BY <1>1, ConcatFacts
<1> HIDE DEF t
<1>3. PICK n \in Nat : n = Len(s)
  BY <1>2
<1>4. n >= 2 /\ n % 2 = 0
  BY <1>3 DEF OpenArray
<1>5. 1 \in 1 .. Len(w) /\ 2 \in 1 .. Len(w)
  BY <1>1
<1>6. Len(t) = n + 2 /\ t[n + 1] = Comma /\ t[n + 2] = r
  BY <1>1, <1>2, <1>3, <1>5
<1>7. (n + 1) % 2 = 1 /\ (n + 2) % 2 = 0
  BY <1>4
<1>8. ASSUME NEW i \in 2 .. n + 2
      PROVE  IF i % 2 = 0 THEN IsRow(t[i]) ELSE t[i] = Comma
  <2>1. i \in 2 .. n \/ i = n + 1 \/ i = n + 2
    OBVIOUS
  <2>2. CASE i \in 2 .. n
    <3>1. t[i] = s[i] /\ IF i % 2 = 0 THEN IsRow(s[i]) ELSE s[i] = Comma
      BY <1>2, <1>3, <2>2 DEF OpenArray
    <3>2. QED
      BY <3>1
  <2>3. CASE i = n + 1
    BY <1>6, <1>7, <2>3
  <2>4. CASE i = n + 2
    BY <1>1, <1>6, <1>7, <2>4
  <2>5. QED
    BY <2>1, <2>2, <2>3, <2>4
<1>9. t[1] = Open
  BY <1>2, <1>3, <1>4 DEF OpenArray
<1>10. OpenArray(t) /\ Len(t) # 1
  BY <1>4, <1>6, <1>7, <1>8, <1>9 DEF OpenArray
<1>11. QED
  BY <1>10 DEF t, w

LEMMA ArrayCloses ==
    ASSUME NEW s \in Seq(Token), OpenArray(s)
    PROVE  WholeArray(s \o <<Close>>)
<1> DEFINE w == <<Close>>
           t == s \o w
<1>1. w \in Seq(Token) /\ Len(w) = 1 /\ w[1] = Close
  BY DEF Token
<1> HIDE DEF w
<1>2. /\ Len(s) \in Nat
      /\ Len(t) = Len(s) + Len(w)
      /\ \A i \in 1 .. Len(s) : t[i] = s[i]
      /\ \A i \in 1 .. Len(w) : t[Len(s) + i] = w[i]
  BY <1>1, ConcatFacts
<1> HIDE DEF t
<1>3. PICK n \in Nat : n = Len(s)
  BY <1>2
<1>4. /\ n >= 1 /\ (n = 1 \/ n % 2 = 0)
      /\ s[1] = Open
      /\ \A i \in 2 .. n : IF i % 2 = 0 THEN IsRow(s[i]) ELSE s[i] = Comma
  BY <1>3 DEF OpenArray
<1>5. Len(t) = n + 1 /\ t[n + 1] = Close /\ \A i \in 1 .. n : t[i] = s[i]
  <2>1. 1 \in 1 .. Len(w)
    BY <1>1
  <2>2. QED
    BY <1>1, <1>2, <1>3, <2>1
<1>6. n + 1 > 2 => (n + 1) % 2 = 1
  BY <1>4
<1>7. \A i \in 2 .. (n + 1) - 1 : IF i % 2 = 0 THEN IsRow(t[i]) ELSE t[i] = Comma
  BY <1>4, <1>5
<1>8. t[1] = Open
  BY <1>4, <1>5
<1>9. WholeArray(t)
  BY <1>4, <1>5, <1>6, <1>7, <1>8 DEF WholeArray
<1>10. QED
  BY <1>9 DEF t, w

JsonInv ==
    format = "json" =>
        /\ pc \in Active =>
              /\ ~closed
              /\ OpenArray(Content)
              /\ first_item <=> Len(Content) = 1
        /\ pc \in {"done", "failed"} => WholeArray(file)

LEMMA JsonStep ==
    ASSUME EngineType, JsonInv, [EngineNext]_allvars
    PROVE  JsonInv'
<1> SUFFICES ASSUME format = "json" PROVE JsonInv'
  BY FileStep DEF JsonInv
<1>1. /\ format' = "json"
      /\ \/ Rests \/ Begins \/ BadStart
         \/ (\E f \in pending : AddsRow(f)) \/ Closes \/ Breaks
  BY FileStep
<1>2. /\ WriterType /\ Content \in Seq(Token)
      /\ pc \in Active => pc \notin Ended
  BY ContentType DEF EngineType, Active, Ended
<1>3. CASE Rests
  <2>1. /\ Content' = Content /\ file' = file /\ closed' = closed
        /\ first_item' = first_item
    BY <1>3 DEF Rests, Content
  <2>2. CASE pc \in Active /\ pc' \in Active
    BY <1>2, <2>1, <2>2 DEF JsonInv, Active, Ended
  <2>3. CASE pc \in Ended /\ (pc' = pc \/ pc' = "unopened")
    BY <2>1, <2>3 DEF JsonInv, Active, Ended
  <2>4. QED
    BY <1>3, <2>2, <2>3 DEF Rests
<1>4. CASE Begins
  <2>1. file' = <<>> /\ buffer' = <<Open>> /\ first_item' = TRUE /\ closed' = FALSE
    BY <1>2, <1>4, CreateFacts DEF Begins
  <2>2. Content' = <<Open>>
    <3>1. <<Open>> \in Seq(Token)
      BY DEF Token
    <3>2. <<>> \o <<Open>> = <<Open>>
      BY <3>1, ConcatEmptySeq
    <3>3. QED
      BY <2>1, <3>2 DEF Content
  <2>3. Len(Content') = 1 /\ Content'[1] = Open
    BY <2>2
  <2>4. OpenArray(Content')
    BY <2>3 DEF OpenArray
  <2>5. pc' = "read"
    BY <1>4 DEF Begins
  <2>6. QED
    BY <2>1, <2>3, <2>4, <2>5 DEF JsonInv
<1>5. ASSUME NEW f \in pending, AddsRow(f) PROVE JsonInv'
  <2> DEFINE r == Row(f)
  <2>1. r \in RowToken /\ RowTokens(r) \in Seq(Token)
    BY PendingFlows
  <2>2. /\ file' \o buffer' = Content \o RowTokens(r)
        /\ first_item' = (first_item /\ format # "json")
        /\ closed' = closed
    BY <1>2, <1>5, <2>1, WriteFlowFacts DEF AddsRow
  <2>3. pc \in Active /\ pc' \in Active
    BY <1>5 DEF AddsRow, Active
  <2>4. ~closed /\ OpenArray(Content) /\ (first_item <=> Len(Content) = 1)
    BY <2>3 DEF JsonInv
  <2> HIDE DEF r
  <2>5. OpenArray(Content') /\ Len(Content') # 1
    <3>1. CASE first_item
      <4>1. Content' = Content \o <<r>>
        BY <2>2, <3>1 DEF Content, RowTokens
      <4>2. QED
        BY <1>2, <2>1, <2>4, <3>1, <4>1, FirstElement
    <3>2. CASE ~first_item
      <4>1. Content' = Content \o <<Comma, r>>
        BY <2>2, <3>2 DEF Content, RowTokens
      <4>2. QED
        BY <1>2, <2>1, <2>4, <3>2, <4>1, NextElement
    <3>3. QED
      BY <3>1, <3>2
  <2>6. ~first_item' /\ ~closed'
    BY <2>2, <2>4
  <2>7. pc' \notin {"done", "failed"}
    BY <2>3 DEF Active
  <2>8. QED
    BY <2>5, <2>6, <2>7 DEF JsonInv
<1>6. CASE Closes
  <2>1. ~closed /\ OpenArray(Content)
    BY <1>6 DEF Closes, JsonInv
  <2>2. file' = Content \o <<Close>>
    BY <1>2, <1>6, <2>1, FinishFacts DEF Closes
  <2>3. WholeArray(file')
    BY <1>2, <2>1, <2>2, ArrayCloses
  <2>4. pc' \notin Active
    BY <1>6 DEF Closes, Active
  <2>5. QED
    BY <2>3, <2>4 DEF JsonInv
<1>7. CASE Breaks \/ BadStart
  <2>1. pc' \notin Active /\ pc' \notin {"done", "failed"}
    BY <1>7 DEF Breaks, BadStart, Active
  <2>2. QED
    BY <2>1 DEF JsonInv
<1>8. QED
  BY <1>1, <1>3, <1>4, <1>5, <1>6, <1>7

LEMMA JsonInit == EngineInit => JsonInv
BY DEF EngineInit, InitWriter, JsonInv, Active

\* A JSON file is an array of rows with commas between them after every run
\* that returns Ok and after every one that fails on its input, whatever
\* happened in the runs before.
THEOREM JsonIsArray == EngineSpec => []JsonWellFormed
<1>1. EngineType /\ JsonInv => JsonWellFormed
  <2> SUFFICES ASSUME JsonInv, format = "json", pc \in {"done", "failed"}
               PROVE  WholeArray(file)
    BY DEF JsonWellFormed, WholeArray
  <2>1. QED
    BY DEF JsonInv
<1>2. EngineType /\ JsonInv /\ [EngineNext]_allvars => JsonInv'
  BY JsonStep
<1>3. QED
  BY <1>1, <1>2, JsonInit, EngineTypeCorrect, PTL DEF EngineSpec

-----------------------------------------------------------------------------
(* The flow table in the engine's hands.                                   *)

\* Reported flows reach the minimum, and the dropped ones do not: the engine
\* sets the minimum of a run before it feeds the first packet.
SizeInv ==
    /\ \A f \in Reported : LongEnough(f)
    /\ \A f \in dropped : ~LongEnough(f)

TableInv ==
    /\ AccountInv
    /\ CountInv
    /\ FlowsMatchTheirPackets
    /\ SizeInv
    /\ ~listener

TableGoesOn ==
    \/ UNCHANGED vars
    \/ \E p \in Packets : AddPacket(p)
    \/ GetFinishedFlows
    \/ FinishAllFlows

\* The engine sets no listener, and no minimum after the start.
LEMMA EngineTableStep ==
    ASSUME [EngineNext]_allvars
    PROVE  TableGoesOn \/ \E n \in Nat : FreshGenerator(n)
<1>1. CASE Start \/ OpenFails \/ CreateFails
  BY <1>1, GeneratorAssumption DEF Start, OpenFails, CreateFails
<1>2. CASE UNCHANGED generator
  BY <1>2 DEF generator, TableGoesOn
<1>3. CASE TakePacket
  BY <1>3 DEF TakePacket, TableGoesOn
<1>4. CASE Drain
  BY <1>4 DEF Drain, TableGoesOn, generator
<1>5. CASE LastPackets
  BY <1>5 DEF LastPackets, TableGoesOn, generator
<1>6. QED
  BY <1>1, <1>2, <1>3, <1>4, <1>5
  DEF EngineNext, Work, Happening, Terminated, allvars, CheckFlag, NoPacket,
      Write, WriteLast, Written, Succeed, ReadFails, DropFails, WriteFails,
      FinishFails, Kill, Stop

LEMMA GoesOnIsNext == TableGoesOn => [Next]_vars
BY DEF TableGoesOn, Next

LEMMA ConfigStays ==
    ASSUME TableGoesOn
    PROVE  listener' = listener /\ min_packets_per_flow' = min_packets_per_flow
BY DEF TableGoesOn, vars, config, AddPacket, GetFinishedFlows, FinishAllFlows

LEMMA SizeStep ==
    ASSUME TypeInv, NoTwinFlows, SizeInv, TableGoesOn
    PROVE  SizeInv'
<1>1. \A f : LongEnough(f)' <=> LongEnough(f)
  BY ConfigStays DEF LongEnough
<1>2. TypeOK
  BY DEF TypeInv
<1>3. ASSUME KeepReports PROVE SizeInv'
  BY <1>1, <1>3, KeepReportsFacts DEF SizeInv, Reported, LongEnough
<1>4. ASSUME NEW r, Retire(r) PROVE SizeInv'
  <2>1. \/ LongEnough(r) /\ Reported' = Reported \cup {r} /\ dropped' = dropped
        \/ ~LongEnough(r) /\ Reported' = Reported /\ dropped' = dropped \cup {r}
    BY <1>2, <1>4, RetireFacts DEF Reported
  <2>2. QED
    BY <1>1, <2>1 DEF SizeInv, LongEnough
<1>5. ASSUME NEW p \in Packets, AddPacket(p) PROVE SizeInv'
  BY <1>2, <1>3, <1>4, <1>5, AddPacketShape DEF Starts, Joins, Replaces
<1>6. CASE GetFinishedFlows \/ UNCHANGED vars
  <2>1. Reported' = Reported /\ dropped' = dropped
    BY <1>6 DEF GetFinishedFlows, vars, Reported
  <2>2. QED
    BY <1>1, <2>1 DEF SizeInv, LongEnough
<1>7. CASE FinishAllFlows
  <2> DEFINE long == {f \in OpenFlows : LongEnough(f)}
  <2>1. Reported' = Reported \cup long /\ dropped' = dropped \cup (OpenFlows \ long)
    BY <1>7, FinishAllFacts DEF Reported
  <2>2. (\A f \in long : LongEnough(f)) /\ \A f \in OpenFlows \ long : ~LongEnough(f)
    OBVIOUS
  <2> HIDE DEF long
  <2>3. QED
    BY <1>1, <2>1, <2>2 DEF SizeInv, LongEnough
<1>8. QED
  BY <1>5, <1>6, <1>7 DEF TableGoesOn

LEMMA FreshTable ==
    ASSUME NEW n \in Nat, FreshGenerator(n)
    PROVE  TableInv'
<1>1. /\ current_flows' = [k \in {} |-> {}]
      /\ finished_flows' = {} /\ handed' = {} /\ dropped' = {}
      /\ listener' = FALSE /\ finished_flow_count' = 0 /\ log' = <<>>
  BY DEF FreshGenerator
<1>2. DOMAIN current_flows' = {}
  BY <1>1
<1>3. OpenFlows' = {} /\ Reported' = {} /\ Retired' = {} /\ AllFlows' = {}
  BY <1>1, <1>2 DEF OpenFlows, Retired, Reported, AllFlows
<1>4. 1 .. Len(log') = {}
  BY <1>1
<1>5. Partition'
  BY <1>3, <1>4 DEF Partition
<1>6. OnePlaceEach'
  BY <1>1, <1>3 DEF OnePlaceEach
<1>7. NoTwinFlows'
  BY <1>2 DEF NoTwinFlows
<1>8. CountInv'
  BY <1>1, FS_EmptySet DEF CountInv, FinishedCountMatches
<1>9. FlowsMatchTheirPackets'
  BY <1>3 DEF FlowsMatchTheirPackets
<1>10. SizeInv'
  BY <1>1, <1>3 DEF SizeInv
<1>11. QED
  BY <1>1, <1>5, <1>6, <1>7, <1>8, <1>9, <1>10, FreshType
  DEF TableInv, AccountInv

LEMMA TableInvStep == TableInv /\ [EngineNext]_allvars => TableInv'
<1> SUFFICES ASSUME TableInv, [EngineNext]_allvars PROVE TableInv'
  OBVIOUS
<1>1. CASE TableGoesOn
  <2>1. [Next]_vars
    BY <1>1, GoesOnIsNext
  <2>2. AccountInv' /\ CountInv'
    BY <2>1, AccountStep, CountStep DEF TableInv
  <2>3. FlowsMatchTheirPackets'
    BY <2>1, MatchStep DEF TableInv
  <2>4. SizeInv'
    BY <1>1, SizeStep DEF TableInv, AccountInv
  <2>5. ~listener'
    BY <1>1, ConfigStays DEF TableInv
  <2>6. QED
    BY <2>2, <2>3, <2>4, <2>5 DEF TableInv
<1>2. QED
  BY <1>1, EngineTableStep, FreshTable

LEMMA TableInvInit == EngineInit => TableInv
<1> SUFFICES ASSUME EngineInit PROVE TableInv
  OBVIOUS
<1>1. Init
  BY DEF EngineInit
<1>2. AccountInv
  BY <1>1, AccountInit
<1>3. Reported = {} /\ dropped = {} /\ AllFlows = {}
  BY <1>1 DEF Init, OpenFlows, Retired, Reported, AllFlows
<1>4. CountInv
  BY <1>1, FS_EmptySet DEF Init, CountInv, FinishedCountMatches
<1>5. FlowsMatchTheirPackets /\ SizeInv
  BY <1>3 DEF FlowsMatchTheirPackets, SizeInv
<1>6. QED
  BY <1>1, <1>2, <1>4, <1>5 DEF TableInv, Init

-----------------------------------------------------------------------------
(* Where the flows are at each point of the loop.                          *)

\* No flow waits in the table but between a packet and the next drain, and
\* none is open once the last packet has been seen.
LoopInv ==
    /\ pc \in {"read", "capture", "write", "final", "done"} => finished_flows = {}
    /\ pc \in {"final", "done"} => DOMAIN current_flows = {}

LEMMA LoopStep ==
    ASSUME LoopInv, [EngineNext]_allvars
    PROVE  LoopInv'
<1>1. CASE Start
  BY <1>1 DEF Start, FreshGenerator, LoopInv
<1>2. CASE OpenFails \/ CreateFails \/ ReadFails \/ DropFails \/ FinishFails
            \/ Kill \/ \E f \in pending : WriteFails(f)
  BY <1>2 DEF OpenFails, CreateFails, ReadFails, DropFails, FinishFails, Kill,
              WriteFails, LoopInv
<1>3. CASE TakePacket
  BY <1>3 DEF TakePacket, LoopInv
<1>4. CASE Drain
  BY <1>4 DEF Drain, GetFinishedFlows, generator, vars, LoopInv
<1>5. CASE LastPackets
  <2>1. DOMAIN current_flows' = {} /\ finished_flows' = finished_flows
    BY <1>5 DEF LastPackets, FinishAllFlows, generator, vars
  <2>2. QED
    BY <1>5, <2>1 DEF LastPackets, LoopInv
<1>6. ASSUME UNCHANGED generator
      PROVE  finished_flows' = finished_flows /\ current_flows' = current_flows
  BY <1>6 DEF generator, vars
<1>7. CASE CheckFlag \/ NoPacket \/ Written \/ Succeed
  BY <1>6, <1>7 DEF CheckFlag, NoPacket, Written, Succeed, LoopInv
<1>8. ASSUME UNCHANGED generator, pc' = pc PROVE LoopInv'
  BY <1>6, <1>8 DEF LoopInv
<1>9. CASE Stop \/ UNCHANGED allvars \/ \E f \in pending : Write(f) \/ WriteLast(f)
  BY <1>8, <1>9 DEF Stop, allvars, engine, Write, WriteLast
<1>10. QED
  BY <1>1, <1>2, <1>3, <1>4, <1>5, <1>7, <1>9
  DEF EngineNext, Work, Happening, Terminated

\* The flows that have been given to the engine and written by it.
Out == handed \ pending

\* How a step changes them.
LEMMA OutStep ==
    ASSUME EngineType, TableInv, [EngineNext]_allvars
    PROVE  \/ Rests /\ run' = run /\ Out' = Out
           \/ Rests /\ run' = run + 1 /\ pc' = "unopened" /\ Out' = {}
           \/ (Begins \/ BadStart) /\ Out' = {}
           \/ \E f \in pending : AddsRow(f) /\ Out' = Out \cup {f}
           \/ Closes /\ Out' = Out
           \/ Breaks /\ Out' = Out \cup pending
<1>1. /\ pending \subseteq handed
      /\ pc \notin {"write", "final"} => pending = {}
      /\ ~listener /\ finished_flows \cap handed = {}
  BY DEF EngineType, TableInv, AccountInv, OnePlaceEach
<1>2. pc \in Active \/ pc \in Ended
  BY DEF EngineType
<1>3. ASSUME UNCHANGED <<writer, run, broken>>,
             (pc \in Active /\ pc' \in Active) \/ pc' = pc
      PROVE  Rests
  BY <1>2, <1>3 DEF Rests, writer
<1>4. ASSUME UNCHANGED generator PROVE handed' = handed
  BY <1>4 DEF generator, vars
<1>5. CASE CheckFlag \/ NoPacket \/ Written \/ Stop \/ UNCHANGED allvars
  <2>1. UNCHANGED <<writer, run, broken>> /\ UNCHANGED generator /\ pending' = pending
        /\ run' = run
    BY <1>5 DEF CheckFlag, NoPacket, Written, Stop, allvars, engine
  <2>2. (pc \in Active /\ pc' \in Active) \/ pc' = pc
    BY <1>5 DEF CheckFlag, NoPacket, Written, Stop, allvars, engine, Active
  <2>3. QED
    BY <1>3, <1>4, <2>1, <2>2 DEF Out
<1>6. CASE TakePacket
  <2>1. PICK p \in Packets : AddPacket(p)
    BY <1>6 DEF TakePacket
  <2>2. handed' = handed
    BY <1>1, <2>1 DEF AddPacket, OpenFlow, ExpireFlow, FinPacket, RstPacket,
                      DataPacket, Retire, KeepReports
  <2>3. Rests /\ run' = run /\ pending' = pending
    BY <1>3, <1>6 DEF TakePacket, Reading, Active
  <2>4. QED
    BY <2>2, <2>3 DEF Out
<1>7. CASE Drain
  <2>1. handed' = handed \cup finished_flows
    BY <1>7 DEF Drain, GetFinishedFlows, generator, vars
  <2>2. Rests /\ run' = run /\ pending' = finished_flows /\ pending = {}
    BY <1>1, <1>3, <1>7 DEF Drain, Active
  <2>3. QED
    BY <1>1, <2>1, <2>2 DEF Out
<1>8. CASE LastPackets
  <2>1. handed \subseteq handed'
    BY <1>8 DEF LastPackets, FinishAllFlows, generator, vars
  <2>2. Rests /\ run' = run /\ pending' = handed' \ handed /\ pending = {}
    BY <1>1, <1>3, <1>8 DEF LastPackets, Active
  <2>3. QED
    BY <2>1, <2>2 DEF Out
<1>9. CASE Start
  <2>1. handed' = {}
    BY <1>9 DEF Start, FreshGenerator
  <2>2. QED
    BY <1>9, <2>1 DEF Start, Begins, Out
<1>10. CASE OpenFails
  <2>1. handed' = {}
    BY <1>10 DEF OpenFails, FreshGenerator
  <2>2. QED
    BY <1>10, <2>1 DEF OpenFails, Rests, Out, writer
<1>16. CASE CreateFails
  <2>1. handed' = {}
    BY <1>16 DEF CreateFails, FreshGenerator
  <2>2. QED
    BY <1>16, <2>1 DEF CreateFails, BadStart, Out
<1>11. ASSUME NEW f \in pending, Write(f) \/ WriteLast(f)
       PROVE  AddsRow(f) /\ Out' = Out \cup {f}
  <2>1. AddsRow(f) /\ pending' = pending \ {f} /\ UNCHANGED generator
    BY <1>11 DEF Write, WriteLast, AddsRow
  <2>2. QED
    BY <1>1, <1>4, <1>11, <2>1 DEF Out
<1>12. CASE Succeed \/ ReadFails
  <2>1. Closes /\ pending' = pending /\ UNCHANGED generator
    BY <1>12 DEF Succeed, ReadFails, Closes, Reading, Active
  <2>2. QED
    BY <1>4, <2>1 DEF Out
<1>13. ASSUME NEW f \in pending, WriteFails(f)
       PROVE  Breaks /\ Out' = Out \cup pending
  <2>1. Breaks /\ pending' = {} /\ UNCHANGED generator
    BY <1>13 DEF WriteFails, Breaks, Active
  <2>2. QED
    BY <1>1, <1>4, <2>1 DEF Out
<1>14. CASE FinishFails \/ DropFails \/ Kill
  <2>1. Breaks /\ UNCHANGED generator
    BY <1>14 DEF FinishFails, DropFails, Kill, Breaks, Reading, Active
  <2>2. pending' = {}
    BY <1>1, <1>14 DEF FinishFails, DropFails, Kill, Reading
  <2>3. QED
    BY <1>1, <1>4, <2>1, <2>2 DEF Out
<1>15. QED
  BY <1>5, <1>6, <1>7, <1>8, <1>9, <1>10, <1>11, <1>12, <1>13, <1>14, <1>16
  DEF EngineNext, Work, Happening, Terminated

-----------------------------------------------------------------------------
(* Rows and flows.                                                         *)

\* Two reported flows have different rows.
LEMMA RowsTellFlows ==
    ASSUME TableInv, NEW f \in handed, NEW g \in handed, Row(f) = Row(g)
    PROVE  f = g
<1>1. f.members = g.members
  BY DEF Row
<1>2. f \in AllFlows /\ g \in AllFlows
  BY DEF AllFlows, Retired, Reported
<1>3. f.members # {} /\ (f # g => f.members \cap g.members = {})
  BY <1>2 DEF TableInv, AccountInv, Partition
<1>4. QED
  BY <1>1, <1>3

\* The rows of the current run in an output s.
Current(s) == {i \in 1 .. Len(s) : IsRow(s[i]) /\ s[i][2] = run}

\* The rows of the current run are rows of the flows in O, each flow's once;
\* there are no rows of later runs.
RowsOf(s, O) ==
    /\ \A i \in 1 .. Len(s) : IsRow(s[i]) => s[i][2] <= run
    /\ \A i \in Current(s) : \E f \in O : s[i] = Row(f)
    /\ \A i, j \in Current(s) : s[i] = s[j] => i = j

LEMMA RowsContinue ==
    ASSUME EngineType, TableInv, NEW s \in Seq(Token), NEW t \in Seq(Token),
           NEW w, Piece(w), Remains(t, s \o w),
           RowsOf(s, Out),
           NEW O, Out \subseteq O,
           \A f \in pending : (\E i \in 1 .. Len(w) : w[i] = Row(f)) => f \in O
    PROVE  RowsOf(t, O)
<1> DEFINE u == s \o w
<1>1. w \in Seq(Token) /\ run \in Nat
  BY DEF Piece, EngineType
<1>2. u \in Seq(Token) /\ Len(t) \in Nat /\ Len(u) \in Nat
  BY <1>1, ConcatFacts, LenProperties
<1>3. Len(t) <= Len(u) /\ \A j \in 1 .. Len(t) : IsRow(t[j]) => t[j] = u[j]
  BY TokenFacts DEF Remains
<1>4. ASSUME NEW i \in 1 .. Len(t), IsRow(t[i])
      PROVE  \/ i \in 1 .. Len(s) /\ t[i] = s[i]
             \/ \E j \in 1 .. Len(w) :
                   i = Len(s) + j /\ t[i] = w[j] /\ IsRow(w[j])
  <2>1. i \in 1 .. Len(u) /\ t[i] = u[i]
    BY <1>2, <1>3, <1>4
  <2>2. \/ i \in 1 .. Len(s) /\ u[i] = s[i]
        \/ \E j \in 1 .. Len(w) : i = Len(s) + j /\ u[i] = w[j]
    BY <1>1, <2>1, ConcatPlaces
  <2> HIDE DEF u
  <2>3. QED
    BY <1>4, <2>1, <2>2
<1> HIDE DEF u
<1>5. ASSUME NEW j \in 1 .. Len(w), IsRow(w[j])
      PROVE  \E f \in pending : f \in O /\ w[j] = Row(f) /\ w[j][2] = run
  <2>1. PICK f \in pending : w[j] = Row(f)
    BY <1>5 DEF Piece
  <2>2. Row(f)[2] = run
    BY DEF Row
  <2>3. QED
    BY <2>1, <2>2
<1>6. \A i \in 1 .. Len(t) : IsRow(t[i]) => t[i][2] <= run
  <2> SUFFICES ASSUME NEW i \in 1 .. Len(t), IsRow(t[i]) PROVE t[i][2] <= run
    OBVIOUS
  <2>1. CASE i \in 1 .. Len(s) /\ t[i] = s[i]
    BY <2>1 DEF RowsOf
  <2>2. ASSUME NEW j \in 1 .. Len(w), t[i] = w[j], IsRow(w[j])
        PROVE  t[i][2] <= run
    <3>1. t[i][2] = run
      BY <1>5, <2>2
    <3>2. QED
      BY <1>1, <3>1
  <2>3. QED
    BY <1>4, <2>1, <2>2
<1>7. \A i \in Current(t) : \E f \in O : t[i] = Row(f)
  <2> SUFFICES ASSUME NEW i \in Current(t) PROVE \E f \in O : t[i] = Row(f)
    OBVIOUS
  <2>1. i \in 1 .. Len(t) /\ IsRow(t[i]) /\ t[i][2] = run
    BY DEF Current
  <2>2. CASE i \in 1 .. Len(s) /\ t[i] = s[i]
    BY <2>1, <2>2 DEF RowsOf, Current
  <2>3. ASSUME NEW j \in 1 .. Len(w), t[i] = w[j], IsRow(w[j])
        PROVE  \E f \in O : t[i] = Row(f)
    BY <1>5, <2>3
  <2>4. QED
    BY <1>4, <2>1, <2>2, <2>3
<1>8. ASSUME NEW i \in Current(t), NEW k \in Current(t), t[i] = t[k]
      PROVE  i = k
  <2>1. /\ i \in 1 .. Len(t) /\ IsRow(t[i]) /\ t[i][2] = run
        /\ k \in 1 .. Len(t) /\ IsRow(t[k]) /\ t[k][2] = run
    BY DEF Current
  <2>2. ASSUME NEW m \in 1 .. Len(s), IsRow(s[m]), s[m][2] = run,
               NEW j \in 1 .. Len(w), IsRow(w[j]), s[m] = w[j]
        PROVE  FALSE
    <3>1. PICK f \in Out : s[m] = Row(f)
      BY <2>2 DEF RowsOf, Current
    <3>2. PICK g \in pending : w[j] = Row(g)
      BY <1>5, <2>2
    <3>3. f \in handed /\ g \in handed /\ f # g
      BY DEF Out, EngineType
    <3>4. QED
      BY <2>2, <3>1, <3>2, <3>3, RowsTellFlows
  <2>3. CASE i \in 1 .. Len(s) /\ t[i] = s[i] /\ k \in 1 .. Len(s) /\ t[k] = s[k]
    BY <1>8, <2>1, <2>3 DEF RowsOf, Current
  <2>4. CASE /\ i \in 1 .. Len(s) /\ t[i] = s[i]
             /\ \E j \in 1 .. Len(w) : t[k] = w[j] /\ IsRow(w[j])
    BY <1>8, <2>1, <2>2, <2>4
  <2>5. CASE /\ k \in 1 .. Len(s) /\ t[k] = s[k]
             /\ \E j \in 1 .. Len(w) : t[i] = w[j] /\ IsRow(w[j])
    BY <1>8, <2>1, <2>2, <2>5
  <2>6. CASE /\ \E j \in 1 .. Len(w) : i = Len(s) + j /\ IsRow(w[j])
             /\ \E j \in 1 .. Len(w) : k = Len(s) + j /\ IsRow(w[j])
    BY <2>6 DEF Piece
  <2>7. QED
    BY <1>4, <2>1, <2>3, <2>4, <2>5, <2>6
<1>9. QED
  BY <1>6, <1>7, <1>8 DEF RowsOf

\* The tokens of a flow have its row, and no other.
LEMMA RowTokensHave ==
    ASSUME EngineType, NEW f \in pending
    PROVE  LET R == RowTokens(Row(f)) IN
           /\ \E i \in 1 .. Len(R) : R[i] = Row(f)
           /\ \A i \in 1 .. Len(R) : IsRow(R[i]) => R[i] = Row(f)
<1> DEFINE r == Row(f)
           R == RowTokens(r)
<1>1. Piece(R) /\ r \in RowToken /\ IsRow(r)
  BY PendingFlows, TokenFacts
<1> HIDE DEF r
<1>2. R = <<r, NL>> \/ R = <<r>> \/ R = <<Comma, r>>
  BY DEF RowTokens
<1>3. (1 \in 1 .. Len(R) /\ R[1] = r) \/ (2 \in 1 .. Len(R) /\ R[2] = r)
  BY <1>2
<1> HIDE DEF R
<1>4. PICK k \in 1 .. Len(R) : R[k] = r
  BY <1>3
<1>5. \A i \in 1 .. Len(R) : IsRow(R[i]) => R[i] = r
  BY <1>1, <1>4 DEF Piece
<1>6. QED
  BY <1>4, <1>5 DEF R, r

\* The flows that are out have their rows: while a run goes well.
Unbroken == pc \in Active \cup {"done", "failed"}

RowsInv ==
    /\ RowsOf(Content, Out)
    /\ Unbroken => \A f \in Out : \E i \in 1 .. Len(Content) : Content[i] = Row(f)

\* At the start of a run the rows that are there are those of earlier ones.
LEMMA NewRunRows ==
    ASSUME run \in Nat, run' = run + 1, NEW t \in Seq(Token),
           \A i \in 1 .. Len(t) : IsRow(t[i]) => t[i][2] <= run,
           Content' = t, Out' = {}
    PROVE  RowsInv'
<1>1. ASSUME NEW i \in 1 .. Len(t), IsRow(t[i])
      PROVE  t[i][2] <= run' /\ t[i][2] # run'
  <2>1. t[i] \in Token
    BY ElementOfSeq
  <2>2. t[i][2] \in Nat
    BY <1>1, <2>1, RowsAreTokens, TokenFacts
  <2>3. t[i][2] <= run
    BY <1>1
  <2>4. QED
    BY <2>2, <2>3
<1>2. RowsOf(Content, Out)'
  BY <1>1 DEF RowsOf, Current
<1>3. QED
  BY <1>2 DEF RowsInv

\* The rows of a continued output, seen after the step.
LEMMA RowsAfter ==
    ASSUME run' = run, NEW t, NEW O, Content' = t, Out' = O, RowsOf(t, O)
    PROVE  RowsOf(Content, Out)'
BY DEF RowsOf, Current, Row

LEMMA RowsStep ==
    ASSUME EngineType, TableInv, RowsInv, [EngineNext]_allvars
    PROVE  RowsInv'
<1>1. /\ WriterType /\ Content \in Seq(Token) /\ run \in Nat
      /\ RowsOf(Content, Out)
      /\ format' = format
  BY ContentType, FileStep DEF EngineType, RowsInv
<1>2. \A f : run' = run => Row(f)' = Row(f)
  BY DEF Row
<1>3. CASE Rests /\ run' = run /\ Out' = Out
  <2>1. Content' = Content
    BY <1>3 DEF Rests, Content
  <2>2. RowsOf(Content, Out)'
    BY <1>1, <1>3, <2>1, RowsAfter
  <2>3. Unbroken' => Unbroken
    <3>1. run # run + 1
      BY <1>1
    <3>2. QED
      BY <1>3, <3>1 DEF Rests, Unbroken, Active, Ended
  <2>4. Unbroken' => \A f \in Out' : \E i \in 1 .. Len(Content') : Content'[i] = Row(f)'
    BY <1>2, <1>3, <2>1, <2>3 DEF RowsInv
  <2>5. QED
    BY <2>2, <2>4 DEF RowsInv
<1>4. CASE Rests /\ run' = run + 1 /\ Out' = {}
  <2>1. Content' = Content
    BY <1>4 DEF Rests, Content
  <2>2. \A i \in 1 .. Len(Content) : IsRow(Content[i]) => Content[i][2] <= run
    BY <1>1 DEF RowsOf
  <2>3. QED
    BY <1>1, <1>4, <2>1, <2>2, NewRunRows
<1>5. CASE (Begins \/ BadStart) /\ Out' = {}
  <2>1. Content = file /\ buffer = <<>> /\ run' = run + 1
    BY <1>5, AtRest DEF Begins, BadStart, EngineType
  <2> DEFINE Empty == {<<>>, <<TornHeader>>, <<Header>>, <<Header, NL>>, <<Open>>}
  <2>2. /\ file' \in Seq(Token) /\ buffer' \in Seq(Token)
        /\ \/ buffer' = <<>> /\ (file' = file \/ file' \in Empty)
           \/ buffer' = <<Open>> /\ file' = <<>>
    BY <1>1, <1>5, <2>1, CreateFacts, FailCreateFacts
    DEF Begins, BadStart, WriterType
  <2>3. PICK t : t = Content'
    OBVIOUS
  <2>4. t \in Seq(Token) /\ (t = file \/ t \in Empty)
    <3>1. file' \o <<>> = file' /\ <<>> \o buffer' = buffer'
      BY <2>2, ConcatEmptySeq
    <3>2. QED
      BY <2>2, <2>3, <3>1 DEF Content
  <2>5. \A i \in 1 .. Len(t) : IsRow(t[i]) => t[i][2] <= run
    <3>1. CASE t = file
      BY <1>1, <2>1, <3>1 DEF RowsOf
    <3>2. CASE t \in Empty
      BY <3>2, EmptyOutputs DEF NoRows
    <3>3. QED
      BY <2>4, <3>1, <3>2
  <2>6. QED
    BY <1>1, <1>5, <2>1, <2>3, <2>4, <2>5, NewRunRows
<1>6. ASSUME NEW f \in pending, AddsRow(f), Out' = Out \cup {f} PROVE RowsInv'
  <2> DEFINE R == RowTokens(Row(f))
  <2>1. /\ R \in Seq(Token) /\ Piece(R)
        /\ \E i \in 1 .. Len(R) : R[i] = Row(f)
        /\ \A i \in 1 .. Len(R) : IsRow(R[i]) => R[i] = Row(f)
    BY PendingFlows, RowTokensHave
  <2>2. Content' = Content \o R
    BY <1>1, <1>6, <2>1, WriteFlowFacts DEF AddsRow, Content
  <2> HIDE DEF R
  <2>3. PICK t : t = Content \o R
    OBVIOUS
  <2>4. /\ t \in Seq(Token)
        /\ Len(Content) \in Nat /\ Len(R) \in Nat
        /\ Len(t) = Len(Content) + Len(R)
        /\ \A i \in 1 .. Len(Content) : t[i] = Content[i]
        /\ \A i \in 1 .. Len(R) : t[Len(Content) + i] = R[i]
    BY <1>1, <2>1, <2>3, ConcatFacts
  <2>5. Remains(t, Content \o R)
    BY <2>3, <2>4 DEF Remains
  <2>6. PICK O : O = Out \cup {f}
    OBVIOUS
  <2>7. \A g \in pending : (\E i \in 1 .. Len(R) : R[i] = Row(g)) => g \in O
    <3> SUFFICES ASSUME NEW g \in pending, NEW i \in 1 .. Len(R), R[i] = Row(g)
                 PROVE  g \in O
      OBVIOUS
    <3>1. IsRow(Row(g))
      BY PendingFlows, TokenFacts
    <3>2. Row(g) = Row(f)
      BY <2>1, <3>1
    <3>3. f \in handed /\ g \in handed
      BY DEF EngineType
    <3>4. QED
      BY <2>6, <3>2, <3>3, RowsTellFlows
  <2>8. RowsOf(t, O)
    BY <1>1, <2>1, <2>4, <2>5, <2>6, <2>7, RowsContinue
  <2>9. run' = run /\ Content' = t /\ Out' = O
    BY <1>6, <2>2, <2>3, <2>6 DEF AddsRow
  <2>10. RowsOf(Content, Out)'
    BY <2>8, <2>9, RowsAfter
  <2>11. \A g \in O : \E i \in 1 .. Len(t) : t[i] = Row(g)
    <3>1. Unbroken
      BY <1>6 DEF AddsRow, Unbroken, Active
    <3>2. ASSUME NEW g \in Out PROVE \E i \in 1 .. Len(t) : t[i] = Row(g)
      <4>1. PICK i \in 1 .. Len(Content) : Content[i] = Row(g)
        BY <3>1 DEF RowsInv
      <4>2. i \in 1 .. Len(t) /\ t[i] = Row(g)
        BY <2>4, <4>1
      <4>3. QED
        BY <4>2
    <3>3. \E i \in 1 .. Len(t) : t[i] = Row(f)
      <4>1. PICK i \in 1 .. Len(R) : R[i] = Row(f)
        BY <2>1
      <4>2. Len(Content) + i \in 1 .. Len(t) /\ t[Len(Content) + i] = Row(f)
        BY <2>4, <4>1
      <4>3. QED
        BY <4>2
    <3>4. QED
      BY <2>6, <3>2, <3>3
  <2>12. \A g \in Out' : \E i \in 1 .. Len(Content') : Content'[i] = Row(g)'
    BY <1>2, <2>9, <2>11
  <2>13. QED
    BY <2>10, <2>12 DEF RowsInv
<1>7. CASE Closes /\ Out' = Out
  <2> DEFINE w == IF format = "json" /\ ~closed THEN <<Close>> ELSE <<>>
  <2>1. Continues(w) /\ file' = Content \o w /\ buffer' = <<>>
    BY <1>1, <1>7, FinishFacts DEF Closes
  <2>2. \A i \in 1 .. Len(w) : ~IsRow(w[i])
    <3>1. CASE w = <<>>
      BY <3>1
    <3>2. CASE w = <<Close>>
      <4>1. Len(w) = 1 /\ w[1] = Close
        BY <3>2
      <4>2. \A i \in 1 .. Len(w) : i = 1
        BY <4>1
      <4>3. QED
        BY <4>1, <4>2, TokenFacts
    <3>3. QED
      BY <3>1, <3>2
  <2> HIDE DEF w
  <2>3. PICK t : t = Content \o w
    OBVIOUS
  <2>4. /\ Piece(w) /\ t \in Seq(Token)
        /\ Len(Content) \in Nat /\ Len(w) \in Nat
        /\ Len(t) = Len(Content) + Len(w)
        /\ \A i \in 1 .. Len(Content) : t[i] = Content[i]
    BY <1>1, <2>1, <2>3, ConcatFacts DEF Continues, Piece
  <2>5. Remains(t, Content \o w)
    BY <2>3, <2>4 DEF Remains
  <2>6. \A g \in pending : (\E i \in 1 .. Len(w) : w[i] = Row(g)) => g \in Out
    BY <2>2, PendingFlows, TokenFacts
  <2>7. RowsOf(t, Out)
    BY <1>1, <2>4, <2>5, <2>6, RowsContinue
  <2>8. run' = run /\ Content' = t
    <3>1. t \o <<>> = t
      BY <2>4, ConcatEmptySeq
    <3>2. QED
      BY <1>7, <2>1, <2>3, <3>1 DEF Closes, Content
  <2>9. RowsOf(Content, Out)'
    BY <1>7, <2>7, <2>8, RowsAfter
  <2>10. \A g \in Out : \E i \in 1 .. Len(t) : t[i] = Row(g)
    <3>1. Unbroken
      BY <1>7 DEF Closes, Unbroken
    <3>2. ASSUME NEW g \in Out PROVE \E i \in 1 .. Len(t) : t[i] = Row(g)
      <4>1. PICK i \in 1 .. Len(Content) : Content[i] = Row(g)
        BY <3>1 DEF RowsInv
      <4>2. i \in 1 .. Len(t) /\ t[i] = Row(g)
        BY <2>4, <4>1
      <4>3. QED
        BY <4>2
    <3>3. QED
      BY <3>2
  <2>11. \A g \in Out' : \E i \in 1 .. Len(Content') : Content'[i] = Row(g)'
    BY <1>2, <1>7, <2>8, <2>10
  <2>12. QED
    BY <2>9, <2>11 DEF RowsInv
<1>8. CASE Breaks /\ Out' = Out \cup pending
  <2>1. PICK w : Continues(w)
    BY <1>8, StepContinues
  <2>2. PICK t : t = Content'
    OBVIOUS
  <2>3. t \in Seq(Token) /\ Piece(w) /\ Remains(t, Content \o w)
    BY <2>1, <2>2, ConcatFacts DEF Continues, Content
  <2>4. PICK O : O = Out \cup pending
    OBVIOUS
  <2>5. RowsOf(t, O)
    BY <1>1, <2>3, <2>4, RowsContinue
  <2>6. RowsOf(Content, Out)'
    BY <1>8, <2>2, <2>4, <2>5, RowsAfter DEF Breaks
  <2>7. ~Unbroken'
    BY <1>8 DEF Breaks, Unbroken, Active
  <2>8. QED
    BY <2>6, <2>7 DEF RowsInv
<1>9. QED
  BY <1>3, <1>4, <1>5, <1>6, <1>7, <1>8, OutStep

LEMMA RowsInit == EngineInit => RowsInv
<1> SUFFICES ASSUME EngineInit PROVE RowsInv
  OBVIOUS
<1>1. pc \in Ended /\ pc = "idle" /\ file = <<>> /\ handed = {}
  BY DEF EngineInit, InitWriter, Init, Ended
<1>2. Content = <<>> /\ Out = {}
  BY <1>1, EngineTypeInit, AtRest DEF Out
<1>3. RowsOf(Content, Out)
  BY <1>2 DEF RowsOf, Current
<1>4. QED
  BY <1>2, <1>3 DEF RowsInv

-----------------------------------------------------------------------------
(* Rows are not left in the buffer of a live capture.                      *)

DurableInv == live /\ pc \in {"read", "capture", "drain", "write"} => NoRows(buffer)

LEMMA DurableStep ==
    ASSUME EngineType, DurableInv, [EngineNext]_allvars
    PROVE  DurableInv'
<1>1. WriterType
  BY DEF EngineType
<1>2. live' = live
  BY FileStep
<1>3. ASSUME UNCHANGED writer PROVE buffer' = buffer
  BY <1>3 DEF writer
<1>4. CASE Start
  <2>1. buffer' = <<>> \/ buffer' = <<Open>>
    BY <1>4 DEF Start, Create
  <2>2. NoRows(<<>>)
    BY DEF NoRows
  <2>3. NoRows(<<Open>>)
    <3>1. Len(<<Open>>) = 1 /\ <<Open>>[1] = Open
      OBVIOUS
    <3>2. QED
      BY <3>1, TokenFacts DEF NoRows
  <2>4. QED
    BY <2>1, <2>2, <2>3 DEF DurableInv
<1>5. CASE OpenFails \/ CreateFails \/ LastPackets \/ Succeed \/ ReadFails
            \/ DropFails \/ FinishFails \/ Kill
            \/ \E f \in pending : WriteFails(f) \/ WriteLast(f)
  <2>1. pc' \notin {"read", "capture", "drain", "write"}
    BY <1>5 DEF OpenFails, CreateFails, LastPackets, Succeed, ReadFails, DropFails,
                FinishFails, Kill, WriteFails, WriteLast
  <2>2. QED
    BY <2>1 DEF DurableInv
<1>6. ASSUME NEW f \in pending, Write(f) PROVE DurableInv'
  <2>1. pc = "write" /\ pc' = "write"
    BY <1>6 DEF Write
  <2>2. CASE live
    <3>1. buffer' = <<>>
      BY <1>6, <2>2 DEF Write, WriteAndFlush
    <3>2. NoRows(<<>>)
      BY DEF NoRows
    <3>3. QED
      BY <3>1, <3>2 DEF DurableInv
  <2>3. CASE ~live
    BY <1>2, <2>3 DEF DurableInv
  <2>4. QED
    BY <2>2, <2>3
<1>7. CASE CheckFlag \/ TakePacket \/ NoPacket \/ Drain \/ Written
  <2>1. pc \in {"read", "capture", "drain", "write"} /\ UNCHANGED writer
    BY <1>7 DEF CheckFlag, TakePacket, NoPacket, Drain, Written, Reading
  <2>2. QED
    BY <1>2, <1>3, <2>1 DEF DurableInv
<1>8. CASE Stop \/ UNCHANGED allvars
  <2>1. pc' = pc /\ UNCHANGED writer
    BY <1>8 DEF Stop, allvars, engine
  <2>2. QED
    BY <1>2, <1>3, <2>1 DEF DurableInv
<1>9. QED
  BY <1>4, <1>5, <1>6, <1>7, <1>8 DEF EngineNext, Work, Happening, Terminated

-----------------------------------------------------------------------------
(* Rows are lines.                                                         *)

\* The next token begins a line.
AtLineStart(s) == Len(s) = 0 \/ s[Len(s)] = NL

\* An earlier run has left a line without its end, to which a row was added.
Glued == format = "csv" /\ broken > 0

\* The rows of the run have their ends; they begin lines, but for the first
\* one behind a line that was left without its end.
RowLines(s) ==
    \A i \in Current(s) :
        /\ i < Len(s) /\ s[i + 1] = NL
        /\ i = 1 \/ s[i - 1] = NL \/ (Glued /\ \A j \in Current(s) : i <= j)

LineInv ==
    format # "json" =>
        /\ broken = 0 => AtLineStart(Content)
        /\ pc \in Active \cup {"done"} =>
              /\ AtLineStart(Content) \/ (Glued /\ Current(Content) = {})
              /\ RowLines(Content)

\* The end of a line with a row of the run.
LEMMA RowLineAdded ==
    ASSUME EngineType, format # "json", NEW s \in Seq(Token), NEW r \in RowToken,
           r[2] = run,
           AtLineStart(s) \/ (Glued /\ Current(s) = {}),
           RowLines(s)
    PROVE  AtLineStart(s \o <<r, NL>>) /\ RowLines(s \o <<r, NL>>)
<1> DEFINE w == <<r, NL>>
           t == s \o w
<1>1. w \in Seq(Token) /\ Len(w) = 2 /\ w[1] = r /\ w[2] = NL
  BY DEF Token
<1> HIDE DEF w
<1>2. /\ Len(s) \in Nat /\ Len(t) = Len(s) + 2
      /\ \A i \in 1 .. Len(s) : t[i] = s[i]
      /\ t[Len(s) + 1] = r /\ t[Len(s) + 2] = NL
  <2>1. /\ Len(s) \in Nat /\ Len(t) = Len(s) + Len(w)
        /\ \A i \in 1 .. Len(s) : t[i] = s[i]
        /\ \A i \in 1 .. Len(w) : t[Len(s) + i] = w[i]
    BY <1>1, ConcatFacts
  <2>2. 1 \in 1 .. Len(w) /\ 2 \in 1 .. Len(w)
    BY <1>1
  <2> HIDE DEF t
  <2>3. QED
    BY <1>1, <2>1, <2>2
<1> HIDE DEF t
<1>3. AtLineStart(t)
  BY <1>2 DEF AtLineStart
<1>4. \A i \in Current(t) : i \in Current(s) \/ i = Len(s) + 1
  <2> SUFFICES ASSUME NEW i \in Current(t), i # Len(s) + 1 PROVE i \in Current(s)
    OBVIOUS
  <2>1. i \in 1 .. Len(t) /\ IsRow(t[i]) /\ t[i][2] = run
    BY DEF Current
  <2>2. i # Len(s) + 2
    BY <1>2, <2>1, TokenFacts
  <2>3. i \in 1 .. Len(s)
    BY <1>2, <2>1, <2>2
  <2>4. QED
    BY <1>2, <2>1, <2>3 DEF Current
<1>5. ASSUME NEW i \in Current(s)
      PROVE  /\ i < Len(t) /\ t[i + 1] = NL
             /\ i = 1 \/ t[i - 1] = NL \/ (Glued /\ \A j \in Current(t) : i <= j)
  <2>1. i \in 1 .. Len(s)
    BY DEF Current
  <2>2. /\ i < Len(s) /\ s[i + 1] = NL
        /\ i = 1 \/ s[i - 1] = NL \/ (Glued /\ \A j \in Current(s) : i <= j)
    BY DEF RowLines
  <2>3. i + 1 \in 1 .. Len(s) /\ (i # 1 => i - 1 \in 1 .. Len(s))
    BY <1>2, <2>1, <2>2
  <2>4. i < Len(t) /\ t[i + 1] = NL /\ (i # 1 => t[i - 1] = s[i - 1])
    <3>1. t[i + 1] = s[i + 1]
      BY <1>2, <2>3
    <3>2. i # 1 => t[i - 1] = s[i - 1]
      BY <1>2, <2>3
    <3>3. i < Len(t)
      BY <1>2, <2>1
    <3>4. QED
      BY <2>2, <3>1, <3>2, <3>3
  <2>5. (\A j \in Current(s) : i <= j) => \A j \in Current(t) : i <= j
    <3>1. i <= Len(s) + 1
      BY <1>2, <2>1
    <3>2. QED
      BY <1>4, <3>1
  <2>6. QED
    BY <2>2, <2>4, <2>5
<1>6. LET i == Len(s) + 1 IN
        /\ i < Len(t) /\ t[i + 1] = NL
        /\ i = 1 \/ t[i - 1] = NL \/ (Glued /\ \A j \in Current(t) : i <= j)
  <2>1. Len(s) + 1 < Len(t) /\ t[(Len(s) + 1) + 1] = NL
    BY <1>2
  <2>2. CASE Len(s) = 0
    BY <1>2, <2>1, <2>2
  <2>3. CASE Len(s) # 0 /\ s[Len(s)] = NL
    <3>1. Len(s) \in 1 .. Len(s) /\ (Len(s) + 1) - 1 = Len(s)
      BY <1>2, <2>3
    <3>2. t[(Len(s) + 1) - 1] = NL
      BY <1>2, <2>3, <3>1
    <3>3. QED
      BY <2>1, <3>2
  <2>4. CASE Glued /\ Current(s) = {}
    <3>1. \A j \in Current(t) : Len(s) + 1 <= j
      BY <1>2, <1>4, <2>4
    <3>2. QED
      BY <2>1, <2>4, <3>1
  <2>5. QED
    BY <2>2, <2>3, <2>4 DEF AtLineStart
<1>7. RowLines(t)
  BY <1>4, <1>5, <1>6 DEF RowLines
<1>8. QED
  BY <1>3, <1>7 DEF t, w

\* Where the output, the run and the faults stay as they are.
LEMMA LinesStay ==
    ASSUME LineInv, Content' = Content, run' = run, broken' = broken,
           format' = format,
           pc' \in Active \cup {"done"} => pc \in Active \cup {"done"}
    PROVE  LineInv'
<1>1. Current(Content)' = Current(Content)
  BY DEF Current
<1>2. AtLineStart(Content)' <=> AtLineStart(Content)
  BY DEF AtLineStart
<1>3. Glued' <=> Glued
  BY DEF Glued
<1>4. RowLines(Content)' <=> RowLines(Content)
  BY <1>1, <1>3 DEF RowLines
<1>5. CASE format = "json"
  BY <1>5 DEF LineInv
<1>6. CASE format # "json"
  BY <1>1, <1>2, <1>3, <1>4, <1>6 DEF LineInv
<1>7. QED
  BY <1>5, <1>6

LEMMA LineStep ==
    ASSUME EngineType, TableInv, RowsInv, LineInv, [EngineNext]_allvars
    PROVE  LineInv'
<1> SUFFICES ASSUME format # "json" PROVE LineInv'
  BY FileStep DEF LineInv
<1>1. /\ format' = format /\ format \in {"csv", "jsonl"}
      /\ WriterType /\ Content \in Seq(Token)
      /\ run \in Nat /\ broken \in Nat
      /\ \/ Rests \/ Begins \/ BadStart
         \/ (\E f \in pending : AddsRow(f)) \/ Closes \/ Breaks
  BY FileStep, ContentType DEF EngineType, WriterType
<1>2. CASE Rests /\ run' = run
  <2>1. /\ Content' = Content /\ broken' = broken
        /\ pc' \in Active \cup {"done"} => pc \in Active \cup {"done"}
    <3>1. run # run + 1
      BY <1>1
    <3>2. QED
      BY <1>2, <3>1 DEF Rests, Content, Active, Ended
  <2>2. QED
    BY <1>1, <1>2, <2>1, LinesStay
<1>3. CASE Rests /\ run' # run
  <2>1. Content' = Content /\ broken' = broken /\ pc' = "unopened"
    BY <1>3 DEF Rests, Content
  <2>2. QED
    BY <1>1, <2>1 DEF LineInv, AtLineStart, Active
<1>4. CASE Begins
  <2>1. Content = file /\ run' = run + 1 /\ broken' = broken
    BY <1>4, AtRest DEF Begins
  <2>2. /\ buffer' = <<>> /\ file' \in Seq(Token)
        /\ file' = file \/ file' = <<>> \/ file' = <<Header, NL>>
        /\ format = "jsonl" => file' = <<>>
    BY <1>1, <1>4, CreateFacts DEF Begins, WriterType
  <2>3. Content' = file'
    BY <2>2, EmptyBuffer
  <2>4. AtLineStart(<<>>) /\ AtLineStart(<<Header, NL>>)
    BY DEF AtLineStart
  <2>5. broken = 0 => AtLineStart(Content')
    BY <1>1, <2>1, <2>2, <2>3, <2>4 DEF LineInv
  <2>6. AtLineStart(Content') \/ (format = "csv" /\ broken' > 0)
    BY <1>1, <2>1, <2>2, <2>3, <2>4, <2>5
  <2>7. \A i \in 1 .. Len(Content') : IsRow(Content'[i]) => Content'[i][2] # run'
    <3>1. CASE file' = file
      <4>1. \A i \in 1 .. Len(Content) : IsRow(Content[i]) => Content[i][2] <= run
        BY DEF RowsInv, RowsOf
      <4>2. \A i \in 1 .. Len(Content) : IsRow(Content[i]) => Content[i][2] \in Nat
        <5>1. \A i \in 1 .. Len(Content) : Content[i] \in Token
          BY <1>1, ElementOfSeq
        <5>2. QED
          BY <5>1, RowsAreTokens, TokenFacts
      <4>3. ASSUME NEW i \in 1 .. Len(Content), IsRow(Content[i])
            PROVE  Content[i][2] # run + 1
        BY <1>1, <4>1, <4>2, <4>3
      <4>4. QED
        BY <2>1, <2>3, <3>1, <4>3
    <3>2. CASE file' = <<>> \/ file' = <<Header, NL>>
      BY <2>3, <3>2, EmptyOutputs DEF NoRows
    <3>3. QED
      BY <2>2, <3>1, <3>2
  <2>8. Current(Content)' = {}
    BY <2>7 DEF Current
  <2>9. RowLines(Content)'
    BY <2>8 DEF RowLines
  <2>10. AtLineStart(Content)' \/ Glued'
    BY <1>1, <2>6 DEF AtLineStart, Glued
  <2>11. (broken = 0 => AtLineStart(Content))'
    BY <2>1, <2>5 DEF AtLineStart
  <2>12. QED
    BY <2>8, <2>9, <2>10, <2>11 DEF LineInv
<1>5. ASSUME NEW f \in pending, AddsRow(f) PROVE LineInv'
  <2> DEFINE r == Row(f)
  <2>1. /\ r \in RowToken /\ RowTokens(r) \in Seq(Token) /\ RowTokens(r) = <<r, NL>>
        /\ r[2] = run
    BY PendingFlows DEF RowTokens, Row
  <2>2. Content' = Content \o <<r, NL>>
    <3>1. WriterType /\ (WriteFlow(Row(f)) \/ WriteAndFlush(Row(f)))
      BY <1>5 DEF AddsRow, EngineType
    <3>2. Content' = Content \o RowTokens(Row(f))
      BY <2>1, <3>1, WriteFlowFacts DEF Content
    <3>3. QED
      BY <2>1, <3>2
  <2>3. broken' = broken /\ run' = run /\ pc' = pc /\ pc \in Active
    BY <1>5 DEF AddsRow, Active
  <2>4. /\ AtLineStart(Content) \/ (Glued /\ Current(Content) = {})
        /\ RowLines(Content)
    BY <2>3 DEF LineInv
  <2> HIDE DEF r
  <2>5. AtLineStart(Content \o <<r, NL>>) /\ RowLines(Content \o <<r, NL>>)
    BY <1>1, <2>1, <2>4, RowLineAdded
  <2>6. PICK t : t = Content \o <<r, NL>>
    OBVIOUS
  <2>7. AtLineStart(t) /\ RowLines(t) /\ Content' = t
    BY <2>2, <2>5, <2>6
  <2>8. AtLineStart(Content)'
    BY <2>7 DEF AtLineStart
  <2>9. RowLines(Content)'
    BY <1>1, <2>3, <2>7 DEF RowLines, Current, Glued
  <2>10. QED
    BY <2>8, <2>9 DEF LineInv
<1>6. CASE Closes
  <2>1. Content' = Content
    <3>1. file' = Content \o <<>> /\ buffer' = <<>>
      BY <1>1, <1>6, FinishFacts DEF Closes
    <3>2. Content \o <<>> = Content
      BY <1>1, ConcatEmptySeq
    <3>3. QED
      BY <3>1, <3>2 DEF Content
  <2>2. run' = run /\ broken' = broken /\ pc \in Active
    BY <1>6 DEF Closes
  <2>3. QED
    BY <1>1, <2>1, <2>2, LinesStay
<1>7. CASE Breaks \/ BadStart
  <2>1. broken' # 0 /\ pc' \notin Active \cup {"done"}
    BY <1>1, <1>7 DEF Breaks, BadStart, Active
  <2>2. QED
    BY <2>1 DEF LineInv
<1>8. QED
  BY <1>1, <1>2, <1>3, <1>4, <1>5, <1>6, <1>7

LEMMA LineInit == EngineInit => LineInv
<1> SUFFICES ASSUME EngineInit PROVE LineInv
  OBVIOUS
<1>1. pc \in Ended /\ pc = "idle" /\ file = <<>>
  BY DEF EngineInit, InitWriter, Ended
<1>2. Content = <<>>
  BY <1>1, EngineTypeInit, AtRest
<1>3. QED
  BY <1>1, <1>2 DEF LineInv, AtLineStart, Active

-----------------------------------------------------------------------------
(* The invariant of the engine.                                            *)

EngineInv ==
    EngineType /\ TableInv /\ LoopInv /\ RowsInv /\ DurableInv /\ LineInv

LEMMA EngineInvInit == EngineInit => EngineInv
<1> SUFFICES ASSUME EngineInit PROVE EngineInv
  OBVIOUS
<1>1. LoopInv /\ DurableInv
  BY DEF EngineInit, Init, LoopInv, DurableInv
<1>2. QED
  BY <1>1, EngineTypeInit, TableInvInit, RowsInit, LineInit DEF EngineInv

LEMMA EngineInvStep == EngineInv /\ [EngineNext]_allvars => EngineInv'
BY EngineTypeStep, TableInvStep, LoopStep, RowsStep, DurableStep, LineStep
DEF EngineInv

LEMMA EngineInvCorrect == EngineSpec => []EngineInv
BY EngineInvInit, EngineInvStep, PTL DEF EngineSpec

\* When no row is in the buffer, the rows of the run are in the file: one for
\* each of the flows that were reported.
LEMMA RowsInFile ==
    ASSUME EngineInv, Unbroken, pending = {}, NoRows(buffer)
    PROVE  OneRowEach
<1>1. /\ file \in Seq(Token) /\ buffer \in Seq(Token)
      /\ Len(file) \in Nat
      /\ \A i \in 1 .. Len(file) : Content[i] = file[i]
      /\ TableInv /\ run \in Nat
  BY ContentType DEF EngineInv, EngineType, WriterType
<1>2. Out = handed /\ RowsOf(Content, handed)
  BY DEF Out, EngineInv, RowsInv
<1>3. \A i \in 1 .. Len(Content) : IsRow(Content[i]) => i \in 1 .. Len(file)
  <2> SUFFICES ASSUME NEW i \in 1 .. Len(Content), IsRow(Content[i])
               PROVE  i \in 1 .. Len(file)
    OBVIOUS
  <2>1. \/ i \in 1 .. Len(file)
        \/ \E j \in 1 .. Len(buffer) : Content[i] = buffer[j]
    BY <1>1, ConcatPlaces DEF Content
  <2>2. QED
    BY <2>1 DEF NoRows
<1>4. CurrentRows \subseteq Current(Content)
  <2>1. \A i \in 1 .. Len(file) : i \in 1 .. Len(Content)
    BY <1>1, ContentType DEF EngineInv, EngineType
  <2>2. QED
    BY <1>1, <2>1 DEF CurrentRows, Current
<1>5. \A i \in CurrentRows :
        i \in 1 .. Len(file) /\ file[i] = Content[i]
        /\ \E f \in handed : file[i] = Row(f)
  BY <1>1, <1>2, <1>4 DEF CurrentRows, RowsOf
<1>6. \A f \in handed : \E i \in CurrentRows : file[i] = Row(f)
  <2> SUFFICES ASSUME NEW f \in handed PROVE \E i \in CurrentRows : file[i] = Row(f)
    OBVIOUS
  <2>1. PICK i \in 1 .. Len(Content) : Content[i] = Row(f)
    BY <1>2 DEF EngineInv, RowsInv
  <2>2. IsRow(Row(f)) /\ Row(f)[2] = run
    BY DEF Row, IsRow
  <2>3. i \in 1 .. Len(file) /\ file[i] = Row(f)
    BY <1>1, <1>3, <2>1, <2>2
  <2>4. i \in CurrentRows
    BY <2>2, <2>3 DEF CurrentRows
  <2>5. QED
    BY <2>3, <2>4
<1>7. {file[i] : i \in CurrentRows} = {Row(f) : f \in handed}
  BY <1>5, <1>6
<1>8. Cardinality(CurrentRows) = Cardinality(handed)
  <2> DEFINE h == [i \in CurrentRows |-> CHOOSE f \in handed : file[i] = Row(f)]
  <2>1. \A i \in CurrentRows : h[i] \in handed /\ file[i] = Row(h[i])
    BY <1>5
  <2>2. h \in [CurrentRows -> handed]
    BY <2>1
  <2> HIDE DEF h
  <2>3. ASSUME NEW i \in CurrentRows, NEW j \in CurrentRows, h[i] = h[j]
        PROVE  i = j
    <3>1. Content[i] = Content[j]
      BY <1>5, <2>1, <2>3
    <3>2. QED
      BY <1>2, <1>4, <3>1 DEF RowsOf
  <2>4. ASSUME NEW f \in handed PROVE \E i \in CurrentRows : h[i] = f
    <3>1. PICK i \in CurrentRows : file[i] = Row(f)
      BY <1>6
    <3>2. h[i] \in handed /\ Row(h[i]) = Row(f)
      BY <2>1, <3>1
    <3>3. h[i] = f
      BY <1>1, <3>2, RowsTellFlows
    <3>4. QED
      BY <3>3
  <2>5. h \in Bijection(CurrentRows, handed)
    BY <2>2, <2>3, <2>4 DEF Bijection, Injection, Surjection, IsInjective
  <2>6. IsFiniteSet(CurrentRows)
    <3>1. IsFiniteSet(1 .. Len(file)) /\ CurrentRows \subseteq 1 .. Len(file)
      BY <1>1, FS_Interval DEF CurrentRows
    <3>2. QED
      BY <3>1, FS_Subset
  <2>7. QED
    BY <2>5, <2>6, FS_Bijection DEF ExistsBijection
<1>9. QED
  BY <1>7, <1>8 DEF OneRowEach

LEMMA NothingBuffered ==
    ASSUME EngineInv, pc \in Ended
    PROVE  pending = {} /\ NoRows(buffer)
BY DEF EngineInv, EngineType, Ended, NoRows

\* A run that returns Ok has written every flow it reports, once, and has left
\* no packet out.  In a CSV or JSON Lines file its rows are lines of their own,
\* but for the first of them behind a line that an earlier run left cut.
THEOREM OkIsComplete == EngineSpec => []SuccessIsComplete
<1>1. EngineInv => SuccessIsComplete
  <2> SUFFICES ASSUME EngineInv, pc = "done"
               PROVE  /\ OneRowEach
                      /\ format # "json" => RowsAreLines
                      /\ finished_flow_count = Cardinality(CurrentRows)
                      /\ (UNION {file[i][3] : i \in CurrentRows})
                           \cup (UNION {f.members : f \in dropped}) = 1 .. Len(log)
    BY DEF SuccessIsComplete
  <2>1. OneRowEach
    BY NothingBuffered, RowsInFile DEF Ended, Unbroken
  <2>2. finished_flows = {} /\ DOMAIN current_flows = {}
    BY DEF EngineInv, LoopInv
  <2>3. finished_flow_count = Cardinality(handed) /\ Cardinality(handed) \in Nat
    <3>1. /\ finished_flow_count = Cardinality(finished_flows) + Cardinality(handed)
          /\ IsFiniteSet(handed)
      BY DEF EngineInv, TableInv, CountInv, FinishedCountMatches
    <3>2. Cardinality(finished_flows) = 0 /\ Cardinality(handed) \in Nat
      BY <2>2, <3>1, FS_EmptySet, FS_CardinalityType
    <3>3. QED
      BY <3>1, <3>2
  <2>4. AllFlows = handed \cup dropped
    BY <2>2 DEF AllFlows, OpenFlows, Retired, Reported
  <2>5. UNION {f.members : f \in handed \cup dropped} = 1 .. Len(log)
    BY <2>4 DEF EngineInv, TableInv, AccountInv, Partition
  <2>6. \A f : Row(f)[3] = f.members
    BY DEF Row
  <2>7. \A i \in CurrentRows : \E f \in handed : file[i][3] = f.members
    <3> SUFFICES ASSUME NEW i \in CurrentRows
                 PROVE  \E f \in handed : file[i][3] = f.members
      OBVIOUS
    <3>1. file[i] \in {Row(f) : f \in handed}
      BY <2>1 DEF OneRowEach
    <3>2. QED
      BY <2>6, <3>1
  <2>8. \A f \in handed : \E i \in CurrentRows : file[i][3] = f.members
    <3> SUFFICES ASSUME NEW f \in handed
                 PROVE  \E i \in CurrentRows : file[i][3] = f.members
      OBVIOUS
    <3>1. Row(f) \in {file[i] : i \in CurrentRows}
      BY <2>1 DEF OneRowEach
    <3>2. QED
      BY <2>6, <3>1
  <2>9. {file[i][3] : i \in CurrentRows} = {f.members : f \in handed}
    BY <2>7, <2>8
  <2>10. format # "json" => RowsAreLines
    <3> SUFFICES ASSUME format # "json" PROVE RowsAreLines
      OBVIOUS
    <3>1. Content = file
      BY AtRest DEF EngineInv, Ended
    <3>2. RowLines(file) /\ Current(file) = CurrentRows
      BY <3>1 DEF EngineInv, LineInv, Current, CurrentRows
    <3>3. QED
      BY <3>2 DEF RowLines, RowsAreLines, Glued
  <2>11. QED
    BY <2>1, <2>3, <2>5, <2>9, <2>10 DEF OneRowEach
<1>2. QED
  BY <1>1, EngineInvCorrect, PTL

\* A run that fails on its input has written the flows that were reported.
THEOREM FailureIsOrderly == EngineSpec => []FailureKeepsReported
<1>1. EngineInv => FailureKeepsReported
  BY NothingBuffered, RowsInFile DEF FailureKeepsReported, Ended, Unbroken
<1>2. QED
  BY <1>1, EngineInvCorrect, PTL

\* A live capture that waits for a packet has them in the file.
THEOREM LiveIsDurable == EngineSpec => []LiveRowsAreDurable
<1>1. EngineInv => LiveRowsAreDurable
  <2> SUFFICES ASSUME EngineInv, live, pc \in {"read", "capture"}
               PROVE  OneRowEach
    BY DEF LiveRowsAreDurable
  <2>1. NoRows(buffer) /\ pending = {}
    BY DEF EngineInv, DurableInv, EngineType
  <2>2. Unbroken
    BY DEF Unbroken, Active
  <2>3. QED
    BY <2>1, <2>2, RowsInFile
<1>2. QED
  BY <1>1, EngineInvCorrect, PTL

-----------------------------------------------------------------------------
(* The engine implements the sink.                                         *)

savedBar == {file[i][3] : i \in CurrentRows}
shortBar == Members(dropped)

\* Every group of packets that has a row is that of a reported flow.
LEMMA SavedFlows ==
    ASSUME EngineInv, NEW g \in savedBar
    PROVE  \E f \in handed : g = f.members
<1>1. PICK i \in CurrentRows : g = file[i][3]
  BY DEF savedBar
<1>2. /\ Len(file) \in Nat /\ Len(Content) \in Nat /\ Len(file) <= Len(Content)
      /\ \A j \in 1 .. Len(file) : Content[j] = file[j]
      /\ RowsOf(Content, Out)
  BY ContentType DEF EngineInv, EngineType, RowsInv
<1>3. i \in 1 .. Len(file) /\ IsRow(file[i]) /\ file[i][2] = run
  BY DEF CurrentRows
<1>4. i \in Current(Content) /\ Content[i] = file[i]
  BY <1>2, <1>3 DEF Current
<1>5. PICK f \in Out : file[i] = Row(f)
  BY <1>2, <1>4 DEF RowsOf
<1>6. f \in handed /\ Row(f)[3] = f.members
  BY DEF Out, Row
<1>7. QED
  BY <1>1, <1>5, <1>6

\* The groups are what FlowSink says of those it settles.
SinkFacts ==
    /\ \A g \in savedBar : Cardinality(g) >= min_packets_per_flow
    /\ \A g \in shortBar : Cardinality(g) < min_packets_per_flow
    /\ \A g \in savedBar \cup shortBar :
          /\ g # {} /\ g \subseteq 1 .. Len(log)
          /\ \A h \in savedBar \cup shortBar : g # h => g \cap h = {}
    /\ savedBar \cap shortBar = {}
    /\ handed = {} => savedBar = {}
    /\ pc = "done" => UNION (savedBar \cup shortBar) = 1 .. Len(log)
    /\ min_packets_per_flow \in Nat

LEMMA SinkFactsHold == EngineInv => SinkFacts
<1> SUFFICES ASSUME EngineInv PROVE SinkFacts
  OBVIOUS
<1>1. /\ TypeOK /\ Partition /\ OnePlaceEach /\ FlowsMatchTheirPackets /\ SizeInv
  BY DEF EngineInv, TableInv, AccountInv, TypeInv
<1>2. \A g \in shortBar : \E f \in dropped : g = f.members
  BY DEF shortBar, Members
<1>3. handed \subseteq AllFlows /\ dropped \subseteq AllFlows /\ handed \subseteq Reported
  BY DEF AllFlows, Retired, Reported
<1>4. \A f \in AllFlows :
        /\ PacketCount(f) = Cardinality(f.members)
        /\ f.members # {} /\ f.members \subseteq 1 .. Len(log)
  BY <1>1, CountIsSize, MembersFacts
<1>5. ASSUME NEW g \in savedBar PROVE Cardinality(g) >= min_packets_per_flow
  <2>1. PICK f \in handed : g = f.members
    BY SavedFlows
  <2>2. LongEnough(f)
    BY <1>1, <1>3 DEF SizeInv
  <2>3. QED
    BY <1>3, <1>4, <2>1, <2>2 DEF LongEnough
<1>6. ASSUME NEW g \in shortBar PROVE Cardinality(g) < min_packets_per_flow
  <2>1. PICK f \in dropped : g = f.members
    BY <1>2
  <2>2. ~LongEnough(f) /\ PacketCount(f) = Cardinality(g)
    BY <1>1, <1>3, <1>4, <2>1 DEF SizeInv
  <2>3. Cardinality(g) \in Nat
    <3>1. IsFiniteSet(f.members)
      BY <1>1, <1>3, MembersFacts
    <3>2. QED
      BY <2>1, <3>1, FS_CardinalityType
  <2>4. min_packets_per_flow \in Nat
    BY <1>1 DEF TypeOK
  <2>5. QED
    BY <2>2, <2>3, <2>4 DEF LongEnough
<1>7. ASSUME NEW g \in savedBar \cup shortBar
      PROVE  \E f \in AllFlows : g = f.members
  BY <1>2, <1>3, SavedFlows
<1>8. ASSUME NEW g \in savedBar \cup shortBar
      PROVE  /\ g # {} /\ g \subseteq 1 .. Len(log)
             /\ \A h \in savedBar \cup shortBar : g # h => g \cap h = {}
  <2>1. PICK f \in AllFlows : g = f.members
    BY <1>7
  <2>2. ASSUME NEW h \in savedBar \cup shortBar, g # h PROVE g \cap h = {}
    <3>1. PICK e \in AllFlows : h = e.members
      BY <1>7
    <3>2. QED
      BY <1>1, <2>1, <2>2, <3>1 DEF Partition
  <2>3. QED
    BY <1>4, <2>1, <2>2
<1>9. savedBar \cap shortBar = {}
  <2> SUFFICES ASSUME NEW g \in savedBar, g \in shortBar PROVE FALSE
    OBVIOUS
  <2>1. PICK f \in handed : g = f.members
    BY SavedFlows
  <2>2. PICK e \in dropped : g = e.members
    BY <1>2
  <2>3. f # e
    BY <1>1, <1>3 DEF OnePlaceEach
  <2>4. f \in AllFlows /\ e \in AllFlows
    BY <1>3
  <2>5. f.members \cap e.members = {} /\ f.members # {}
    BY <1>1, <2>3, <2>4 DEF Partition
  <2>6. QED
    BY <2>1, <2>2, <2>5
<1>10. handed = {} => savedBar = {}
  BY SavedFlows
<1>11. pc = "done" => UNION (savedBar \cup shortBar) = 1 .. Len(log)
  <2> SUFFICES ASSUME pc = "done" PROVE UNION (savedBar \cup shortBar) = 1 .. Len(log)
    OBVIOUS
  <2>1. OneRowEach
    BY NothingBuffered, RowsInFile DEF Ended, Unbroken
  <2>2. finished_flows = {} /\ DOMAIN current_flows = {}
    BY DEF EngineInv, LoopInv
  <2>3. AllFlows = handed \cup dropped
    BY <2>2 DEF AllFlows, OpenFlows, Retired, Reported
  <2>4. \A f \in handed : f.members \in savedBar
    <3> SUFFICES ASSUME NEW f \in handed PROVE f.members \in savedBar
      OBVIOUS
    <3>1. Row(f) \in {file[i] : i \in CurrentRows}
      BY <2>1 DEF OneRowEach
    <3>2. Row(f)[3] = f.members
      BY DEF Row
    <3>3. QED
      BY <3>1, <3>2 DEF savedBar
  <2>5. \A f \in dropped : f.members \in shortBar
    BY DEF shortBar, Members
  <2>6. UNION {f.members : f \in AllFlows} = 1 .. Len(log)
    BY <1>1 DEF Partition
  <2>7. ASSUME NEW n \in 1 .. Len(log) PROVE n \in UNION (savedBar \cup shortBar)
    <3>1. PICK f \in AllFlows : n \in f.members
      BY <2>6
    <3>2. QED
      BY <2>3, <2>4, <2>5, <3>1
  <2>8. ASSUME NEW n \in UNION (savedBar \cup shortBar) PROVE n \in 1 .. Len(log)
    BY <1>8
  <2>9. QED
    BY <2>7, <2>8
<1>12. min_packets_per_flow \in Nat
  BY <1>1 DEF TypeOK
<1>13. QED
  BY <1>5, <1>6, <1>8, <1>9, <1>10, <1>11, <1>12 DEF SinkFacts

LEMMA SinkFactsNext == EngineInv' => SinkFacts'
BY SinkFactsHold, PTL

\* FlowSink's instance of Cardinality is the same operator.
LEMMA SinkCardinality == \A S : Sink!Cardinality(S) = Cardinality(S)
BY DEF Cardinality, Sink!Cardinality

\* A step that takes nothing back settles.
LEMMA StepSettles ==
    ASSUME EngineInv', savedBar \subseteq savedBar', shortBar \subseteq shortBar',
           min_packets_per_flow' = min_packets_per_flow
    PROVE  Sink!Settle
<1>1. SinkFacts'
  BY SinkFactsNext
<1>2. /\ \A g \in savedBar' : Sink!Cardinality(g) >= min_packets_per_flow
      /\ \A g \in shortBar' : Sink!Cardinality(g) < min_packets_per_flow
  BY <1>1, SinkCardinality DEF SinkFacts
<1>3. /\ \A g \in savedBar' \cup shortBar' :
            /\ g # {} /\ g \subseteq 1 .. Len(log')
            /\ \A h \in savedBar' \cup shortBar' : g # h => g \cap h = {}
      /\ savedBar' \cap shortBar' = {}
  BY <1>1 DEF SinkFacts
<1>4. QED
  BY <1>2, <1>3 DEF Sink!Settle, Sink!Settled, savedBar, shortBar

\* Within a run no row is taken back and no flow dropped anew.
LEMMA NothingTakenBack ==
    ASSUME EngineInv, EngineInv', [EngineNext]_allvars, TableGoesOn,
           ~Begins, run' = run
    PROVE  Sink!Settle
<1>1. dropped \subseteq dropped'
  <2>1. [Next]_vars
    BY GoesOnIsNext
  <2>2. RetiredStays
    BY <2>1, RetiredStaysStep DEF EngineInv, TableInv, AccountInv
  <2>3. QED
    BY <2>2 DEF RetiredStays
<1>2. shortBar \subseteq shortBar'
  BY <1>1 DEF shortBar, Members
<1>3. /\ Len(file) \in Nat /\ Len(file') \in Nat /\ Len(file) <= Len(file')
      /\ \A i \in 1 .. Len(file) : file'[i] = file[i]
  <2>1. file \in Seq(Token) /\ file' \in Seq(Token) /\ InitialPart(file, file')
    BY FileGrows DEF EngineInv, EngineType, WriterType
  <2>2. QED
    BY <2>1, LenProperties DEF InitialPart
<1>4. CurrentRows \subseteq CurrentRows'
  BY <1>3 DEF CurrentRows, IsRow
<1>5. \A i \in CurrentRows : i \in CurrentRows' /\ file[i][3] = file'[i][3]
  BY <1>3, <1>4 DEF CurrentRows
<1>6. savedBar \subseteq savedBar'
  BY <1>5 DEF savedBar
<1>7. min_packets_per_flow' = min_packets_per_flow
  BY ConfigStays
<1>8. QED
  BY <1>2, <1>6, <1>7, StepSettles

\* What the reader of the file sees of the program counter.
statusBar == CASE pc \in Active -> "running"
               [] pc = "done" -> "ok"
               [] pc \in {"unopened", "spoilt"} -> "failed"
               [] OTHER -> pc

LEMMA StatusValues ==
    /\ pc \in Active => statusBar = "running"
    /\ pc = "done" => statusBar = "ok"
    /\ pc \in {"failed", "unopened", "spoilt"} => statusBar = "failed"
    /\ pc \in {"idle", "killed"} => statusBar = pc
BY DEF statusBar, Active

LEMMA StatusNext ==
    /\ pc' \in Active => statusBar' = "running"
    /\ pc' = "done" => statusBar' = "ok"
    /\ pc' \in {"failed", "unopened", "spoilt"} => statusBar' = "failed"
    /\ pc' \in {"idle", "killed"} => statusBar' = pc'
BY DEF statusBar, Active

\* A new run has nothing in the file, and nothing dropped.
LEMMA BeginsSink ==
    ASSUME EngineInv, EngineInv', Start \/ OpenFails \/ CreateFails
    PROVE  Sink!Begin
<1>1. pc \in Ended /\ pc' \in {"read", "unopened", "spoilt", "killed"}
  BY DEF Start, OpenFails, CreateFails
<1>2. statusBar # "running" /\ statusBar' \in {"running", "failed", "killed"}
  BY <1>1, StatusValues, StatusNext DEF Ended, Active
<1>3. log' = <<>> /\ handed' = {} /\ dropped' = {}
  BY DEF Start, OpenFails, CreateFails, FreshGenerator
<1>4. Len(log') = 0
  BY <1>3
<1>5. savedBar' = {} /\ min_packets_per_flow' \in Nat
  BY <1>3, SinkFactsNext DEF SinkFacts
<1>6. shortBar' = {}
  BY <1>3 DEF shortBar, Members
<1>7. QED
  BY <1>2, <1>4, <1>5, <1>6 DEF Sink!Begin, statusBar, savedBar, shortBar

\* Every step of the program is one of the sink's, or none.
LEMMA SinkStep ==
    ASSUME EngineInv, EngineInv', [EngineNext]_allvars
    PROVE  [Sink!Next]_(Sink!vars)
<1>1. CASE Start \/ OpenFails \/ CreateFails
  BY <1>1, BeginsSink DEF Sink!Next
<1>2. CASE UNCHANGED allvars
  <2>1. /\ pc' = pc /\ log' = log /\ file' = file /\ run' = run
        /\ dropped' = dropped /\ min_packets_per_flow' = min_packets_per_flow
    BY <1>2 DEF allvars, generator, vars, config, writer, engine
  <2>2. CurrentRows' = CurrentRows
    BY <2>1 DEF CurrentRows
  <2>3. QED
    BY <2>1, <2>2 DEF Sink!vars, Members
<1>3. log \in Seq(Packets) /\ Len(log) \in Nat
  BY LenProperties DEF EngineInv, TableInv, AccountInv, TypeInv, TypeOK
<1>4. CASE TakePacket
  <2>1. TableGoesOn /\ run' = run /\ ~Begins
    BY <1>4 DEF TakePacket, TableGoesOn, Begins
  <2>2. Sink!Settle
    BY <2>1, NothingTakenBack
  <2>3. PICK p \in Packets : log' = Append(log, p)
    BY <1>4 DEF TakePacket, AddPacket
  <2>4. Len(log') = Len(log) + 1
    BY <1>3, <2>3
  <2>5. pc \in Active /\ pc' \in Active
    BY <1>4 DEF TakePacket, Reading, Active
  <2>6. statusBar = "running" /\ statusBar' = "running"
    BY <2>5, StatusValues, StatusNext
  <2>7. QED
    BY <2>2, <2>4, <2>6 DEF Sink!Next, Sink!Read, statusBar
<1>5. ASSUME TableGoesOn, log' = log, run' = run, ~Begins,
             pc \in Active, pc' \in Active
      PROVE  Sink!Save
  <2>1. Sink!Settle
    BY <1>5, NothingTakenBack
  <2>2. statusBar = "running" /\ statusBar' = "running"
    BY <1>5, StatusValues, StatusNext
  <2>3. QED
    BY <1>5, <2>1, <2>2 DEF Sink!Save, statusBar
<1>6. UNCHANGED generator => TableGoesOn /\ log' = log
  BY DEF generator, vars, TableGoesOn
<1>7. GetFinishedFlows \/ FinishAllFlows => TableGoesOn /\ log' = log
  BY DEF GetFinishedFlows, FinishAllFlows, TableGoesOn
<1>8. CASE Drain \/ LastPackets
  <2>1. TableGoesOn /\ log' = log
    BY <1>6, <1>7, <1>8 DEF Drain, LastPackets
  <2>2. run' = run /\ pc \in Active /\ pc' \in Active /\ ~Begins
    BY <1>8 DEF Drain, LastPackets, Active, Begins, Ended
  <2>3. QED
    BY <1>5, <2>1, <2>2 DEF Sink!Next
<1>9. CASE CheckFlag \/ NoPacket \/ Written \/ Stop
             \/ \E f \in pending : Write(f) \/ WriteLast(f)
  <2>1. TableGoesOn /\ log' = log
    BY <1>6, <1>9 DEF CheckFlag, NoPacket, Written, Stop, Write, WriteLast
  <2>2. run' = run /\ pc \in Active /\ pc' \in Active /\ ~Begins
    BY <1>9
    DEF CheckFlag, NoPacket, Written, Stop, Write, WriteLast, Active, Begins, Ended
  <2>3. QED
    BY <1>5, <2>1, <2>2 DEF Sink!Next
<1>10. CASE Succeed
  <2>1. TableGoesOn /\ log' = log
    BY <1>6, <1>10 DEF Succeed
  <2>2. run' = run /\ pc = "final" /\ pc' = "done"
    BY <1>10 DEF Succeed
  <2>3. Sink!Settle
    BY <2>1, <2>2, NothingTakenBack DEF Begins
  <2>4. statusBar = "running" /\ statusBar' = "ok"
    BY <2>2, StatusValues, StatusNext DEF Active
  <2>5. UNION (savedBar' \cup shortBar') = 1 .. Len(log)
    BY <2>1, <2>2, SinkFactsNext DEF SinkFacts
  <2>6. QED
    BY <2>1, <2>3, <2>4, <2>5
    DEF Sink!Next, Sink!EndWell, Sink!Settled, statusBar, savedBar, shortBar
<1>11. CASE ReadFails \/ DropFails \/ FinishFails \/ \E f \in pending : WriteFails(f)
  <2>1. TableGoesOn /\ log' = log
    BY <1>6, <1>11 DEF ReadFails, DropFails, FinishFails, WriteFails
  <2>2. run' = run /\ pc \in Active /\ pc' \in {"failed", "spoilt"}
    BY <1>11 DEF ReadFails, DropFails, FinishFails, WriteFails, Reading, Active
  <2>3. Sink!Settle
    BY <2>1, <2>2, NothingTakenBack DEF Begins
  <2>4. statusBar = "running" /\ statusBar' = "failed"
    BY <2>2, StatusValues, StatusNext
  <2>5. QED
    BY <2>1, <2>3, <2>4 DEF Sink!Next, Sink!Fail, statusBar
<1>12. CASE Kill
  <2>1. TableGoesOn /\ log' = log
    BY <1>6, <1>12 DEF Kill
  <2>2. run' = run /\ pc \in Active /\ pc' = "killed"
    BY <1>12 DEF Kill
  <2>3. Sink!Settle
    BY <2>1, <2>2, NothingTakenBack DEF Begins
  <2>4. statusBar = "running" /\ statusBar' = "killed"
    BY <2>2, StatusValues, StatusNext
  <2>5. QED
    BY <2>1, <2>3, <2>4 DEF Sink!Next, Sink!Die, statusBar
<1>13. QED
  BY <1>1, <1>2, <1>4, <1>8, <1>9, <1>10, <1>11, <1>12
  DEF EngineNext, Work, Happening, Terminated

\* The program, with its flow table, writers, buffer and faults, implements
\* FlowSink: rows are never taken back or doubled nor share a packet, and Ok
\* means that every packet is in a row or in a flow too short for one.
THEOREM EngineIsSink == EngineSpec => EngineImplementsSink
<1>1. EngineInit => Sink!Init
  <2> SUFFICES ASSUME EngineInit PROVE Sink!Init
    OBVIOUS
  <2>1. /\ pc = "idle" /\ file = <<>> /\ log = <<>> /\ dropped = {}
        /\ min_packets_per_flow = 2
    BY DEF EngineInit, Init, InitWriter
  <2>2. CurrentRows = {}
    BY <2>1 DEF CurrentRows
  <2>3. statusBar = "idle"
    BY <2>1, StatusValues
  <2>4. QED
    BY <2>1, <2>2, <2>3 DEF Sink!Init, statusBar, Members
<1>2. EngineInv /\ EngineInv' /\ [EngineNext]_allvars => [Sink!Next]_(Sink!vars)
  BY SinkStep
<1>3. QED
  BY <1>1, <1>2, EngineInvCorrect, PTL
  DEF EngineSpec, EngineImplementsSink, Sink!Spec
=============================================================================
