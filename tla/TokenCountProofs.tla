-------------------------- MODULE TokenCountProofs --------------------------
(***************************************************************************)
(* Theorems about TokenCount, for texts of any length, any number of cores *)
(* and any limits.                                                         *)
(*                                                                         *)
(* The argument: while safe_split_points looks for the next cut, the       *)
(* cursor is at least as many target chunks into the text as there will be *)
(* chunks (Searching), so the cuts are boundaries a chunk apart and fewer  *)
(* than the workers the target was computed from; and what has been summed *)
(* up after the first j threads were joined is the count of the text up to *)
(* the end of chunk j (Summed), because the tokens of the two sides of a   *)
(* cut are those of the text (CountSplits).                                *)
(***************************************************************************)
EXTENDS TokenCount, PretokenizerProofs

\* Dividing rounds up: that many chunks of the target cover the text.
LEMMA DivCeilCovers ==
  ASSUME NEW a \in Nat, NEW b \in Nat \ {0}
  PROVE  DivCeil(a, b) \in Nat /\ DivCeil(a, b) * b >= a /\ DivCeil(a, b) <= a
<1> DEFINE q == (a + b - 1) \div b
           r == (a + b - 1) % b
<1>1. q \in Nat /\ r \in 0..(b - 1) /\ a + b - 1 = b * q + r
  BY SMT
<1>2. q * b >= a
  BY <1>1, SMT
<1>3. q <= a
  BY <1>1, SMT
<1> QED
  BY <1>1, <1>2, <1>3 DEF DivCeil

\* The workers are at most the cores, MAX_WORKERS and the chunks of MIN_CHUNK.
LEMMA WorkersBound ==
  ASSUME len \in Nat, cores \in Nat \ {0}
  PROVE  /\ Workers \in Nat \ {0}
         /\ Workers >= 2 =>
              Workers <= cores /\ Workers <= MAX_WORKERS /\ Workers * MIN_CHUNK <= len
<1> DEFINE d == len \div MIN_CHUNK
<1>1. d \in Nat /\ d * MIN_CHUNK <= len
  <2>1. MIN_CHUNK \in Nat \ {0}
    BY LimitsAssumption
  <2>2. len = MIN_CHUNK * d + (len % MIN_CHUNK) /\ len % MIN_CHUNK \in 0..(MIN_CHUNK - 1) /\ d \in Nat
    BY <2>1, SMT
  <2> QED BY <2>1, <2>2, SMT
<1>2. Workers \in Nat \ {0} /\ (Workers >= 2 => Workers <= cores /\ Workers <= MAX_WORKERS /\ Workers <= d)
  BY <1>1, LimitsAssumption DEF Workers, Larger, Smaller
<1>3. ASSUME Workers <= d PROVE Workers * MIN_CHUNK <= len
  <2>1. Workers * MIN_CHUNK <= d * MIN_CHUNK
    BY <1>1, <1>2, <1>3, LimitsAssumption, SMT
  <2> QED BY <2>1, <1>1, <1>2, LimitsAssumption, SMT
<1> QED
  BY <1>2, <1>3

-----------------------------------------------------------------------------
(* Counting chunks.                                                        *)

\* The bytes between two offsets are a text.
LEMMA ChunkIs ==
  ASSUME text \in Text, NEW from \in Nat, NEW to \in Nat, from <= to, to <= len
  PROVE  /\ SubSeq(text, from + 1, to) \in Text
         /\ Len(SubSeq(text, from + 1, to)) = to - from
         /\ \A k \in 1..(to - from) : SubSeq(text, from + 1, to)[k] = text[from + k]
<1>1. len \in Nat
  BY ItsOwnRest DEF len
<1>2. PICK a \in Nat : a = from + 1 /\ to - a + 1 = to - from /\ (a <= to <=> to - from # 0)
  OBVIOUS
<1>3. \A i \in a..to : text[i] \in Chars
  BY <1>1, <1>2 DEF Text, len
<1>4. /\ SubSeq(text, a, to) \in Seq(Chars)
      /\ Len(SubSeq(text, a, to)) = IF a <= to THEN to - a + 1 ELSE 0
      /\ \A k \in 1..(to - a + 1) : SubSeq(text, a, to)[k] = text[a + k - 1]
  BY <1>2, <1>3, SubSeqProperties
<1>5. \A k \in 1..(to - from) : a + k - 1 = from + k
  BY <1>2
<1> QED BY <1>2, <1>4, <1>5 DEF Text

\* A part of the first b bytes is that part of the text.
LEMMA SubSeqOfPrefix ==
  ASSUME NEW t \in Text, NEW v \in Text, NEW b \in Nat, b <= Len(t), Len(v) = b,
         \A k \in 1..b : v[k] = t[k],
         NEW m \in 1..(b + 1), NEW n \in 0..b
  PROVE  SubSeq(v, m, n) = SubSeq(t, m, n)
<1>1. Len(t) \in Nat
  BY ItsOwnRest
<1>2. \A i \in m..n : v[i] \in Chars /\ t[i] \in Chars /\ v[i] = t[i]
  BY <1>1 DEF Text
<1>3. /\ SubSeq(v, m, n) \in Seq(Chars) /\ SubSeq(t, m, n) \in Seq(Chars)
      /\ Len(SubSeq(v, m, n)) = IF m <= n THEN n - m + 1 ELSE 0
      /\ Len(SubSeq(t, m, n)) = IF m <= n THEN n - m + 1 ELSE 0
      /\ \A k \in 1..(n - m + 1) : SubSeq(v, m, n)[k] = v[m + k - 1]
      /\ \A k \in 1..(n - m + 1) : SubSeq(t, m, n)[k] = t[m + k - 1]
  BY <1>2, SubSeqProperties
<1>4. \A k \in 1..(n - m + 1) : SubSeq(v, m, n)[k] = SubSeq(t, m, n)[k]
  <2>1. \A k \in 1..(n - m + 1) : m + k - 1 \in m..n
    OBVIOUS
  <2> QED BY <1>2, <1>3, <2>1
<1>5. \A k \in 1..Len(SubSeq(v, m, n)) : SubSeq(v, m, n)[k] = SubSeq(t, m, n)[k]
  BY <1>3, <1>4
<1> QED BY <1>3, <1>5, SeqEqual

\* A chunk has at most as many tokens as bytes.
LEMMA EncodeLenType ==
  ASSUME text \in Text, NEW from \in Nat, NEW to \in Nat, from <= to, to <= len
  PROVE  EncodeLen(from, to) \in 0..(to - from)
BY ChunkIs, CountBound DEF EncodeLen

\* Nothing has no tokens.
LEMMA EncodeNothing == text \in Text => EncodeLen(0, 0) = 0
<1> SUFFICES ASSUME text \in Text PROVE EncodeLen(0, 0) = 0
  OBVIOUS
<1>1. PICK z \in Nat : z = 0 /\ z <= z /\ z <= len /\ z - z = 0
  BY ItsOwnRest DEF len
<1>2. EncodeLen(z, z) \in 0..(z - z)
  BY <1>1, EncodeLenType
<1> QED BY <1>1, <1>2

\* A cut at a boundary: the counts of the two sides add up.
LEMMA EncodeLenSplits ==
  ASSUME text \in Text,
         NEW a \in 1..(len - 1), Cut(a), text[a + 1] # VTab,
         NEW b \in Nat, a < b, b <= len
  PROVE  EncodeLen(0, b) = EncodeLen(0, a) + EncodeLen(a, b)
<1>1. len \in Nat
  BY ItsOwnRest DEF len
<1>2. PICK v : v = SubSeq(text, 0 + 1, b)
  OBVIOUS
<1>3. v \in Text /\ Len(v) = b /\ \A k \in 1..b : v[k] = text[k]
  <2>1. b - 0 = b /\ \A k \in 1..b : 0 + k = k
    OBVIOUS
  <2>2. PICK z \in Nat : z = 0 /\ z <= b /\ b - z = b
    OBVIOUS
  <2>3. /\ SubSeq(text, z + 1, b) \in Text /\ Len(SubSeq(text, z + 1, b)) = b - z
        /\ \A k \in 1..(b - z) : SubSeq(text, z + 1, b)[k] = text[z + k]
    BY <2>2, ChunkIs
  <2> QED BY <1>2, <2>1, <2>2, <2>3
<1>4. PICK i \in Nat : i = a + 1 /\ i - 1 = a /\ i \in 2..b
  BY <1>1
<1>5. text[a] = NL /\ SafeNext(text[i]) /\ text[i] # VTab
  BY <1>4 DEF Cut, Boundary
<1>6. v[i] = text[i] /\ v[i - 1] = text[a]
  <2>1. i \in 1..b /\ a \in 1..b
    BY <1>1, <1>4
  <2> QED BY <1>3, <1>4, <2>1
<1>7. i \in 2..Len(v) /\ Boundary(v, i) /\ v[i] # VTab
  BY <1>3, <1>4, <1>5, <1>6 DEF Boundary
<1>8. Cardinality(TokenStarts(v)) =
        Cardinality(TokenStarts(SubSeq(v, 1, i - 1))) + Cardinality(TokenStarts(SubSeq(v, i, Len(v))))
  BY <1>3, <1>7, CountSplits
<1>9. SubSeq(v, 1, i - 1) = SubSeq(text, 0 + 1, a)
  BY <1>2, <1>3, <1>4, <1>1, SubSeqOfPrefix DEF len
<1>10. SubSeq(v, i, Len(v)) = SubSeq(text, a + 1, b)
  BY <1>2, <1>3, <1>4, <1>1, SubSeqOfPrefix DEF len
<1> QED BY <1>2, <1>8, <1>9, <1>10 DEF EncodeLen

-----------------------------------------------------------------------------
(* The inductive invariant.                                                *)

\* The cuts found so far, and where the search for the next one starts.
Searching ==
  /\ pc = "start" => points = <<>>
  /\ points # <<>> \/ pc = "split" =>
       target # 0 /\ Workers >= 2 /\ len <= target * Workers
  /\ pc = "split" =>
       /\ cursor >= (Len(points) + 1) * target
       /\ points # <<>> => cursor = points[Len(points)] + target
  /\ \A i \in DOMAIN points : points[i] >= i * target

\* What the threads have counted, and what has been summed up.
Summed ==
  /\ pc \in {"start", "split", "chunks"} => total = 0 /\ joined = 0 /\ crashed = {}
  /\ pc \in {"join", "unwind"} =>
       /\ points # <<>> /\ joined <= Len(points)
       /\ \A k \in Chunks \ (running \cup crashed) : counts[k] = EncodeLen(Start(k), End(k))
       /\ total <= Start(joined + 1)
       /\ NoCutBeforeVTab => total = EncodeLen(0, Start(joined + 1))
  /\ pc = "done" /\ NoCutBeforeVTab => total = SerialCount

IInv == CountTypeOK /\ Searching /\ CutsAreSafe /\ Summed

\* The numbers of the input.
LEMMA Constants == CountTypeOK => text \in Text /\ len \in Nat /\ cores \in Nat \ {0}
<1> SUFFICES ASSUME CountTypeOK PROVE text \in Text /\ len \in Nat /\ cores \in Nat \ {0}
  OBVIOUS
<1>1. text \in Text
  BY TextsAssumption DEF CountTypeOK, Text
<1> QED BY <1>1, ItsOwnRest, CoresAssumption DEF CountTypeOK, len

\* The invariant holds before count begins.
LEMMA InitInv == Init => IInv
<1> SUFFICES ASSUME Init PROVE IInv
  OBVIOUS
<1>1. text \in Text /\ len \in Nat
  BY TextsAssumption, ItsOwnRest DEF Init, Text, len
<1>2. CountTypeOK
  BY <1>1 DEF Init, CountTypeOK, Chunks
<1>3. Searching /\ CutsAreSafe /\ Summed
  BY DEF Init, Searching, CutsAreSafe, Summed
<1> QED
  BY <1>2, <1>3 DEF IInv

\* The counts depend on the text alone, which never changes.
LEMMA SameText ==
  UNCHANGED input =>
    /\ len' = len /\ text' = text
    /\ \A i : Cut(i)' <=> Cut(i)
    /\ \A a, b : EncodeLen(a, b)' = EncodeLen(a, b)
    /\ SerialCount' = SerialCount
    /\ Workers' = Workers
<1> SUFFICES ASSUME UNCHANGED input
             PROVE  /\ len' = len /\ text' = text
                    /\ \A i : Cut(i)' <=> Cut(i)
                    /\ \A a, b : EncodeLen(a, b)' = EncodeLen(a, b)
                    /\ SerialCount' = SerialCount
                    /\ Workers' = Workers
  OBVIOUS
<1>1. tokenizer' = tokenizer /\ text' = text /\ cores' = cores /\ len' = len
  BY DEF input, len
<1>2. \A i : Cut(i)' <=> Cut(i)
  BY <1>1 DEF Cut, Boundary
<1>3. \A a, b : EncodeLen(a, b)' = EncodeLen(a, b)
  <2>1. \A t : TokenStarts(t)' = TokenStarts(t)
    <3>1. \A t, i : MatchEnd(t, i)' = MatchEnd(t, i)
      BY <1>1 DEF MatchEnd, Word, Punctuation, PunctTail
    <3>2. \A t : PieceStarts(t)' = PieceStarts(t)
      BY <3>1 DEF PieceStarts
    <3>3. \A t, a : TokensAt(t, a)' = TokensAt(t, a)
      BY <3>1 DEF TokensAt, Piece
    <3> QED BY <3>2, <3>3 DEF TokenStarts
  <2> QED BY <1>1, <2>1 DEF EncodeLen
<1>4. SerialCount' = SerialCount
  BY <1>1, <1>3 DEF SerialCount
<1>5. Workers' = Workers
  BY <1>1 DEF Workers
<1> QED
  BY <1>1, <1>2, <1>3, <1>4, <1>5

\* A chunk lies inside the text and is not empty.
LEMMA ChunksInText ==
  ASSUME CountTypeOK, CutsAreSafe, points # <<>>, NEW k \in Chunks, Searching
  PROVE  /\ Start(k) \in Nat /\ End(k) \in 1..len /\ Start(k) < End(k)
         /\ k # 1 => Start(k) \in 1..(len - 1) /\ Cut(Start(k))
         /\ k <= Len(points) => Start(k + 1) = End(k)
<1>1. len \in Nat /\ points \in Seq(1..(len - 1)) /\ Len(points) \in Nat \ {0} /\ target \in Nat \ {0}
  BY Constants DEF CountTypeOK, Searching
<1>2. \A i \in 1..Len(points) : points[i] \in 1..(len - 1) /\ Cut(points[i])
  BY <1>1 DEF CutsAreSafe
<1>3. k \in 1..(Len(points) + 1)
  BY DEF Chunks
<1>4. k # 1 => Start(k) = points[k - 1] /\ k - 1 \in 1..Len(points)
  BY <1>1, <1>3 DEF Start
<1>5. k # Len(points) + 1 => End(k) = points[k] /\ k \in 1..Len(points)
  BY <1>1, <1>3 DEF End
<1>6. CASE k = 1
  BY <1>1, <1>2, <1>3, <1>5, <1>6 DEF Start, End
<1>7. CASE k # 1 /\ k = Len(points) + 1
  BY <1>1, <1>2, <1>3, <1>4, <1>7 DEF Start, End
<1>8. CASE k # 1 /\ k # Len(points) + 1
  <2>1. points[k] >= points[k - 1] + target
    <3>1. k - 1 \in 1..(Len(points) - 1) /\ (k - 1) + 1 = k
      BY <1>1, <1>3, <1>8
    <3> QED BY <3>1 DEF CutsAreSafe
  <2>2. Start(k + 1) = points[k]
    BY <1>3, <1>8 DEF Start
  <2> QED BY <1>1, <1>2, <1>4, <1>5, <1>8, <2>1, <2>2
<1> QED
  BY <1>6, <1>7, <1>8

\* One chunk more of at least t bytes.
LEMMA TimesStep ==
  ASSUME NEW n \in Nat, NEW t \in Nat
  PROVE  /\ (n + 1) * t \in Nat /\ (n + 1) * t >= t
         /\ (n + 2) * t = (n + 1) * t + t
<1>1. n * t \in Nat
  OBVIOUS
<1>2. (n + 1) * t = n * t + t /\ (n + 2) * t = n * t + t + t
  OBVIOUS
<1> QED
  BY <1>1, <1>2

\* The steps that leave the cuts alone keep them safe.
LEMMA CutsStay ==
  ASSUME CutsAreSafe, UNCHANGED <<input, target, points>>
  PROVE  CutsAreSafe'
BY SameText DEF CutsAreSafe

\* A step to pc' other than "split", with the same cuts, keeps Searching.
LEMMA SearchStays ==
  ASSUME Searching, UNCHANGED <<input, target, points>>, pc' \notin {"start", "split"}
  PROVE  Searching'
<1>1. len' = len /\ Workers' = Workers
  BY SameText DEF input
<1> QED
  BY <1>1 DEF Searching

\* Counting serially keeps the invariant.
LEMMA StepCountSerial == IInv /\ (CountSerial \/ NoPoints) => IInv'
<1> SUFFICES ASSUME IInv, CountSerial \/ NoPoints PROVE IInv'
  OBVIOUS
<1>1. /\ UNCHANGED <<input, target, cursor, points, threads>>
      /\ pc' \in {"done", "panicked"}
      /\ total' = SerialCount \/ (total' = total /\ pc' = "panicked")
  BY DEF CountSerial, NoPoints, Serially
<1>2. len' = len /\ text' = text /\ cores' = cores /\ tokenizer' = tokenizer
  BY <1>1, SameText DEF input
<1>3. SerialCount \in 0..len
  <2>1. len \in Nat /\ text \in Text /\ 0 \in Nat /\ 0 <= len /\ len <= len /\ len - 0 = len
    BY Constants DEF IInv
  <2> QED BY <2>1, EncodeLenType DEF SerialCount
<1>4. CountTypeOK'
  BY <1>1, <1>2, <1>3 DEF IInv, CountTypeOK, threads, Chunks
<1>5. Searching' /\ CutsAreSafe'
  BY <1>1, CutsStay, SearchStays DEF IInv
<1>6. Summed'
  BY <1>1, SameText DEF Summed
<1> QED
  BY <1>4, <1>5, <1>6 DEF IInv

\* So does the beginning of safe_split_points.
LEMMA StepStartSplit == IInv /\ StartSplit => IInv'
<1> SUFFICES ASSUME IInv, StartSplit PROVE IInv'
  OBVIOUS
<1> USE DEF IInv
<1>1. /\ len' = len /\ text' = text /\ cores' = cores /\ tokenizer' = tokenizer
      /\ UNCHANGED <<points, running, crashed, counts, joined, total>>
  BY DEF StartSplit, input, threads, len
<1>2. points = <<>> /\ Len(points) = 0
  BY DEF StartSplit, Searching
<1>3. len \in Nat /\ Workers \in Nat \ {0} /\ Workers >= 2
  BY Constants, WorkersBound DEF StartSplit
<1>4. target' \in 0..len /\ target' * Workers >= len /\ cursor' = target'
  BY <1>3, DivCeilCovers DEF StartSplit
<1>5. pc' \in {"chunks", "split"} /\ (pc' = "split" => target' # 0)
  BY DEF StartSplit
<1>6. CountTypeOK'
  BY <1>1, <1>4, <1>5 DEF CountTypeOK, Chunks
<1>7. Searching'
  <2>1. Workers' = Workers
    BY <1>1, SameText DEF input
  <2>2. PICK t \in Nat, w \in Nat :
          /\ target' = t /\ cursor' = t /\ Workers' = w /\ w >= 2 /\ len' <= t * w
    <3>1. target' \in Nat /\ Workers \in Nat /\ cursor' = target' /\ Workers >= 2
      BY <1>3, <1>4
    <3>2. PICK t \in Nat : t = target'
      BY <3>1
    <3>3. PICK w \in Nat : w = Workers
      BY <3>1
    <3>4. PICK l \in Nat : l = len
      BY <1>3
    <3>5. t * w >= l
      BY <1>4, <3>2, <3>3, <3>4
    <3>6. l <= t * w
      BY <3>5
    <3> QED BY <1>1, <2>1, <3>1, <3>2, <3>3, <3>4, <3>6
  <2>3. points' = <<>> /\ DOMAIN points' = {} /\ Len(points') = 0
    BY <1>1, <1>2
  <2>4. cursor' >= (Len(points') + 1) * target'
    BY <2>2, <2>3
  <2> QED BY <1>5, <2>2, <2>3, <2>4 DEF Searching
<1>8. CutsAreSafe'
  BY <1>1, <1>2 DEF CutsAreSafe
<1>9. Summed'
  BY <1>1, <1>5 DEF Summed, StartSplit
<1> QED
  BY <1>6, <1>7, <1>8, <1>9

\* So does a cut.
LEMMA StepTakePoint == IInv /\ TakePoint => IInv'
<1> SUFFICES ASSUME IInv, TakePoint PROVE IInv'
  OBVIOUS
<1> USE DEF IInv
<1>1. PICK p \in 1..(len - 1) :
        BoundaryAt(cursor, p) /\ points' = Append(points, p) /\ cursor' = p + target
  BY DEF TakePoint
<1>2. /\ len' = len /\ text' = text /\ cores' = cores /\ tokenizer' = tokenizer
      /\ UNCHANGED <<pc, target, running, crashed, counts, joined, total>>
  BY DEF TakePoint, input, threads, len
<1>3. /\ pc = "split" /\ len \in Nat /\ target \in Nat \ {0} /\ cursor \in Nat
      /\ points \in Seq(1..(len - 1))
  BY Constants DEF TakePoint, CountTypeOK, Searching
<1>20. PICK n \in Nat : n = Len(points) /\ DOMAIN points = 1..n
  BY <1>3
<1>21. PICK m \in Nat : m = (n + 1) * target /\ m >= target /\ (n + 2) * target = m + target
  BY <1>3, TimesStep
<1>4. p >= cursor /\ Cut(p) /\ cursor >= m
  BY <1>1, <1>3, <1>20, <1>21 DEF BoundaryAt, From, Larger, Searching
<1>5. /\ points' \in Seq(1..(len - 1)) /\ Len(points') = n + 1 /\ DOMAIN points' = 1..(n + 1)
      /\ \A i \in 1..n : points'[i] = points[i]
      /\ points'[n + 1] = p
  BY <1>1, <1>3, <1>20
<1>6. p >= m /\ cursor' >= m + target
  BY <1>1, <1>3, <1>4
<1>7. CountTypeOK'
  BY <1>1, <1>2, <1>3, <1>5 DEF CountTypeOK, Chunks
<1>8. Searching'
  <2>1. Workers' = Workers
    BY <1>2, SameText DEF input
  <2>2. \A i \in DOMAIN points' : points'[i] >= i * target
    <3>1. \A i \in 1..n : points[i] >= i * target
      BY <1>20 DEF Searching
    <3> QED BY <1>20, <1>21, <1>5, <1>6, <3>1
  <2>3. points' # <<>> /\ cursor' = points'[Len(points')] + target
    BY <1>1, <1>3, <1>5
  <2>4. cursor' >= (Len(points') + 1) * target
    BY <1>20, <1>21, <1>5, <1>6
  <2> QED BY <1>2, <1>3, <2>1, <2>2, <2>3, <2>4 DEF Searching
<1>9. CutsAreSafe'
  <2>1. \A i \in 1..(n + 1) : Cut(points'[i])
    <3>1. \A i \in 1..n : Cut(points[i])
      BY <1>20 DEF CutsAreSafe
    <3> QED BY <1>20, <1>4, <1>5, <3>1
  <2>2. p >= target /\ (n # 0 => p >= points[n] + target)
    <3>1. n # 0 => cursor = points[n] + target
      BY <1>3, <1>20 DEF Searching
    <3> QED BY <1>21, <1>3, <1>4, <1>6, <3>1
  <2>3. \A i \in 1..(n + 1) : points'[i] >= target
    <3>1. \A i \in 1..n : points[i] >= target
      BY <1>20 DEF CutsAreSafe
    <3> QED BY <1>20, <1>5, <2>2, <3>1
  <2>4. \A i \in 1..n : points'[i + 1] >= points'[i] + target
    <3>1. \A i \in 1..(n - 1) : points[i + 1] >= points[i] + target
      BY <1>20 DEF CutsAreSafe
    <3>2. ASSUME NEW i \in 1..n PROVE points'[i + 1] >= points'[i] + target
      <4>1. CASE i = n
        BY <1>20, <1>5, <2>2, <4>1
      <4>2. CASE i # n
        <5>1. i \in 1..(n - 1) /\ i + 1 \in 1..n
          BY <4>2
        <5> QED BY <1>5, <3>1, <5>1
      <4> QED BY <4>1, <4>2
    <3> QED BY <3>2
  <2>5. \A i : Cut(i)' <=> Cut(i)
    BY <1>2, SameText DEF input
  <2>6. 1..(Len(points') - 1) = 1..n
    BY <1>20, <1>5
  <2> QED BY <1>2, <1>5, <2>1, <2>3, <2>4, <2>5, <2>6 DEF CutsAreSafe
<1>10. Summed'
  BY <1>2, <1>3 DEF Summed
<1> QED
  BY <1>7, <1>8, <1>9, <1>10

\* So does the end of the search.
LEMMA StepEndSplit == IInv /\ EndSplit => IInv'
<1> SUFFICES ASSUME IInv, EndSplit PROVE IInv'
  OBVIOUS
<1> USE DEF IInv
<1>1. UNCHANGED <<input, target, cursor, points, threads, total>> /\ pc' = "chunks" /\ pc = "split"
  BY DEF EndSplit
<1>2. CountTypeOK'
  BY <1>1, SameText DEF CountTypeOK, Chunks, input, threads
<1>3. Searching' /\ CutsAreSafe'
  BY <1>1, SearchStays, CutsStay
<1>4. Summed'
  BY <1>1 DEF Summed, threads
<1> QED
  BY <1>2, <1>3, <1>4

\* The chunks are those of the text and the points.
LEMMA SameChunks ==
  UNCHANGED <<input, points>> =>
    /\ Chunks' = Chunks /\ (NoCutBeforeVTab' <=> NoCutBeforeVTab)
    /\ \A k : Start(k)' = Start(k) /\ End(k)' = End(k)
    /\ \A k : EncodeLen(Start(k), End(k))' = EncodeLen(Start(k), End(k))
    /\ \A k : EncodeLen(0, Start(k))' = EncodeLen(0, Start(k))
<1> SUFFICES ASSUME UNCHANGED <<input, points>>
             PROVE  /\ Chunks' = Chunks /\ (NoCutBeforeVTab' <=> NoCutBeforeVTab)
                    /\ \A k : Start(k)' = Start(k) /\ End(k)' = End(k)
                    /\ \A k : EncodeLen(Start(k), End(k))' = EncodeLen(Start(k), End(k))
                    /\ \A k : EncodeLen(0, Start(k))' = EncodeLen(0, Start(k))
  OBVIOUS
<1>1. Chunks' = Chunks /\ (NoCutBeforeVTab' <=> NoCutBeforeVTab)
  BY SameText DEF Chunks, NoCutBeforeVTab
<1>2. \A k : Start(k)' = Start(k) /\ End(k)' = End(k)
  BY SameText DEF Start, End
<1>3. \A a, b : EncodeLen(a, b)' = EncodeLen(a, b)
  BY SameText
<1> QED BY <1>1, <1>2, <1>3

\* So does starting the threads.
LEMMA StepSpawn == IInv /\ Spawn => IInv'
<1> SUFFICES ASSUME IInv, Spawn PROVE IInv'
  OBVIOUS
<1> USE DEF IInv
<1>1. /\ UNCHANGED <<input, target, cursor, points, crashed, joined, total>> /\ pc' = "join" /\ pc = "chunks"
      /\ running' = Chunks /\ counts' = [k \in Chunks |-> 0] /\ points # <<>>
  BY DEF Spawn
<1>2. total = 0 /\ joined = 0 /\ crashed = {} /\ points \in Seq(1..(len - 1)) /\ text \in Text
  BY <1>1, Constants DEF Summed, CountTypeOK
<1>3. CountTypeOK'
  BY <1>1, <1>2, SameText, SameChunks, Constants DEF CountTypeOK, input
<1>4. Searching' /\ CutsAreSafe'
  BY <1>1, SearchStays, CutsStay
<1>5. Start(joined + 1) = 0 /\ EncodeLen(0, Start(joined + 1)) = 0
  BY <1>2, EncodeNothing DEF Start
<1>6. Start(joined + 1)' = 0 /\ EncodeLen(0, Start(joined + 1))' = 0
  <2>1. (joined + 1)' = joined + 1
    BY <1>1
  <2> QED BY <1>1, <1>5, <2>1, SameChunks
<1>7. Summed'
  BY <1>1, <1>2, <1>6, SameChunks DEF Summed
<1> QED
  BY <1>3, <1>4, <1>7

\* So does a thread that ends, in whichever way.
LEMMA StepEncode == ASSUME NEW k PROVE IInv /\ Encode(k) => IInv'
<1> SUFFICES ASSUME IInv, Encode(k) PROVE IInv'
  OBVIOUS
<1> USE DEF IInv
<1>1. /\ UNCHANGED <<input, pc, target, cursor, points, joined, total>> /\ pc \in {"join", "unwind"}
      /\ k \in running /\ running' = running \ {k}
      /\ \/ counts' = [counts EXCEPT ![k] = EncodeLen(Start(k), End(k))] /\ crashed' = crashed
         \/ counts' = counts /\ crashed' = crashed \cup {k}
  BY DEF Encode
<1>2. k \in Chunks /\ points # <<>> /\ counts \in [Chunks -> 0..len]
  BY <1>1 DEF CountTypeOK, Summed
<1>3. EncodeLen(Start(k), End(k)) \in 0..len
  <2>1. PICK a, b : a = Start(k) /\ b = End(k)
    OBVIOUS
  <2>2. a \in Nat /\ b \in 1..len /\ a < b /\ text \in Text /\ len \in Nat
    BY <1>2, <2>1, ChunksInText, Constants
  <2>3. b \in Nat /\ a <= b /\ b <= len
    BY <2>2
  <2>4. EncodeLen(a, b) \in 0..(b - a)
    BY <2>2, <2>3, EncodeLenType
  <2> QED BY <2>1, <2>2, <2>4
<1>4. CountTypeOK'
  BY <1>1, <1>2, <1>3, SameText, SameChunks DEF CountTypeOK, input
<1>5. Searching' /\ CutsAreSafe'
  BY <1>1, SearchStays, CutsStay
<1>6. Summed'
  <2>1. \A j \in Chunks \ (running' \cup crashed') : counts'[j] = EncodeLen(Start(j), End(j))
    BY <1>1, <1>2 DEF Summed
  <2>2. /\ Start(joined + 1)' = Start(joined + 1)
        /\ EncodeLen(0, Start(joined + 1))' = EncodeLen(0, Start(joined + 1))
    <3>1. (joined + 1)' = joined + 1
      BY <1>1
    <3> QED BY <1>1, <3>1, SameChunks
  <2>3. \A j \in Chunks' \ (running' \cup crashed') : counts'[j] = EncodeLen(Start(j), End(j))'
    BY <1>1, <2>1, SameChunks
  <2> QED BY <1>1, <2>2, <2>3, SameChunks DEF Summed
<1> QED
  BY <1>4, <1>5, <1>6

\* So does joining a thread.
LEMMA StepJoin == IInv /\ Join => IInv'
<1> SUFFICES ASSUME IInv, Join PROVE IInv'
  OBVIOUS
<1> USE DEF IInv
<1>1. PICK k : k = joined + 1
  OBVIOUS
<1>2. /\ UNCHANGED <<input, target, cursor, points, running, crashed, counts>> /\ pc = "join"
      /\ k \notin running \cup crashed /\ joined' = k /\ total' = total + counts[k]
      /\ pc' = IF k = Len(points) + 1 THEN "done" ELSE "join"
  BY <1>1 DEF Join
<1>3. /\ points # <<>> /\ joined \in Nat /\ joined <= Len(points) /\ Len(points) \in Nat
      /\ k \in Chunks /\ total \in Nat /\ text \in Text /\ len \in Nat
  BY <1>1, <1>2, Constants DEF CountTypeOK, Summed, Chunks
<1>4. PICK a, b : a = Start(k) /\ b = End(k)
  OBVIOUS
<1>5. counts[k] = EncodeLen(a, b) /\ total <= a /\ (NoCutBeforeVTab => total = EncodeLen(0, a))
  BY <1>1, <1>2, <1>3, <1>4 DEF Summed
<1>6. /\ a \in Nat /\ b \in 1..len /\ a < b
      /\ k # 1 => a \in 1..(len - 1) /\ Cut(a)
      /\ k <= Len(points) => Start(k + 1) = b
  BY <1>3, <1>4, ChunksInText
<1>7. b \in Nat /\ a <= b /\ b <= len
  BY <1>3, <1>6
<1>8. EncodeLen(a, b) \in 0..(b - a)
  BY <1>3, <1>6, <1>7, EncodeLenType
<1>9. total' \in 0..b
  BY <1>2, <1>3, <1>5, <1>6, <1>7, <1>8
<1>10. NoCutBeforeVTab => total' = EncodeLen(0, b)
  <2> SUFFICES ASSUME NoCutBeforeVTab PROVE total' = EncodeLen(0, b)
    OBVIOUS
  <2>1. CASE k = 1
    <3>1. a = 0
      BY <1>4, <2>1 DEF Start
    <3>2. total = 0
      BY <1>3, <1>5, <3>1, EncodeNothing
    <3> QED BY <1>2, <1>5, <1>8, <3>1, <3>2, <1>6
  <2>2. CASE k # 1
    <3>1. a = points[k - 1] /\ k - 1 \in DOMAIN points
      <4>1. points \in Seq(1..(len - 1)) /\ k \in 1..(Len(points) + 1)
        BY <1>3 DEF CountTypeOK, Chunks
      <4> QED BY <1>3, <1>4, <2>2, <4>1 DEF Start
    <3>2. text[a + 1] # VTab
      BY <3>1 DEF NoCutBeforeVTab
    <3>3. EncodeLen(0, b) = EncodeLen(0, a) + EncodeLen(a, b)
      BY <1>3, <1>6, <1>7, <2>2, <3>2, EncodeLenSplits
    <3> QED BY <1>2, <1>5, <3>3
  <2> QED BY <2>1, <2>2
<1>11. CountTypeOK'
  <2>1. total' \in 0..len /\ joined' \in 0..(Len(points) + 1)
    BY <1>1, <1>2, <1>3, <1>7, <1>9
  <2> QED BY <1>2, <2>1, SameText, SameChunks DEF CountTypeOK, input
<1>12. Searching' /\ CutsAreSafe'
  BY <1>2, SearchStays, CutsStay
<1>13. Summed'
  <2>1. CASE k = Len(points) + 1
    <3>1. b = len
      BY <1>4, <2>1 DEF End
    <3> QED BY <1>2, <1>10, <2>1, <3>1, SameText, SameChunks DEF Summed, SerialCount
  <2>2. CASE k # Len(points) + 1
    <3>1. k <= Len(points) /\ pc' = "join"
      BY <1>1, <1>2, <1>3, <2>2
    <3>2. (joined + 1)' = k + 1 /\ Start(k + 1) = b
      BY <1>2, <1>6, <3>1
    <3>3. Start(joined + 1)' = b /\ EncodeLen(0, Start(joined + 1))' = EncodeLen(0, b)
      BY <1>2, <3>2, SameChunks
    <3>4. \A j \in Chunks' \ (running' \cup crashed') : counts'[j] = EncodeLen(Start(j), End(j))'
      BY <1>2, SameChunks DEF Summed
    <3>5. total' <= b
      BY <1>7, <1>9
    <3> QED BY <1>2, <1>10, <3>1, <3>3, <3>4, <3>5, SameChunks DEF Summed
  <2> QED BY <2>1, <2>2
<1> QED
  BY <1>11, <1>12, <1>13

\* So does a panic.
LEMMA StepPanic == IInv /\ (JoinCrashed \/ Unwind) => IInv'
<1> SUFFICES ASSUME IInv, JoinCrashed \/ Unwind PROVE IInv'
  OBVIOUS
<1> USE DEF IInv
<1>1. /\ UNCHANGED <<input, target, cursor, points, running, crashed, counts, joined, total>>
      /\ pc' = "panicked" \/ (pc = "join" /\ pc' = "unwind")
  BY DEF JoinCrashed, Unwind, threads
<1>2. CountTypeOK'
  BY <1>1, SameText, SameChunks DEF CountTypeOK, input
<1>3. Searching' /\ CutsAreSafe'
  BY <1>1, SearchStays, CutsStay
<1>4. Summed'
  <2>1. (joined + 1)' = joined + 1
    BY <1>1
  <2>2. /\ Start(joined + 1)' = Start(joined + 1)
        /\ EncodeLen(0, Start(joined + 1))' = EncodeLen(0, Start(joined + 1))
    BY <1>1, <2>1, SameChunks
  <2> QED BY <1>1, <2>2, SameChunks DEF Summed
<1> QED
  BY <1>2, <1>3, <1>4

\* So does every step.
LEMMA StepInv == IInv /\ [Next]_vars => IInv'
<1> SUFFICES ASSUME IInv, [Next]_vars PROVE IInv'
  OBVIOUS
<1>1. CASE UNCHANGED vars
  <2>1. UNCHANGED <<input, pc, target, cursor, points, running, crashed, counts, joined, total>>
    BY <1>1 DEF vars, threads
  <2>2. CountTypeOK'
    BY <2>1, SameText, SameChunks DEF IInv, CountTypeOK, input
  <2>3. Searching' /\ CutsAreSafe'
    BY <2>1, SameText DEF IInv, Searching, CutsAreSafe
  <2>4. (joined + 1)' = joined + 1
    BY <2>1
  <2>5. /\ Start(joined + 1)' = Start(joined + 1)
        /\ EncodeLen(0, Start(joined + 1))' = EncodeLen(0, Start(joined + 1))
    BY <2>1, <2>4, SameChunks
  <2>6. Summed'
    BY <2>1, <2>5, SameText, SameChunks DEF IInv, Summed
  <2> QED BY <2>2, <2>3, <2>6 DEF IInv
<1>2. CASE Next
  BY <1>2, StepCountSerial, StepStartSplit, StepTakePoint, StepEndSplit, StepSpawn,
     StepEncode, StepJoin, StepPanic DEF Next, Count
<1> QED
  BY <1>1, <1>2

\* The invariant holds in every reachable state.
LEMMA Invariance == Spec => []IInv
<1>1. Init => IInv
  BY InitInv
<1>2. IInv /\ [Next]_vars => IInv'
  BY StepInv
<1> QED
  BY <1>1, <1>2, PTL DEF Spec

-----------------------------------------------------------------------------

\* The type invariant, for texts of any length.
THEOREM TypeCorrect == Spec => []CountTypeOK
<1>1. IInv => CountTypeOK
  BY DEF IInv
<1> QED
  BY <1>1, Invariance, PTL

\* safe_split_points cuts at boundaries only, a whole chunk apart.
THEOREM CutsAreAtBoundaries == Spec => []CutsAreSafe
<1>1. IInv => CutsAreSafe
  BY DEF IInv
<1> QED
  BY <1>1, Invariance, PTL

\* However the threads are scheduled, and whatever tokens the vocabulary makes
\* of a piece, count answers what count_serial answers, unless a cut is before a
\* vertical tab.
THEOREM ParallelCountIsExact == Spec => []CountIsExact
<1>1. IInv => CountIsExact
  BY DEF IInv, Summed, CountIsExact
<1> QED
  BY <1>1, Invariance, PTL

\* A cut the rule allows, except before a vertical tab, keeps the pieces of the
\* text whatever its length and whichever the vocabulary: no match that begins
\* before the cut goes beyond it (MatchBefore), and what follows is matched as
\* it would be alone (MatchAfter).
THEOREM CutsAreSound == Spec => []CutKeepsPieces
<1>1. IInv => CutKeepsPieces
  <2> SUFFICES ASSUME IInv, NEW i \in 2..Len(text), Boundary(text, i), text[i] # VTab
               PROVE  PieceStarts(text) =
                        PieceStarts(SubSeq(text, 1, i - 1))
                          \cup {i - 1 + j : j \in PieceStarts(SubSeq(text, i, Len(text)))}
    BY DEF CutKeepsPieces
  <2>1. text \in Text
    BY Constants DEF IInv
  <2> QED BY <2>1, CutIsSound
<1> QED
  BY <1>1, Invariance, PTL

\* count never runs more threads than it computed workers.
THEOREM NoMoreThreadsThanWorkers == Spec => []ThreadsAreBounded
<1>1. ASSUME IInv PROVE ThreadsAreBounded
  <2> SUFFICES ASSUME Len(points) # 0 PROVE
        /\ Len(points) + 1 <= cores /\ Len(points) + 1 <= MAX_WORKERS
        /\ (Len(points) + 1) * MIN_CHUNK <= len
    BY DEF ThreadsAreBounded
  <2>1. len \in Nat /\ cores \in Nat \ {0} /\ points \in Seq(1..(len - 1)) /\ target \in Nat
    BY <1>1, Constants DEF IInv, CountTypeOK
  <2>2. PICK n \in Nat \ {0} : n = Len(points) /\ n \in DOMAIN points
    BY <2>1
  <2>3. points # <<>>
    BY <2>1, <2>2
  <2>4. points[n] >= n * target /\ points[n] <= len - 1
    BY <1>1, <2>1, <2>2 DEF IInv, Searching
  <2>5. Workers >= 2 /\ len <= target * Workers
    BY <1>1, <2>3 DEF IInv, Searching
  <2>6. PICK w \in Nat \ {0} :
          /\ w = Workers /\ w <= cores /\ w <= MAX_WORKERS /\ w * MIN_CHUNK <= len
    BY <2>1, <2>5, WorkersBound
  <2>7. n + 1 <= w
    <3>1. n * target < target * w
      <4>1. PICK a \in Nat, b \in Nat : a = n * target /\ b = target * w
        BY <2>1, <2>2, <2>6
      <4>2. a <= points[n] /\ points[n] \in Nat
        BY <2>1, <2>2, <2>4, <4>1
      <4>3. len <= b
        BY <2>5, <2>6, <4>1
      <4>4. a < b
        BY <2>1, <2>4, <4>2, <4>3
      <4> QED BY <4>1, <4>4
    <3>2. ASSUME n >= w PROVE n * target >= target * w
      BY <2>1, <3>2
    <3> QED BY <2>1, <3>1, <3>2
  <2>8. (n + 1) * MIN_CHUNK <= w * MIN_CHUNK
    BY <2>7, LimitsAssumption
  <2>9. (n + 1) * MIN_CHUNK \in Nat /\ w * MIN_CHUNK \in Nat
    BY LimitsAssumption
  <2> QED BY <2>1, <2>2, <2>6, <2>7, <2>8, <2>9, LimitsAssumption
<1> QED
  BY <1>1, Invariance, PTL
=============================================================================
