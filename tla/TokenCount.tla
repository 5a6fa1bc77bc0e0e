----------------------------- MODULE TokenCount -----------------------------
(***************************************************************************)
(* Parallel token counting, crates/ctx-core/src/tokens.rs: count,          *)
(* safe_split_points, next_boundary_at_or_after, count_serial.             *)
(*                                                                         *)
(* A large text is cut at offsets where no token can span the cut, a       *)
(* thread counts each chunk, and the counts are added up.  The tokens are  *)
(* those of Pretokenizer: the rule of the cuts and the expressions that    *)
(* make the pieces are separate definitions, and that they agree is what   *)
(* CountIsExact says.                                                      *)
(*                                                                         *)
(* Data abstraction.  A character is one byte long: the bytes of a longer  *)
(* one are no newline, and none of them is cut before.  Offsets count from *)
(* 0 as in the code, text from 1: text[i] is the byte before offset i.     *)
(***************************************************************************)
EXTENDS Pretokenizer

CONSTANTS
  Texts,               \* the texts that are counted
  Cores,               \* what available_parallelism may answer
  PARALLEL_THRESHOLD, MIN_CHUNK, MAX_WORKERS

ASSUME TextsAssumption == Texts \subseteq Seq(Chars)
ASSUME CoresAssumption == Cores \subseteq Nat \ {0}
ASSUME LimitsAssumption ==
  /\ PARALLEL_THRESHOLD \in Nat /\ MIN_CHUNK \in Nat \ {0} /\ MAX_WORKERS \in Nat \ {0}

VARIABLES
  cores,   \* available_parallelism
  pc,      \* where count is
  target,  \* target_chunk
  cursor,  \* the loop variable of safe_split_points
  points,  \* the offsets found so far
  running, \* the chunks whose threads are still counting
  crashed, \* the chunks whose threads have panicked
  counts,  \* counts[k]: what the thread on chunk k has counted
  joined,  \* how many threads have been joined: 1 to joined
  total    \* the sum of the counts of the threads joined so far

input == <<tokenizer, text, cores>>
threads == <<running, crashed, counts, joined>>
vars  == <<input, pc, target, cursor, points, threads, total>>

-----------------------------------------------------------------------------

\* text.len()
len == Len(text)

\* The test in next_boundary_at_or_after.
Cut(i) == Boundary(text, i + 1)

\* encode_len(text[from..to]): the chunk is tokenized as a text of its own.
EncodeLen(from, to) == Cardinality(TokenStarts(SubSeq(text, from + 1, to)))

SerialCount == EncodeLen(0, len)

Smaller(a, b) == IF a <= b THEN a ELSE b
Larger(a, b)  == IF a >= b THEN a ELSE b

-----------------------------------------------------------------------------

Init ==
  /\ tokenizer \in Tokenizers /\ text \in Texts /\ cores \in Cores
  /\ pc = "start" /\ target = 0 /\ cursor = 0 /\ points = <<>>
  /\ running = {} /\ crashed = {} /\ counts = <<>> /\ joined = 0 /\ total = 0

Workers ==
  Larger(1, Smaller(len \div MIN_CHUNK, Smaller(MAX_WORKERS, cores)))

\* text.len().div_ceil(workers)
DivCeil(a, b) == (a + b - 1) \div b

\* count_serial, on the calling thread.  The regular expression engine may give
\* up on a text, and encode_ordinary unwraps its answer.
Serially ==
  \/ pc' = "done" /\ total' = SerialCount
  \/ pc' = "panicked" /\ UNCHANGED total

\* Too little text, or a single worker.
CountSerial ==
  /\ pc = "start" /\ (len <= PARALLEL_THRESHOLD \/ Workers < 2)
  /\ Serially
  /\ UNCHANGED <<input, target, cursor, points, threads>>

\* safe_split_points begins.
StartSplit ==
  /\ pc = "start" /\ len > PARALLEL_THRESHOLD /\ Workers >= 2
  /\ LET t == DivCeil(len, Workers) IN
     /\ target' = t /\ cursor' = t
     /\ pc' = IF t = 0 \/ len <= t THEN "chunks" ELSE "split"
  /\ UNCHANGED <<input, points, threads, total>>

\* next_boundary_at_or_after(bytes, from) answers i, or None.
From(from)         == Larger(from, 1)
BoundaryAt(from, i) ==
  /\ i >= From(from) /\ Cut(i)
  /\ \A j \in From(from)..(i - 1) : ~Cut(j)
NoBoundary(from)   == \A i \in From(from)..(len - 1) : ~Cut(i)

\* Fault variants for the checks: any byte after a newline; the cursor itself;
\* the next chunk starts from the old cursor.
TakePointAnyByte ==
  /\ pc = "split" /\ cursor < len
  /\ \E i \in 1..(len - 1) :
       /\ i >= From(cursor) /\ text[i] = NL
       /\ \A j \in From(cursor)..(i - 1) : text[j] # NL
       /\ points' = Append(points, i) /\ cursor' = i + target
  /\ UNCHANGED <<input, pc, target, threads, total>>

TakePointOverlap ==
  /\ pc = "split" /\ cursor < len
  /\ \E i \in 1..(len - 1) :
       /\ BoundaryAt(cursor, i)
       /\ points' = Append(points, i) /\ cursor' = cursor + target
  /\ UNCHANGED <<input, pc, target, threads, total>>

TakePointNext ==
  /\ pc = "split" /\ cursor < len
  /\ \E i \in 1..(len - 1) :
       /\ BoundaryAt(cursor, i)
       /\ points' = Append(points, i) /\ cursor' = i + 1
  /\ UNCHANGED <<input, pc, target, threads, total>>

\* Fault variant: a text that ends in a newline is cut at its end.
TakePointEnd ==
  /\ pc = "split" /\ cursor < len
  /\ \E i \in 1..len :
       /\ i >= From(cursor) /\ text[i] = NL /\ (i < len => Cut(i))
       /\ \A j \in From(cursor)..(i - 1) : ~Cut(j)
       /\ points' = Append(points, i) /\ cursor' = i + target
  /\ UNCHANGED <<input, pc, target, threads, total>>

\* Fault variant: the search never moves on.
TakePointStays ==
  /\ pc = "split" /\ cursor < len
  /\ \E i \in 1..(len - 1) :
       /\ BoundaryAt(cursor, i)
       /\ points' = points /\ cursor' = cursor
  /\ UNCHANGED <<input, pc, target, threads, total>>

\* Some(p): the next search starts a whole chunk behind p.
TakePoint ==
  /\ pc = "split" /\ cursor < len
  /\ \E i \in 1..(len - 1) :
       /\ BoundaryAt(cursor, i)
       /\ points' = Append(points, i) /\ cursor' = i + target
  /\ UNCHANGED <<input, pc, target, threads, total>>

\* None, or the cursor is past the end.
EndSplit ==
  /\ pc = "split" /\ (cursor >= len \/ NoBoundary(cursor))
  /\ pc' = "chunks"
  /\ UNCHANGED <<input, target, cursor, points, threads, total>>

\* No safe boundary anywhere: serial after all.
NoPoints ==
  /\ pc = "chunks" /\ points = <<>>
  /\ Serially
  /\ UNCHANGED <<input, target, cursor, points, threads>>

Chunks   == 1..(Len(points) + 1)
Start(k) == IF k = 1 THEN 0 ELSE points[k - 1]
End(k)   == IF k = Len(points) + 1 THEN len ELSE points[k]

Spawn ==
  /\ pc = "chunks" /\ points # <<>>
  /\ pc' = "join" /\ running' = Chunks /\ counts' = [k \in Chunks |-> 0]
  /\ UNCHANGED <<input, target, cursor, points, crashed, joined, total>>

\* A thread counts its chunk, or panics.
Encode(k) ==
  /\ pc \in {"join", "unwind"} /\ k \in running
  /\ running' = running \ {k}
  /\ \/ /\ counts' = [counts EXCEPT ![k] = EncodeLen(Start(k), End(k))]
        /\ UNCHANGED crashed
     \/ crashed' = crashed \cup {k} /\ UNCHANGED counts
  /\ UNCHANGED <<input, pc, target, cursor, points, joined, total>>

\* The threads are joined in the order of their chunks, each when it is done.
Join ==
  /\ pc = "join" /\ joined + 1 \notin running \cup crashed
  /\ joined' = joined + 1
  /\ total' = total + counts[joined + 1]
  /\ pc' = IF joined' = Len(points) + 1 THEN "done" ELSE "join"
  /\ UNCHANGED <<input, target, cursor, points, running, crashed, counts>>

\* "token counting worker panicked": the scope waits for the other threads ...
JoinCrashed ==
  /\ pc = "join" /\ joined + 1 \in crashed
  /\ pc' = "unwind"
  /\ UNCHANGED <<input, target, cursor, points, threads, total>>

\* ... and panics.
Unwind ==
  /\ pc = "unwind" /\ running = {}
  /\ pc' = "panicked"
  /\ UNCHANGED <<input, target, cursor, points, threads, total>>

Count ==
  \/ CountSerial \/ StartSplit \/ TakePoint \/ EndSplit \/ NoPoints
  \/ Spawn \/ Join \/ JoinCrashed \/ Unwind

Next == Count \/ \E k \in 1..MAX_WORKERS : Encode(k)

Spec == Init /\ [][Next]_vars

\* Each thread is run, and the calling thread too.
FairSpec ==
  Spec /\ WF_vars(Count) /\ \A k \in 1..MAX_WORKERS : WF_vars(Encode(k))

-----------------------------------------------------------------------------

\* Types of count's locals: a cut is inside the text, never at either end.
CountTypeOK ==
  /\ tokenizer \in Tokenizers /\ text \in Texts /\ cores \in Cores
  /\ pc \in {"start", "split", "chunks", "join", "unwind", "done", "panicked"}
  /\ target \in 0..len /\ cursor \in Nat /\ total \in 0..len
  /\ points \in Seq(1..(len - 1))
  /\ running \subseteq Chunks /\ crashed \subseteq Chunks \ running
  /\ joined \in 0..(Len(points) + 1)
  /\ pc \in {"join", "unwind"} => counts \in [Chunks -> 0..len]

NoCutBeforeVTab == \A i \in DOMAIN points : text[points[i] + 1] # VTab

\* "the result is bit-identical to count_serial" (tokens.rs:115), however the
\* threads are scheduled, and whatever tokens the vocabulary makes of a piece;
\* unless a cut is before a vertical tab, which is_ascii_whitespace leaves out
\* and \s contains: "newline, vertical tab, newline" is one piece, cut in two.
CountIsExact == pc = "done" /\ NoCutBeforeVTab => total = SerialCount

\* Every cut is at a boundary, a whole chunk behind the one before: no chunk
\* but the last is shorter than the target, and none is empty.
CutsAreSafe ==
  /\ \A i \in DOMAIN points : Cut(points[i])
  /\ \A i \in DOMAIN points : points[i] >= target
  /\ \A i \in 1..(Len(points) - 1) : points[i + 1] >= points[i] + target

\* "so counting a large log cannot monopolise a big machine" (tokens.rs:70): no
\* more threads than cores, than MAX_WORKERS, and than the chunks of MIN_CHUNK.
ThreadsAreBounded ==
  Len(points) # 0 =>
    /\ Len(points) + 1 <= cores
    /\ Len(points) + 1 <= MAX_WORKERS
    /\ (Len(points) + 1) * MIN_CHUNK <= len

\* count answers, or panics as the tokenizer did.
CountEnds == <>(pc \in {"done", "panicked"})
=============================================================================
