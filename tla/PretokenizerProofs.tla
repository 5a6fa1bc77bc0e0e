------------------------- MODULE PretokenizerProofs -------------------------
(***************************************************************************)
(* That a cut changes no piece of a text, for texts of every length and    *)
(* both vocabularies.  A match that begins before the cut ends at the cut  *)
(* at the latest and is a match of the first half; one that begins later   *)
(* is a match of the second half; and the pieces are where matches end.    *)
(***************************************************************************)
EXTENDS Pretokenizer, SequenceTheorems, FiniteSetTheorems, WellFoundedInduction, TLAPS

-----------------------------------------------------------------------------
(* Texts.                                                                    *)

\* The texts, of every length.
Text == Seq(Chars)

\* A set of numbers has a least one.
LEMMA LeastNat ==
  ASSUME NEW T \in SUBSET Nat, T # {}
  PROVE  \E x \in T : \A y \in T : x <= y
<1>1. PICK x \in T : \A y \in T : ~(<<y, x>> \in OpToRel(<, Nat))
  BY NatLessThanWellFounded, WFMin
<1>2. \A y \in T : ~(y < x)
  BY <1>1 DEF OpToRel
<1> QED BY <1>2

-----------------------------------------------------------------------------
(* Runs.                                                                     *)

\* From i on t has members of C, and at j no more.
IsRun(t, i, C, j) ==
  /\ j \in i..(Len(t) + 1)
  /\ \A k \in i..(j - 1) : t[k] \in C
  /\ j = Len(t) + 1 \/ t[j] \notin C

\* There is one run at most.
LEMMA RunUnique ==
  ASSUME NEW t \in Text, NEW i \in 1..(Len(t) + 1), NEW C, NEW j, NEW k,
         IsRun(t, i, C, j), IsRun(t, i, C, k)
  PROVE  j = k
<1>1. Len(t) \in Nat /\ i \in Nat
  BY DEF Text
<1>2. j \in i..(Len(t) + 1) /\ k \in i..(Len(t) + 1) /\ j \in Nat /\ k \in Nat
  BY <1>1 DEF IsRun
<1>3. ASSUME j < k PROVE FALSE
  <2>1. j \in i..(k - 1) /\ j # Len(t) + 1
    BY <1>1, <1>2, <1>3
  <2> QED BY <2>1 DEF IsRun
<1>4. ASSUME k < j PROVE FALSE
  <2>1. k \in i..(j - 1) /\ k # Len(t) + 1
    BY <1>1, <1>2, <1>4
  <2> QED BY <2>1 DEF IsRun
<1> QED BY <1>2, <1>3, <1>4

\* RunEnd answers with a run: the first place where one can stop ends it.
LEMMA RunIs ==
  ASSUME NEW t \in Text, NEW i \in 1..(Len(t) + 1), NEW C
  PROVE  IsRun(t, i, C, RunEnd(t, i, C))
<1>1. Len(t) \in Nat /\ i \in Nat /\ i <= Len(t) + 1
  BY DEF Text
<1> DEFINE Stops == {j \in i..(Len(t) + 1) : j = Len(t) + 1 \/ t[j] \notin C}
<1>2. Stops \in SUBSET Nat /\ Stops # {}
  <2>1. Len(t) + 1 \in Stops
    BY <1>1
  <2> QED BY <1>1, <2>1
<1>3. PICK j \in Stops : \A k \in Stops : j <= k
  <2> HIDE DEF Stops
  <2> QED BY <1>2, LeastNat
<1>4. \A k \in i..(j - 1) : t[k] \in C
  <2> SUFFICES ASSUME NEW k \in i..(j - 1), t[k] \notin C PROVE FALSE
    OBVIOUS
  <2>1. j \in i..(Len(t) + 1)
    BY <1>3
  <2>2. k \in i..(Len(t) + 1) /\ ~(j <= k)
    BY <1>1, <2>1
  <2>3. k \in Stops
    BY <2>2
  <2> QED BY <1>3, <2>2, <2>3
<1>5. IsRun(t, i, C, j)
  BY <1>3, <1>4 DEF IsRun
<1>6. /\ j \in i..(Len(t) + 1)
      /\ \A k \in i..(j - 1) : t[k] \in C
      /\ j = Len(t) + 1 \/ t[j] \notin C
  BY <1>5 DEF IsRun
<1>7. RunEnd(t, i, C) = CHOOSE e \in i..(Len(t) + 1) : IsRun(t, i, C, e)
  <2>1. \A e \in i..(Len(t) + 1) : IsRun(t, i, C, e) <=>
          (\A k \in i..(e - 1) : t[k] \in C) /\ (e = Len(t) + 1 \/ t[e] \notin C)
    BY DEF IsRun
  <2> QED BY <2>1 DEF RunEnd
<1> HIDE DEF Stops
<1> QED BY <1>5, <1>6, <1>7

\* What is a run is the run.
LEMMA RunOf ==
  ASSUME NEW t \in Text, NEW i \in 1..(Len(t) + 1), NEW C, NEW j, IsRun(t, i, C, j)
  PROVE  RunEnd(t, i, C) = j
BY RunIs, RunUnique

-----------------------------------------------------------------------------
(* The two halves.                                                           *)

\* u is t up to the cut in front of i.
Before(t, u, i) ==
  /\ i \in 2..Len(t) /\ u \in Text /\ Len(u) = i - 1
  /\ \A k \in 1..(i - 1) : u[k] = t[k]
  /\ t[i - 1] = NL /\ t[i] \notin Space \cup {"/"}

\* w is t from d + 1 on.
After(t, w, d) ==
  /\ d \in Nat /\ w \in Text /\ Len(t) = d + Len(w)
  /\ \A k \in 1..Len(w) : t[d + k] = w[k]

\* A run stops where t has no member of C; if that is at the cut or before it,
\* the first half has the same run.
LEMMA RunBefore ==
  ASSUME NEW t \in Text, NEW u, NEW i, Before(t, u, i), NEW C,
         NEW k \in 1..i, NEW m \in k..i, t[m] \notin C
  PROVE  /\ RunEnd(u, k, C) = RunEnd(t, k, C)
         /\ RunEnd(t, k, C) \in k..m
<1>1. Len(t) \in Nat /\ i \in 2..Len(t) /\ u \in Text /\ Len(u) = i - 1
  BY DEF Before, Text
<1>2. k \in 1..(Len(t) + 1) /\ k \in 1..(Len(u) + 1) /\ k \in Nat /\ m \in Nat /\ k <= m /\ m <= i
  BY <1>1
<1>3. PICK r : r = RunEnd(t, k, C) /\ IsRun(t, k, C, r)
  BY <1>2, RunIs
<1>4. r \in k..(Len(t) + 1)
  BY <1>3 DEF IsRun
<1>5. r <= m
  <2> SUFFICES ASSUME m < r PROVE FALSE
    BY <1>2, <1>4
  <2>1. m \in k..(r - 1)
    BY <1>2, <1>4
  <2> QED BY <1>3, <2>1 DEF IsRun
<1>6. IsRun(u, k, C, r)
  <2>1. r \in k..(Len(u) + 1)
    BY <1>1, <1>2, <1>4, <1>5
  <2>2. ASSUME NEW j \in k..(r - 1) PROVE u[j] \in C
    <3>1. j \in 1..(i - 1)
      BY <1>1, <1>2, <1>4, <1>5
    <3> QED BY <1>3, <3>1 DEF IsRun, Before
  <2>3. r = Len(u) + 1 \/ u[r] \notin C
    <3> SUFFICES ASSUME r # Len(u) + 1 PROVE u[r] \notin C
      OBVIOUS
    <3>1. r \in 1..(i - 1) /\ r # Len(t) + 1
      BY <1>1, <1>2, <2>1
    <3> QED BY <1>3, <3>1 DEF IsRun, Before
  <2> QED BY <2>1, <2>2, <2>3 DEF IsRun
<1>7. RunEnd(u, k, C) = r
  BY <1>1, <1>2, <1>6, RunOf
<1> QED BY <1>2, <1>3, <1>4, <1>5, <1>7

\* The runs of the second half are those of t.
LEMMA RunAfter ==
  ASSUME NEW t \in Text, NEW w, NEW d, After(t, w, d), NEW C, NEW k \in 1..(Len(w) + 1)
  PROVE  /\ RunEnd(t, d + k, C) = d + RunEnd(w, k, C)
         /\ RunEnd(w, k, C) \in k..(Len(w) + 1)
<1>1. d \in Nat /\ w \in Text /\ Len(w) \in Nat /\ Len(t) = d + Len(w)
  BY DEF After, Text
<1>2. PICK r : r = RunEnd(w, k, C) /\ IsRun(w, k, C, r)
  BY <1>1, RunIs
<1>3. r \in k..(Len(w) + 1) /\ r \in Nat /\ k \in Nat
  BY <1>1, <1>2 DEF IsRun
<1>4. PICK a, b : a = d + k /\ b = d + r
  OBVIOUS
<1>5. a \in 1..(Len(t) + 1) /\ b \in a..(Len(t) + 1)
  BY <1>1, <1>3, <1>4
<1>6. ASSUME NEW j \in a..(b - 1) PROVE t[j] \in C
  <2>1. PICK e \in k..(r - 1) : j = d + e
    <3>1. j - d \in k..(r - 1) /\ j = d + (j - d)
      BY <1>1, <1>3, <1>4
    <3> QED BY <3>1
  <2>2. e \in 1..Len(w)
    BY <1>1, <1>3
  <2> QED BY <1>2, <2>1, <2>2 DEF IsRun, After
<1>7. b = Len(t) + 1 \/ t[b] \notin C
  <2>1. CASE r = Len(w) + 1
    BY <1>1, <1>4, <2>1
  <2>2. CASE r # Len(w) + 1
    <3>1. r \in 1..Len(w)
      BY <1>1, <1>3, <2>2
    <3> QED BY <1>2, <1>4, <2>2, <3>1 DEF IsRun, After
  <2> QED BY <2>1, <2>2
<1>8. IsRun(t, a, C, b)
  BY <1>5, <1>6, <1>7 DEF IsRun
<1>9. RunEnd(t, a, C) = b
  BY <1>5, <1>8, RunOf
<1> QED BY <1>2, <1>3, <1>4, <1>9

-----------------------------------------------------------------------------
(* No match that begins before the cut goes beyond it, and it is a match of  *)
(* the first half as well.                                                   *)

\* What is at the cut.
LEMMA CutIs ==
  ASSUME NEW t \in Text, NEW u, NEW i, Before(t, u, i)
  PROVE  /\ Len(t) \in Nat /\ i \in Nat /\ 2 <= i /\ i <= Len(t) /\ u \in Text /\ Len(u) = i - 1
         /\ i - 1 \in 1..(i - 1)
         /\ t[i - 1] = NL /\ u[i - 1] = NL
         /\ \A C : (C \subseteq Letter \/ C \subseteq Digit \/ C \subseteq Punct) => t[i - 1] \notin C
         /\ t[i] \notin Space /\ t[i] \notin PunctTail
<1>1. Len(t) \in Nat /\ i \in Nat /\ 2 <= i /\ i <= Len(t) /\ u \in Text /\ Len(u) = i - 1
  BY DEF Before, Text
<1>2. i - 1 \in 1..(i - 1)
  BY <1>1
<1>3. t[i - 1] = NL /\ u[i - 1] = NL /\ t[i] \notin Space \cup {"/"}
  BY <1>2 DEF Before
<1>4. NL \notin Letter /\ NL \notin Digit /\ NL \notin Punct
  BY DEF NL, Letter, Upper, Lower, Digit, Punct
<1>5. PunctTail \subseteq Space \cup {"/"}
  BY DEF PunctTail, Space
<1> QED BY <1>1, <1>2, <1>3, <1>4, <1>5

\* A contraction has two characters, neither of them a newline.
LEMMA ContractionBefore ==
  ASSUME NEW t \in Text, NEW u, NEW i, Before(t, u, i), NEW k \in 1..(i - 1)
  PROVE  Contraction(u, k) = Contraction(t, k) /\ Contraction(t, k) \in k..i
<1>1. /\ Len(t) \in Nat /\ i \in Nat /\ 2 <= i /\ i <= Len(t) /\ Len(u) = i - 1
      /\ t[i - 1] = NL /\ u[i - 1] = NL
  BY CutIs
<1>2. u[k] = t[k]
  BY DEF Before
<1>3. CASE k = i - 1
  BY <1>1, <1>3 DEF Contraction, NL
<1>4. CASE k # i - 1
  <2>1. k + 1 \in 1..(i - 1) /\ k < Len(u) /\ k < Len(t)
    BY <1>1, <1>4
  <2>2. u[k + 1] = t[k + 1]
    BY <2>1 DEF Before
  <2>3. k \in k..i /\ k + 2 \in k..i
    BY <1>1, <2>1
  <2> QED BY <1>2, <2>1, <2>2, <2>3 DEF Contraction
<1> QED BY <1>3, <1>4

\* A word has no newline.
LEMMA WordBefore ==
  ASSUME NEW t \in Text, NEW u, NEW i, Before(t, u, i), NEW k \in 1..(i - 1)
  PROVE  Word(u, k) = Word(t, k) /\ Word(t, k) \in k..i
<1>1. /\ Len(t) \in Nat /\ i \in Nat /\ 2 <= i /\ i <= Len(t) /\ Len(u) = i - 1
      /\ t[i - 1] = NL /\ u[k] = t[k]
  BY CutIs DEF Before
<1>2. t[i - 1] \notin Upper /\ t[i - 1] \notin Lower /\ t[i - 1] \notin Letter
  BY CutIs DEF Letter
<1>3. PICK first : first = IF t[k] \in {NL, CR} \cup Letter \cup Digit THEN k ELSE k + 1
  OBVIOUS
<1>4. first \in k..(i - 1)
  BY <1>1, <1>3
<1>5. first \in 1..i /\ i - 1 \in first..i
  BY <1>1, <1>4
<1>6. PICK r : r = RunEnd(t, first, Upper) /\ r = RunEnd(u, first, Upper) /\ r \in first..(i - 1)
  BY <1>2, <1>5, RunBefore
<1>7. r \in 1..i /\ i - 1 \in r..i
  BY <1>1, <1>4, <1>6
<1>8. PICK last : last = RunEnd(t, r, Lower) /\ last = RunEnd(u, r, Lower) /\ last \in r..(i - 1)
  BY <1>2, <1>7, RunBefore
<1>9. last \in 1..(i - 1) /\ last >= k
  BY <1>1, <1>4, <1>6, <1>8
<1>10. PICK c : c = Contraction(t, last) /\ c = Contraction(u, last) /\ c \in last..i
  BY <1>9, ContractionBefore
<1>11. PICK e : e = RunEnd(t, first, Letter) /\ e = RunEnd(u, first, Letter) /\ e \in first..(i - 1)
  BY <1>2, <1>5, RunBefore
<1>12. k \in k..i /\ c \in k..i /\ e \in k..i
  BY <1>1, <1>4, <1>9, <1>10, <1>11
<1>13. CASE tokenizer = "o200k_base"
  <2>1. Word(t, k) = IF last = first THEN k ELSE c
    BY <1>3, <1>6, <1>8, <1>10, <1>13 DEF Word
  <2>2. Word(u, k) = IF last = first THEN k ELSE c
    BY <1>1, <1>3, <1>6, <1>8, <1>10, <1>13 DEF Word
  <2> QED BY <1>12, <2>1, <2>2
<1>14. CASE tokenizer # "o200k_base"
  <2>1. Word(t, k) = IF e = first THEN k ELSE e
    BY <1>3, <1>11, <1>14 DEF Word
  <2>2. Word(u, k) = IF e = first THEN k ELSE e
    BY <1>1, <1>3, <1>11, <1>14 DEF Word
  <2> QED BY <1>12, <2>1, <2>2
<1> QED BY <1>13, <1>14

\* A number has no newline.
LEMMA NumberBefore ==
  ASSUME NEW t \in Text, NEW u, NEW i, Before(t, u, i), NEW k \in 1..(i - 1)
  PROVE  Number(u, k) = Number(t, k) /\ Number(t, k) \in k..i
<1>1. Len(t) \in Nat /\ i \in Nat /\ 2 <= i /\ i <= Len(t) /\ t[i - 1] \notin Digit
  BY CutIs
<1>2. k \in 1..i /\ i - 1 \in k..i
  BY <1>1
<1>3. PICK r : r = RunEnd(t, k, Digit) /\ r = RunEnd(u, k, Digit) /\ r \in k..(i - 1)
  BY <1>1, <1>2, RunBefore
<1>4. Number(t, k) = (IF r > k + 3 THEN k + 3 ELSE r) /\ Number(u, k) = (IF r > k + 3 THEN k + 3 ELSE r)
  BY <1>3 DEF Number
<1> QED BY <1>1, <1>3, <1>4

\* The tail of punctuation has newlines, but neither the slash nor white space
\* of another kind comes after the cut.
LEMMA PunctuationBefore ==
  ASSUME NEW t \in Text, NEW u, NEW i, Before(t, u, i), NEW k \in 1..(i - 1)
  PROVE  Punctuation(u, k) = Punctuation(t, k) /\ Punctuation(t, k) \in k..i
<1>1. /\ Len(t) \in Nat /\ i \in Nat /\ 2 <= i /\ i <= Len(t) /\ u[k] = t[k]
      /\ t[i - 1] = NL /\ t[i - 1] \notin Punct /\ t[i] \notin PunctTail
  BY CutIs DEF Before
<1>2. PICK first : first = IF t[k] = Blank THEN k + 1 ELSE k
  OBVIOUS
<1>3. first \in k..(i - 1)
  <2>1. CASE k = i - 1
    <3>1. first = k
      BY <1>1, <1>2, <2>1 DEF NL, Blank
    <3> QED BY <1>1, <3>1
  <2>2. CASE k # i - 1
    BY <1>1, <1>2, <2>2
  <2> QED BY <2>1, <2>2
<1>4. first \in 1..i /\ i - 1 \in first..i
  BY <1>1, <1>3
<1>5. PICK last : last = RunEnd(t, first, Punct) /\ last = RunEnd(u, first, Punct) /\ last \in first..(i - 1)
  BY <1>1, <1>4, RunBefore
<1>6. last \in 1..i /\ i \in last..i
  BY <1>1, <1>3, <1>5
<1>7. PICK e : e = RunEnd(t, last, PunctTail) /\ e = RunEnd(u, last, PunctTail) /\ e \in last..i
  BY <1>1, <1>6, RunBefore
<1>8. k \in k..i /\ e \in k..i
  BY <1>1, <1>3, <1>5, <1>7
<1>9. Punctuation(t, k) = IF last = first THEN k ELSE e
  BY <1>2, <1>5, <1>7 DEF Punctuation
<1>10. Punctuation(u, k) = IF last = first THEN k ELSE e
  BY <1>1, <1>2, <1>5, <1>7 DEF Punctuation
<1> QED BY <1>8, <1>9, <1>10

\* Where a match of \s*[\r\n]+ may end.
LineEnds(t, i) == {j \in (i + 1)..RunEnd(t, i, Space) : t[j - 1] \in {CR, NL}}

\* Newlines, with the set named.
LEMMA NewlinesIs ==
  ASSUME NEW t, NEW i
  PROVE  Newlines(t, i) = IF LineEnds(t, i) = {} THEN i
                          ELSE CHOOSE j \in LineEnds(t, i) : \A k \in LineEnds(t, i) : k <= j
BY DEF Newlines, LineEnds

\* Newlines answers with the greatest end there is.
LEMMA NewlinesOf ==
  ASSUME NEW t, NEW i, NEW n \in Nat, LineEnds(t, i) \subseteq 0..n, LineEnds(t, i) # {}
  PROVE  /\ Newlines(t, i) \in LineEnds(t, i)
         /\ \A x \in LineEnds(t, i) : x <= Newlines(t, i)
         /\ \A x \in LineEnds(t, i) : (\A y \in LineEnds(t, i) : y <= x) => Newlines(t, i) = x
<1> DEFINE T == LineEnds(t, i)
           Above == {k \in Nat : \A x \in T : x <= k}
<1>0. T \subseteq Nat /\ n \in Above /\ T # {}
  OBVIOUS
<1>1. Newlines(t, i) = CHOOSE j \in T : \A k \in T : k <= j
  BY <1>0, NewlinesIs
<1> HIDE DEF T
<1>2. PICK k \in Above : \A j \in Above : k <= j
  BY <1>0, LeastNat
<1>3. ASSUME k \notin T PROVE FALSE
  <2>1. PICK y \in T : TRUE
    BY <1>0
  <2>2. k # 0
    BY <1>0, <1>3, <2>1
  <2>3. k - 1 \in Above
    BY <1>0, <1>3, <2>2
  <2> QED BY <1>2, <2>3
<1>4. k \in T /\ \A x \in T : x <= k
  BY <1>2, <1>3
<1>5. Newlines(t, i) \in T /\ \A x \in T : x <= Newlines(t, i)
  BY <1>1, <1>4
<1>6. ASSUME NEW x \in T, \A y \in T : y <= x PROVE Newlines(t, i) = x
  <2>1. PICK m : m = Newlines(t, i)
    OBVIOUS
  <2>2. m \in Nat /\ x \in Nat /\ m <= x /\ x <= m
    BY <1>0, <1>5, <1>6, <2>1
  <2> QED BY <2>1, <2>2
<1> QED BY <1>5, <1>6 DEF T

\* White space up to the cut ends in a newline, so this branch matches it all.
LEMMA NewlinesBefore ==
  ASSUME NEW t \in Text, NEW u, NEW i, Before(t, u, i), NEW k \in 1..(i - 1)
  PROVE  /\ Newlines(u, k) = Newlines(t, k) /\ Newlines(t, k) \in k..i
         /\ RunEnd(t, k, Space) = i => Newlines(t, k) # k
<1>1. /\ Len(t) \in Nat /\ i \in Nat /\ 2 <= i /\ i <= Len(t) /\ t[i] \notin Space /\ t[i - 1] = NL
  BY CutIs
<1>2. k \in 1..i /\ i \in k..i
  BY <1>1
<1>3. PICK r : r = RunEnd(t, k, Space) /\ r = RunEnd(u, k, Space) /\ r \in k..i
  BY <1>1, <1>2, RunBefore
<1>4. \A j \in (k + 1)..r : j - 1 \in 1..(i - 1)
  BY <1>1, <1>3
<1>5. LineEnds(u, k) = LineEnds(t, k)
  BY <1>3, <1>4 DEF LineEnds, Before
<1>7. LineEnds(t, k) \subseteq (k + 1)..i
  BY <1>1, <1>3 DEF LineEnds
<1>8. CASE LineEnds(t, k) = {}
  <2>1. Newlines(t, k) = k
    BY <1>8, NewlinesIs
  <2>3. Newlines(u, k) = k
    BY <1>5, <1>8, NewlinesIs
  <2>2. r # i
    <3> SUFFICES ASSUME r = i PROVE FALSE
      OBVIOUS
    <3>1. i \in (k + 1)..r
      BY <1>1
    <3>2. i \in LineEnds(t, k)
      BY <1>1, <1>3, <3>1 DEF LineEnds
    <3> QED BY <1>8, <3>2
  <2> QED BY <1>2, <1>3, <2>1, <2>2, <2>3
<1>9. CASE LineEnds(t, k) # {}
  <2>1. LineEnds(t, k) \subseteq 0..i
    BY <1>1, <1>7
  <2>2. Newlines(t, k) \in (k + 1)..i
    BY <1>1, <1>7, <1>9, <2>1, NewlinesOf
  <2>3. Newlines(u, k) = Newlines(t, k)
    <3>1. /\ Newlines(t, k) \in LineEnds(u, k)
          /\ \A x \in LineEnds(u, k) : x <= Newlines(t, k)
      BY <1>1, <1>5, <1>9, <2>1, NewlinesOf
    <3> QED BY <1>1, <1>5, <1>9, <2>1, <3>1, NewlinesOf
  <2> QED BY <1>1, <2>2, <2>3
<1> QED BY <1>8, <1>9

\* White space ends at the cut at the latest; only a match of \s+(?!\S) that
\* reaches it would be another one at the end of the first half.
LEMMA SpacesBefore ==
  ASSUME NEW t \in Text, NEW u, NEW i, Before(t, u, i), NEW k \in 1..(i - 1)
  PROVE  /\ Spaces(u, k) = Spaces(t, k) /\ Spaces(t, k) \in k..i
         /\ Trailing(t, k) \in k..i
         /\ RunEnd(t, k, Space) # i => Trailing(u, k) = Trailing(t, k)
<1>1. Len(t) \in Nat /\ i \in Nat /\ 2 <= i /\ i <= Len(t) /\ t[i] \notin Space /\ Len(u) = i - 1
  BY CutIs
<1>2. k \in 1..i /\ i \in k..i
  BY <1>1
<1>3. PICK r : r = RunEnd(t, k, Space) /\ r = RunEnd(u, k, Space) /\ r \in k..i
  BY <1>1, <1>2, RunBefore
<1>4. Spaces(t, k) = r /\ Spaces(u, k) = r
  BY <1>3 DEF Spaces
<1>5. Trailing(t, k) = IF r = Len(t) + 1 \/ r = k THEN r ELSE r - 1
  BY <1>3 DEF Trailing
<1>6. Trailing(u, k) = IF r = Len(u) + 1 \/ r = k THEN r ELSE r - 1
  BY <1>3 DEF Trailing
<1> QED BY <1>1, <1>3, <1>4, <1>5, <1>6

-----------------------------------------------------------------------------
(* A match looks at nothing before the place where it begins.                *)

\* The second half of a text.
LEMMA RestIs ==
  ASSUME NEW t \in Text, NEW w, NEW d, After(t, w, d)
  PROVE  /\ d \in Nat /\ w \in Text /\ Len(w) \in Nat /\ Len(t) \in Nat /\ Len(t) = d + Len(w)
         /\ \A k \in 1..Len(w) : t[d + k] = w[k]
BY DEF After, Text

\* Each branch in turn answers for the second half as for t, d further on.
LEMMA ContractionAfter ==
  ASSUME NEW t \in Text, NEW w, NEW d, After(t, w, d), NEW k \in 1..(Len(w) + 1)
  PROVE  Contraction(t, d + k) = d + Contraction(w, k) /\ Contraction(w, k) \in k..(Len(w) + 1)
<1>1. /\ d \in Nat /\ Len(w) \in Nat /\ Len(t) = d + Len(w) /\ k \in Nat
      /\ \A e \in 1..Len(w) : t[d + e] = w[e]
  BY RestIs
<1>2. PICK a \in Nat : a = d + k
  BY <1>1
<1>3. CASE k < Len(w)
  <2>1. a < Len(t) /\ k \in 1..Len(w) /\ k + 1 \in 1..Len(w) /\ d + (k + 1) = a + 1
    BY <1>1, <1>2, <1>3
  <2>2. t[a] = w[k]
    BY <1>1, <1>2, <2>1
  <2>3. t[a + 1] = w[k + 1]
    <3>1. t[d + (k + 1)] = w[k + 1]
      BY <1>1, <2>1
    <3> QED BY <2>1, <3>1
  <2>4. Contraction(t, a) = IF w[k] = "'" /\ w[k + 1] = "s" THEN a + 2 ELSE a
    BY <2>1, <2>2, <2>3 DEF Contraction
  <2>5. Contraction(w, k) = IF w[k] = "'" /\ w[k + 1] = "s" THEN k + 2 ELSE k
    BY <1>3 DEF Contraction
  <2> QED BY <1>1, <1>2, <1>3, <2>4, <2>5
<1>4. CASE ~(k < Len(w))
  <2>1. ~(a < Len(t))
    BY <1>1, <1>2, <1>4
  <2>2. Contraction(t, a) = a /\ Contraction(w, k) = k
    BY <1>4, <2>1 DEF Contraction
  <2> QED BY <1>1, <1>2, <2>2
<1> QED BY <1>3, <1>4

\* As ContractionAfter.
LEMMA WordAfter ==
  ASSUME NEW t \in Text, NEW w, NEW d, After(t, w, d), NEW k \in 1..Len(w)
  PROVE  Word(t, d + k) = d + Word(w, k) /\ Word(w, k) \in k..(Len(w) + 1)
<1>1. /\ d \in Nat /\ Len(w) \in Nat /\ Len(t) = d + Len(w) /\ k \in Nat /\ t[d + k] = w[k]
  BY RestIs
<1>2. PICK n \in Nat : n = Len(w) + 1
  BY <1>1
<1>3. PICK first : first = IF w[k] \in {NL, CR} \cup Letter \cup Digit THEN k ELSE k + 1
  OBVIOUS
<1>4. first \in k..n /\ first \in 1..(Len(w) + 1)
  BY <1>1, <1>2, <1>3
<1>5. PICK r : r = RunEnd(w, first, Upper) /\ d + r = RunEnd(t, d + first, Upper) /\ r \in first..n
  BY <1>2, <1>4, RunAfter
<1>6. r \in 1..(Len(w) + 1)
  BY <1>2, <1>4, <1>5
<1>7. PICK last : last = RunEnd(w, r, Lower) /\ d + last = RunEnd(t, d + r, Lower) /\ last \in r..n
  BY <1>2, <1>6, RunAfter
<1>8. last \in 1..(Len(w) + 1)
  BY <1>2, <1>6, <1>7
<1>9. PICK c : c = Contraction(w, last) /\ d + c = Contraction(t, d + last) /\ c \in last..n
  BY <1>2, <1>8, ContractionAfter
<1>10. PICK e : e = RunEnd(w, first, Letter) /\ d + e = RunEnd(t, d + first, Letter) /\ e \in first..n
  BY <1>2, <1>4, RunAfter
<1>11. /\ c \in k..n /\ e \in k..n /\ k \in k..n /\ first \in Nat /\ last \in Nat /\ e \in Nat
  <2>1. first \in Nat /\ k <= first /\ first <= n
    BY <1>1, <1>2, <1>4
  <2>2. r \in Nat /\ k <= r /\ r <= n
    BY <1>2, <1>5, <2>1
  <2>3. last \in Nat /\ k <= last /\ last <= n
    BY <1>2, <1>7, <2>2
  <2>4. c \in k..n
    BY <1>1, <1>2, <1>9, <2>3
  <2>5. e \in k..n /\ e \in Nat
    BY <1>1, <1>2, <1>10, <2>1
  <2> QED BY <1>1, <1>2, <2>1, <2>3, <2>4, <2>5
<1>12. d + first = IF t[d + k] \in {NL, CR} \cup Letter \cup Digit THEN d + k ELSE (d + k) + 1
  BY <1>1, <1>3
<1>13. CASE tokenizer = "o200k_base"
  <2>1. Word(t, d + k) = IF d + last = d + first THEN d + k ELSE d + c
    BY <1>5, <1>7, <1>9, <1>12, <1>13 DEF Word
  <2>2. Word(w, k) = IF last = first THEN k ELSE c
    BY <1>3, <1>5, <1>7, <1>9, <1>13 DEF Word
  <2>3. d + last = d + first <=> last = first
    BY <1>1, <1>11
  <2> QED BY <1>2, <1>11, <2>1, <2>2, <2>3
<1>14. CASE tokenizer # "o200k_base"
  <2>1. Word(t, d + k) = IF d + e = d + first THEN d + k ELSE d + e
    BY <1>10, <1>12, <1>14 DEF Word
  <2>2. Word(w, k) = IF e = first THEN k ELSE e
    BY <1>3, <1>10, <1>14 DEF Word
  <2>3. d + e = d + first <=> e = first
    BY <1>1, <1>11
  <2> QED BY <1>2, <1>11, <2>1, <2>2, <2>3
<1> QED BY <1>13, <1>14

\* As ContractionAfter.
LEMMA NumberAfter ==
  ASSUME NEW t \in Text, NEW w, NEW d, After(t, w, d), NEW k \in 1..Len(w)
  PROVE  Number(t, d + k) = d + Number(w, k) /\ Number(w, k) \in k..(Len(w) + 1)
<1>1. d \in Nat /\ Len(w) \in Nat /\ k \in Nat /\ k \in 1..(Len(w) + 1)
  BY RestIs
<1>2. PICK r : r = RunEnd(w, k, Digit) /\ d + r = RunEnd(t, d + k, Digit) /\ r \in k..(Len(w) + 1)
  BY <1>1, RunAfter
<1>3. Number(w, k) = IF r > k + 3 THEN k + 3 ELSE r
  BY <1>2 DEF Number
<1>4. Number(t, d + k) = IF d + r > (d + k) + 3 THEN (d + k) + 3 ELSE d + r
  BY <1>2 DEF Number
<1>5. r \in Nat
  BY <1>1, <1>2
<1> QED BY <1>1, <1>2, <1>3, <1>4, <1>5

\* As ContractionAfter.
LEMMA PunctuationAfter ==
  ASSUME NEW t \in Text, NEW w, NEW d, After(t, w, d), NEW k \in 1..Len(w)
  PROVE  Punctuation(t, d + k) = d + Punctuation(w, k) /\ Punctuation(w, k) \in k..(Len(w) + 1)
<1>1. /\ d \in Nat /\ Len(w) \in Nat /\ k \in Nat /\ t[d + k] = w[k]
  BY RestIs
<1>2. PICK n \in Nat : n = Len(w) + 1
  BY <1>1
<1>3. PICK first : first = IF w[k] = Blank THEN k + 1 ELSE k
  OBVIOUS
<1>4. first \in k..n /\ first \in 1..(Len(w) + 1)
  BY <1>1, <1>2, <1>3
<1>5. PICK last : last = RunEnd(w, first, Punct) /\ d + last = RunEnd(t, d + first, Punct) /\ last \in first..n
  BY <1>2, <1>4, RunAfter
<1>6. last \in 1..(Len(w) + 1)
  BY <1>2, <1>4, <1>5
<1>7. PICK e : e = RunEnd(w, last, PunctTail) /\ d + e = RunEnd(t, d + last, PunctTail) /\ e \in last..n
  BY <1>2, <1>6, RunAfter
<1>8. e \in k..n /\ k \in k..n /\ first \in Nat /\ last \in Nat
  BY <1>1, <1>2, <1>4, <1>5, <1>7
<1>9. d + first = IF t[d + k] = Blank THEN (d + k) + 1 ELSE d + k
  BY <1>1, <1>3
<1>10. Punctuation(t, d + k) = IF d + last = d + first THEN d + k ELSE d + e
  BY <1>5, <1>7, <1>9 DEF Punctuation
<1>11. Punctuation(w, k) = IF last = first THEN k ELSE e
  BY <1>3, <1>5, <1>7 DEF Punctuation
<1>12. d + last = d + first <=> last = first
  BY <1>1, <1>8
<1> QED BY <1>2, <1>8, <1>10, <1>11, <1>12

\* As ContractionAfter.
LEMMA SpacesAfter ==
  ASSUME NEW t \in Text, NEW w, NEW d, After(t, w, d), NEW k \in 1..Len(w)
  PROVE  /\ Spaces(t, d + k) = d + Spaces(w, k) /\ Spaces(w, k) \in k..(Len(w) + 1)
         /\ Trailing(t, d + k) = d + Trailing(w, k) /\ Trailing(w, k) \in k..(Len(w) + 1)
<1>1. d \in Nat /\ Len(w) \in Nat /\ Len(t) = d + Len(w) /\ k \in Nat /\ k \in 1..(Len(w) + 1)
  BY RestIs
<1>2. PICK r : r = RunEnd(w, k, Space) /\ d + r = RunEnd(t, d + k, Space) /\ r \in k..(Len(w) + 1)
  BY <1>1, RunAfter
<1>3. Spaces(w, k) = r /\ Spaces(t, d + k) = d + r /\ r \in Nat
  BY <1>1, <1>2 DEF Spaces
<1>4. Trailing(w, k) = IF r = Len(w) + 1 \/ r = k THEN r ELSE r - 1
  BY <1>2 DEF Trailing
<1>5. Trailing(t, d + k) = IF d + r = Len(t) + 1 \/ d + r = d + k THEN d + r ELSE (d + r) - 1
  BY <1>2 DEF Trailing
<1>6. (d + r = Len(t) + 1 <=> r = Len(w) + 1) /\ (d + r = d + k <=> r = k)
  BY <1>1, <1>3
<1>7. CASE r = Len(w) + 1 \/ r = k
  BY <1>2, <1>3, <1>4, <1>5, <1>6, <1>7
<1>8. CASE ~(r = Len(w) + 1 \/ r = k)
  <2>1. Trailing(t, d + k) = (d + r) - 1 /\ Trailing(w, k) = r - 1
    BY <1>4, <1>5, <1>6, <1>8
  <2> QED BY <1>1, <1>2, <1>3, <1>8, <2>1
<1> QED BY <1>7, <1>8

\* As ContractionAfter.
LEMMA NewlinesAfter ==
  ASSUME NEW t \in Text, NEW w, NEW d, After(t, w, d), NEW k \in 1..Len(w)
  PROVE  Newlines(t, d + k) = d + Newlines(w, k) /\ Newlines(w, k) \in k..(Len(w) + 1)
<1>1. /\ d \in Nat /\ Len(w) \in Nat /\ Len(t) = d + Len(w) /\ k \in Nat /\ k \in 1..(Len(w) + 1)
      /\ Len(t) \in Nat /\ \A e \in 1..Len(w) : t[d + e] = w[e]
  BY RestIs
<1>2. PICK r : r = RunEnd(w, k, Space) /\ d + r = RunEnd(t, d + k, Space) /\ r \in k..(Len(w) + 1)
  BY <1>1, RunAfter
<1>3. PICK a \in Nat : a = d + k
  BY <1>1
<1>4. r \in Nat
  BY <1>1, <1>2
<1>5. ASSUME NEW j \in Nat PROVE d + j \in LineEnds(t, a) <=> j \in LineEnds(w, k)
  <2>1. PICK x \in Nat, b \in Nat : x = d + j /\ b = d + r
    BY <1>1, <1>4
  <2>2. x \in (a + 1)..b <=> j \in (k + 1)..r
    BY <1>1, <1>3, <1>4, <2>1
  <2>3. ASSUME j \in (k + 1)..r PROVE t[x - 1] = w[j - 1]
    <3>1. j - 1 \in 1..Len(w) /\ d + (j - 1) = x - 1
      BY <1>1, <1>2, <1>4, <2>1, <2>3
    <3> QED BY <1>1, <3>1
  <2>4. RunEnd(t, a, Space) = b
    BY <1>2, <1>3, <2>1
  <2>5. x \in LineEnds(t, a) <=> x \in (a + 1)..b /\ t[x - 1] \in {CR, NL}
    BY <2>4 DEF LineEnds
  <2>6. j \in LineEnds(w, k) <=> j \in (k + 1)..r /\ w[j - 1] \in {CR, NL}
    BY <1>2 DEF LineEnds
  <2>7. x \in LineEnds(t, a) <=> j \in LineEnds(w, k)
    BY <2>2, <2>3, <2>5, <2>6
  <2> QED BY <2>1, <2>7
<1>6. ASSUME NEW x \in LineEnds(t, a) PROVE x - d \in Nat /\ x = d + (x - d)
  <2>1. x \in (a + 1)..(d + r)
    BY <1>2, <1>3 DEF LineEnds
  <2> QED BY <1>1, <1>3, <1>4, <2>1
<1>7. LineEnds(w, k) \subseteq (k + 1)..r /\ LineEnds(t, a) \subseteq (a + 1)..(d + r)
  BY <1>2, <1>3 DEF LineEnds
<1>8. CASE LineEnds(w, k) = {}
  <2>1. LineEnds(t, a) = {}
    BY <1>5, <1>6, <1>8
  <2>2. Newlines(t, a) = a /\ Newlines(w, k) = k
    BY <1>8, <2>1, NewlinesIs
  <2> QED BY <1>1, <1>3, <2>2
<1>9. CASE LineEnds(w, k) # {}
  <2>1. LineEnds(w, k) \subseteq 0..(Len(w) + 1) /\ LineEnds(t, a) \subseteq 0..(Len(t) + 1)
    BY <1>1, <1>2, <1>3, <1>4, <1>7
  <2>2. PICK m : m = Newlines(w, k) /\ m \in LineEnds(w, k) /\ \A x \in LineEnds(w, k) : x <= m
    BY <1>1, <1>9, <2>1, NewlinesOf
  <2>3. m \in Nat /\ m \in k..(Len(w) + 1)
    BY <1>1, <1>2, <1>4, <1>7, <2>2
  <2>4. d + m \in LineEnds(t, a)
    BY <1>5, <2>2, <2>3
  <2>5. ASSUME NEW x \in LineEnds(t, a) PROVE x <= d + m
    <3>1. PICK y \in Nat : x = d + y
      BY <1>6
    <3>2. y <= m
      BY <1>5, <2>2, <3>1
    <3> QED BY <1>1, <2>3, <3>1, <3>2
  <2>6. Newlines(t, a) = d + m
    <3>1. Len(t) + 1 \in Nat
      BY <1>1
    <3> QED BY <2>1, <2>4, <2>5, <3>1, NewlinesOf
  <2> QED BY <1>3, <2>2, <2>3, <2>6
<1> QED BY <1>8, <1>9

-----------------------------------------------------------------------------
(* The branch that matches.                                                  *)

\* The ends of the seven branches at k.
Ends(t, k) ==
  <<IF tokenizer = "o200k_base" THEN k ELSE Contraction(t, k),
    Word(t, k), Number(t, k), Punctuation(t, k),
    Newlines(t, k), Trailing(t, k), Spaces(t, k)>>

\* Branch b is the first that matches.
IsFirst(t, k, b) ==
  /\ b \in 1..7
  /\ Ends(t, k)[b] > k
  /\ \A c \in 1..(b - 1) : Ends(t, k)[c] = k

\* Ends, branch by branch.
LEMMA EndsAre ==
  ASSUME NEW t, NEW k
  PROVE  /\ Ends(t, k)[1] = IF tokenizer = "o200k_base" THEN k ELSE Contraction(t, k)
         /\ Ends(t, k)[2] = Word(t, k) /\ Ends(t, k)[3] = Number(t, k)
         /\ Ends(t, k)[4] = Punctuation(t, k) /\ Ends(t, k)[5] = Newlines(t, k)
         /\ Ends(t, k)[6] = Trailing(t, k) /\ Ends(t, k)[7] = Spaces(t, k)
         /\ DOMAIN Ends(t, k) = 1..7
BY DEF Ends

\* t is its own second half behind an empty first one.
LEMMA ItsOwnRest ==
  ASSUME NEW t \in Text
  PROVE  After(t, t, 0) /\ Len(t) \in Nat
<1>1. Len(t) \in Nat
  BY DEF Text
<1>2. \A k \in 1..Len(t) : 0 + k = k
  BY <1>1
<1> QED BY <1>1, <1>2 DEF After

\* All seven answer for the second half as for t.
LEMMA EndsAfter ==
  ASSUME NEW t \in Text, NEW w, NEW d, After(t, w, d), NEW k \in 1..Len(w), NEW b \in 1..7
  PROVE  Ends(t, d + k)[b] = d + Ends(w, k)[b] /\ Ends(w, k)[b] \in k..(Len(w) + 1)
<1>1. d \in Nat /\ Len(w) \in Nat /\ k \in Nat /\ k \in 1..(Len(w) + 1) /\ k \in k..(Len(w) + 1)
  BY RestIs
<1>2. b = 1 \/ b = 2 \/ b = 3 \/ b = 4 \/ b = 5 \/ b = 6 \/ b = 7
  OBVIOUS
<1>3. CASE b = 1
  BY <1>1, <1>3, EndsAre, ContractionAfter
<1>4. CASE b = 2
  BY <1>4, EndsAre, WordAfter
<1>5. CASE b = 3
  BY <1>5, EndsAre, NumberAfter
<1>6. CASE b = 4
  BY <1>6, EndsAre, PunctuationAfter
<1>7. CASE b = 5
  BY <1>7, EndsAre, NewlinesAfter
<1>8. CASE b = 6 \/ b = 7
  BY <1>8, EndsAre, SpacesAfter
<1> QED BY <1>2, <1>3, <1>4, <1>5, <1>6, <1>7, <1>8

\* A match ends within the text.
LEMMA EndsFrom ==
  ASSUME NEW t \in Text, NEW k \in 1..Len(t), NEW b \in 1..7
  PROVE  Ends(t, k)[b] \in k..(Len(t) + 1)
BY ItsOwnRest, EndsAfter

\* A run from a member of C is not empty.
LEMMA RunFrom ==
  ASSUME NEW t \in Text, NEW k \in 1..Len(t), NEW C
  PROVE  /\ RunEnd(t, k, C) \in k..(Len(t) + 1)
         /\ t[k] \in C => RunEnd(t, k, C) > k
<1>1. Len(t) \in Nat /\ k \in Nat /\ k \in 1..(Len(t) + 1)
  BY ItsOwnRest
<1>2. IsRun(t, k, C, RunEnd(t, k, C))
  BY <1>1, RunIs
<1>3. PICK r : r = RunEnd(t, k, C) /\ IsRun(t, k, C, r)
  BY <1>2
<1>4. r \in k..(Len(t) + 1) /\ (r = Len(t) + 1 \/ t[r] \notin C)
  BY <1>3 DEF IsRun
<1>5. ASSUME t[k] \in C PROVE r > k
  <2>1. r # k
    BY <1>1, <1>4, <1>5
  <2> QED BY <1>1, <1>4, <2>1
<1> QED BY <1>3, <1>4, <1>5

\* A letter begins a word.
LEMMA WordMatches ==
  ASSUME NEW t \in Text, NEW k \in 1..Len(t), t[k] \in Letter
  PROVE  Word(t, k) # k
<1>1. Len(t) \in Nat /\ k \in Nat /\ k \in 1..(Len(t) + 1) /\ After(t, t, 0)
  BY ItsOwnRest
<1>2. PICK first : first = (IF t[k] \in {NL, CR} \cup Letter \cup Digit THEN k ELSE k + 1) /\ first = k
  OBVIOUS
<1>3. PICK r : r = RunEnd(t, k, Upper) /\ r \in k..(Len(t) + 1) /\ (t[k] \in Upper => r > k)
  BY RunFrom
<1>4. r \in 1..(Len(t) + 1) /\ r \in Nat
  BY <1>1, <1>3
<1>5. PICK last : last = RunEnd(t, r, Lower) /\ IsRun(t, r, Lower, last)
  BY <1>4, RunIs
<1>6. last \in r..(Len(t) + 1) /\ last \in 1..(Len(t) + 1) /\ last \in Nat
  BY <1>1, <1>4, <1>5 DEF IsRun
<1>7. last > k
  <2>1. CASE t[k] \in Upper
    BY <1>1, <1>3, <1>4, <1>6, <2>1
  <2>2. CASE r > k
    BY <1>1, <1>4, <1>6, <2>2
  <2>3. CASE t[k] \notin Upper /\ ~(r > k)
    <3>1. r = k /\ t[k] \in Lower
      BY <1>1, <1>3, <1>4, <2>3 DEF Letter
    <3>2. last > k
      BY <1>5, <3>1, RunFrom
    <3> QED BY <3>2
  <2> QED BY <2>1, <2>2, <2>3
<1>8. PICK c : c = Contraction(t, last) /\ c \in last..(Len(t) + 1)
  BY <1>1, <1>6, ContractionAfter
<1>9. PICK e : e = RunEnd(t, k, Letter) /\ e > k
  BY RunFrom
<1>10. CASE tokenizer = "o200k_base"
  <2>1. Word(t, k) = IF last = k THEN k ELSE c
    BY <1>2, <1>3, <1>5, <1>8, <1>10 DEF Word
  <2>2. c # k /\ last # k
    BY <1>1, <1>6, <1>7, <1>8
  <2> QED BY <2>1, <2>2
<1>11. CASE tokenizer # "o200k_base"
  <2>1. Word(t, k) = IF e = k THEN k ELSE e
    BY <1>2, <1>9, <1>11 DEF Word
  <2>2. e # k
    BY <1>1, <1>9
  <2> QED BY <2>1, <2>2
<1> QED BY <1>10, <1>11

\* What is neither white space, letter nor digit begins punctuation.
LEMMA PunctuationMatches ==
  ASSUME NEW t \in Text, NEW k \in 1..Len(t), t[k] \in Punct
  PROVE  Punctuation(t, k) # k
<1>1. Len(t) \in Nat /\ k \in Nat
  BY ItsOwnRest
<1>2. t[k] # Blank
  BY DEF Punct, Blank
<1>3. PICK last : last = RunEnd(t, k, Punct) /\ last > k /\ last \in k..(Len(t) + 1)
  BY RunFrom
<1>4. last \in 1..(Len(t) + 1) /\ last # k
  BY <1>1, <1>3
<1>5. PICK e : e = RunEnd(t, last, PunctTail) /\ IsRun(t, last, PunctTail, e)
  BY <1>4, RunIs
<1>6. e \in last..(Len(t) + 1)
  BY <1>5 DEF IsRun
<1>7. Punctuation(t, k) = e
  BY <1>2, <1>3, <1>4, <1>5 DEF Punctuation
<1> QED BY <1>1, <1>3, <1>6, <1>7

\* A digit begins a number.
LEMMA NumberMatches ==
  ASSUME NEW t \in Text, NEW k \in 1..Len(t), t[k] \in Digit
  PROVE  Number(t, k) # k
<1>1. Len(t) \in Nat /\ k \in Nat
  BY ItsOwnRest
<1>2. PICK last : last = RunEnd(t, k, Digit) /\ last > k /\ last \in k..(Len(t) + 1)
  BY RunFrom
<1>3. Number(t, k) = IF last > k + 3 THEN k + 3 ELSE last
  BY <1>2 DEF Number
<1> QED BY <1>1, <1>2, <1>3

\* The expressions match every character, and the first branch decides.
LEMMA SomeFirst ==
  ASSUME NEW t \in Text, NEW k \in 1..Len(t)
  PROVE  \E b \in 1..7 : IsFirst(t, k, b)
<1>1. Len(t) \in Nat /\ k \in Nat
  BY ItsOwnRest
<1>2. t[k] \in Space \cup Letter \cup Digit \cup Punct
  <2>1. t[k] \in Chars
    BY DEF Text
  <2> QED BY <2>1, CharsAssumption
<1> DEFINE Matching == {b \in 1..7 : Ends(t, k)[b] # k}
<1>3. Matching # {}
  <2>1. CASE t[k] \in Space
    <3>1. Spaces(t, k) > k
      BY <2>1, RunFrom DEF Spaces
    <3>2. 7 \in Matching
      BY <1>1, <3>1, EndsAre
    <3> QED BY <3>2
  <2>2. CASE t[k] \in Letter
    <3>1. 2 \in Matching
      BY <2>2, WordMatches, EndsAre
    <3> QED BY <3>1
  <2>3. CASE t[k] \in Digit
    <3>1. 3 \in Matching
      BY <2>3, NumberMatches, EndsAre
    <3> QED BY <3>1
  <2>4. CASE t[k] \in Punct
    <3>1. 4 \in Matching
      BY <2>4, PunctuationMatches, EndsAre
    <3> QED BY <3>1
  <2> QED BY <1>2, <2>1, <2>2, <2>3, <2>4
<1>4. Matching \in SUBSET Nat
  OBVIOUS
<1> HIDE DEF Matching
<1>5. PICK b \in Matching : \A c \in Matching : b <= c
  BY <1>3, <1>4, LeastNat
<1> USE DEF Matching
<1>6. b \in 1..7 /\ Ends(t, k)[b] > k
  <2>1. Ends(t, k)[b] \in k..(Len(t) + 1)
    BY <1>5, EndsFrom
  <2> QED BY <1>1, <1>5, <2>1
<1>7. ASSUME NEW c \in 1..(b - 1) PROVE Ends(t, k)[c] = k
  <2>1. c \in 1..7 /\ ~(b <= c)
    BY <1>6
  <2> QED BY <1>5, <2>1
<1> QED BY <1>6, <1>7 DEF IsFirst

\* MatchEnd is the answer of the first branch that matches.
LEMMA MatchIs ==
  ASSUME NEW t \in Text, NEW k \in 1..Len(t), NEW b \in 1..7, IsFirst(t, k, b)
  PROVE  MatchEnd(t, k) = Ends(t, k)[b] /\ MatchEnd(t, k) \in (k + 1)..(Len(t) + 1)
<1>1. Len(t) \in Nat /\ k \in Nat
  BY ItsOwnRest
<1>2. PICK first : first = CHOOSE x \in DOMAIN Ends(t, k) :
                             Ends(t, k)[x] > k /\ \A c \in 1..(x - 1) : Ends(t, k)[c] = k
  OBVIOUS
<1>3. first \in 1..7 /\ IsFirst(t, k, first)
  <2>1. /\ first \in DOMAIN Ends(t, k) /\ Ends(t, k)[first] > k
        /\ \A c \in 1..(first - 1) : Ends(t, k)[c] = k
    BY <1>2, EndsAre DEF IsFirst
  <2> QED BY <2>1, EndsAre DEF IsFirst
<1>4. MatchEnd(t, k) = Ends(t, k)[first]
  BY <1>2 DEF MatchEnd, Ends
<1>5. ASSUME first < b PROVE FALSE
  <2>1. first \in 1..(b - 1)
    BY <1>3, <1>5
  <2>2. Ends(t, k)[first] = k /\ Ends(t, k)[first] > k
    BY <1>3, <2>1 DEF IsFirst
  <2> QED BY <1>1, <2>2
<1>6. ASSUME b < first PROVE FALSE
  <2>1. b \in 1..(first - 1)
    BY <1>3, <1>6
  <2>2. Ends(t, k)[b] = k /\ Ends(t, k)[b] > k
    BY <1>3, <2>1 DEF IsFirst
  <2> QED BY <1>1, <2>2
<1>7. first = b
  BY <1>3, <1>5, <1>6
<1>8. Ends(t, k)[b] > k /\ Ends(t, k)[b] \in k..(Len(t) + 1)
  BY EndsFrom DEF IsFirst
<1> QED BY <1>1, <1>4, <1>7, <1>8

\* No match is empty, so the scan gets to the end of the text.
LEMMA MatchFrom ==
  ASSUME NEW t \in Text, NEW k \in 1..Len(t)
  PROVE  MatchEnd(t, k) \in (k + 1)..(Len(t) + 1)
BY SomeFirst, MatchIs

\* A match that begins before the cut is one of the first half, and ends there.
LEMMA MatchBefore ==
  ASSUME NEW t \in Text, NEW u, NEW i, Before(t, u, i), NEW k \in 1..(i - 1)
  PROVE  MatchEnd(u, k) = MatchEnd(t, k) /\ MatchEnd(t, k) \in (k + 1)..i
<1>1. /\ Len(t) \in Nat /\ i \in Nat /\ 2 <= i /\ i <= Len(t) /\ u \in Text /\ Len(u) = i - 1
      /\ k \in Nat /\ k \in 1..Len(t) /\ k \in 1..Len(u)
  BY CutIs
<1>2. PICK b \in 1..7 : IsFirst(t, k, b)
  BY <1>1, SomeFirst
<1>3. /\ \A c \in 1..5 : Ends(u, k)[c] = Ends(t, k)[c]
      /\ Ends(u, k)[7] = Ends(t, k)[7]
  <2>1. Ends(u, k)[1] = Ends(t, k)[1]
    BY EndsAre, ContractionBefore
  <2>2. Ends(u, k)[2] = Ends(t, k)[2]
    BY EndsAre, WordBefore
  <2>3. Ends(u, k)[3] = Ends(t, k)[3]
    BY EndsAre, NumberBefore
  <2>4. Ends(u, k)[4] = Ends(t, k)[4]
    BY EndsAre, PunctuationBefore
  <2>5. Ends(u, k)[5] = Ends(t, k)[5]
    BY EndsAre, NewlinesBefore
  <2>6. Ends(u, k)[7] = Ends(t, k)[7]
    BY EndsAre, SpacesBefore
  <2>7. \A c \in 1..5 : c = 1 \/ c = 2 \/ c = 3 \/ c = 4 \/ c = 5
    OBVIOUS
  <2> QED BY <2>1, <2>2, <2>3, <2>4, <2>5, <2>6, <2>7
<1>4. b > 5 => Ends(u, k)[6] = Ends(t, k)[6]
  <2> SUFFICES ASSUME b > 5 PROVE Ends(u, k)[6] = Ends(t, k)[6]
    OBVIOUS
  <2>1. 5 \in 1..(b - 1)
    OBVIOUS
  <2>2. Newlines(t, k) = k
    BY <1>2, <2>1, EndsAre DEF IsFirst
  <2>3. RunEnd(t, k, Space) # i
    BY <2>2, NewlinesBefore
  <2> QED BY <2>3, SpacesBefore, EndsAre
<1>5. \A c \in 1..b : Ends(u, k)[c] = Ends(t, k)[c]
  <2> SUFFICES ASSUME NEW c \in 1..b PROVE Ends(u, k)[c] = Ends(t, k)[c]
    OBVIOUS
  <2>1. c \in 1..5 \/ (c = 6 /\ b > 5) \/ c = 7
    BY <1>2
  <2> QED BY <1>3, <1>4, <2>1
<1>6. IsFirst(u, k, b)
  <2>1. b \in 1..b /\ \A c \in 1..(b - 1) : c \in 1..b
    BY <1>2
  <2> QED BY <1>2, <1>5, <2>1 DEF IsFirst
<1>7. MatchEnd(t, k) = Ends(t, k)[b]
  BY <1>1, <1>2, MatchIs
<1>8. MatchEnd(u, k) = Ends(u, k)[b] /\ MatchEnd(u, k) \in (k + 1)..(Len(u) + 1)
  BY <1>1, <1>6, MatchIs
<1>9. Ends(u, k)[b] = Ends(t, k)[b]
  BY <1>2, <1>5
<1> QED BY <1>1, <1>7, <1>8, <1>9

\* A match that begins after the cut is one of the second half.
LEMMA MatchAfter ==
  ASSUME NEW t \in Text, NEW w, NEW d, After(t, w, d), NEW k \in 1..Len(w)
  PROVE  MatchEnd(t, d + k) = d + MatchEnd(w, k)
<1>1. d \in Nat /\ w \in Text /\ Len(w) \in Nat /\ Len(t) \in Nat /\ Len(t) = d + Len(w) /\ k \in Nat
  BY RestIs
<1>2. PICK a \in Nat : a = d + k
  BY <1>1
<1>3. a \in 1..Len(t)
  BY <1>1, <1>2
<1>4. PICK b \in 1..7 : IsFirst(w, k, b)
  BY <1>1, SomeFirst
<1>5. \A c \in 1..7 : Ends(t, a)[c] = d + Ends(w, k)[c] /\ Ends(w, k)[c] \in k..(Len(w) + 1)
  BY <1>2, EndsAfter
<1>6. IsFirst(t, a, b)
  <2>1. Ends(t, a)[b] > a
    <3>1. Ends(w, k)[b] > k
      BY <1>4 DEF IsFirst
    <3>2. PICK e : e = Ends(w, k)[b] /\ e \in k..(Len(w) + 1) /\ Ends(t, a)[b] = d + e
      BY <1>5
    <3>3. e \in Nat /\ e > k
      BY <1>1, <3>1, <3>2
    <3>4. d + e > a
      BY <1>1, <1>2, <3>3
    <3> QED BY <3>2, <3>4
  <2>2. ASSUME NEW c \in 1..(b - 1) PROVE Ends(t, a)[c] = a
    <3>1. Ends(w, k)[c] = k /\ c \in 1..7
      BY <1>4 DEF IsFirst
    <3> QED BY <1>2, <1>5, <3>1
  <2> QED BY <2>1, <2>2 DEF IsFirst
<1>7. MatchEnd(t, a) = Ends(t, a)[b]
  BY <1>3, <1>6, MatchIs
<1>8. MatchEnd(w, k) = Ends(w, k)[b]
  BY <1>1, <1>4, MatchIs
<1> QED BY <1>2, <1>5, <1>7, <1>8

-----------------------------------------------------------------------------
(* The pieces.  from in PieceStarts is a function defined by recursion; that *)
(* there is one follows from a closed form of it, and from there on only its *)
(* equation is used.                                                         *)

\* Downward induction, over a set.
LEMMA Downward ==
  ASSUME NEW n \in Nat, NEW Good \in SUBSET (1..n),
         \A k \in 1..n : (\A m \in (k + 1)..n : m \in Good) => k \in Good
  PROVE  Good = 1..n
<1> DEFINE Left == {n - k : k \in (1..n) \ Good}
<1>1. SUFFICES ASSUME (1..n) \ Good # {} PROVE FALSE
  OBVIOUS
<1>2. Left \in SUBSET Nat /\ Left # {}
  BY <1>1
<1> HIDE DEF Left
<1>3. PICK x \in Left : \A y \in Left : x <= y
  BY <1>2, LeastNat
<1> USE DEF Left
<1>4. PICK k \in (1..n) \ Good : x = n - k
  BY <1>3
<1>5. ASSUME NEW m \in (k + 1)..n PROVE m \in Good
  <2> SUFFICES ASSUME m \notin Good PROVE FALSE
    OBVIOUS
  <2>1. m \in 1..n /\ m > k /\ k \in Nat /\ m \in Nat
    BY <1>4
  <2>2. PICK y : y = n - m /\ y \in Left
    BY <2>1
  <2>3. x <= y
    BY <1>3, <2>2
  <2> QED BY <1>4, <2>1, <2>2, <2>3
<1> QED BY <1>4, <1>5

\* With an offset of a match, its end.
Closed(t, S) == \A m \in S : m <= Len(t) => MatchEnd(t, m) \in S

\* The offsets that every closed set with k in it has.
Reach(t, k) ==
  {j \in 1..Len(t) : \A S \in SUBSET (1..(Len(t) + 1)) : k \in S /\ Closed(t, S) => j \in S}

\* Reach satisfies the equation of from.
LEMMA ReachIs ==
  ASSUME NEW t \in Text, NEW k \in 1..(Len(t) + 1)
  PROVE  Reach(t, k) = IF k > Len(t) THEN {} ELSE {k} \cup Reach(t, MatchEnd(t, k))
<1>1. Len(t) \in Nat /\ k \in Nat
  BY ItsOwnRest
<1>2. CASE k > Len(t)
  <2>1. {k} \in SUBSET (1..(Len(t) + 1)) /\ Closed(t, {k})
    BY <1>1, <1>2 DEF Closed
  <2>2. \A j \in Reach(t, k) : j \in {k} /\ j \in 1..Len(t)
    BY <2>1 DEF Reach
  <2>3. Reach(t, k) = {}
    BY <1>1, <1>2, <2>2
  <2> QED BY <1>2, <2>3
<1>3. CASE ~(k > Len(t))
  <2>1. k \in 1..Len(t)
    BY <1>1, <1>3
  <2>2. PICK e : e = MatchEnd(t, k) /\ e \in 1..(Len(t) + 1)
    <3>1. MatchEnd(t, k) \in (k + 1)..(Len(t) + 1)
      BY <2>1, MatchFrom
    <3> QED BY <1>1, <3>1
  <2>3. ASSUME NEW j \in Reach(t, k), j # k PROVE j \in Reach(t, e)
    <3> SUFFICES ASSUME NEW S \in SUBSET (1..(Len(t) + 1)), e \in S, Closed(t, S)
                 PROVE  j \in S
      BY DEF Reach
    <3>1. S \cup {k} \in SUBSET (1..(Len(t) + 1)) /\ k \in S \cup {k}
      OBVIOUS
    <3>2. Closed(t, S \cup {k})
      BY <2>2 DEF Closed
    <3>3. j \in S \cup {k}
      BY <3>1, <3>2 DEF Reach
    <3> QED BY <2>3, <3>3
  <2>4. ASSUME NEW j \in Reach(t, e) PROVE j \in Reach(t, k)
    <3> SUFFICES ASSUME NEW S \in SUBSET (1..(Len(t) + 1)), k \in S, Closed(t, S)
                 PROVE  j \in S
      BY <2>4 DEF Reach
    <3>1. e \in S
      BY <1>1, <2>1, <2>2 DEF Closed
    <3> QED BY <2>4, <3>1 DEF Reach
  <2>5. k \in Reach(t, k)
    BY <2>1 DEF Reach
  <2>6. Reach(t, k) = {k} \cup Reach(t, e)
    BY <2>3, <2>4, <2>5
  <2> QED BY <1>3, <2>2, <2>6
<1> QED BY <1>2, <1>3

\* The equation of from.
IsFrom(t, f) ==
  f = [i \in 1..(Len(t) + 1) |-> IF i > Len(t) THEN {} ELSE {i} \cup f[MatchEnd(t, i)]]

\* from is a function, and has its equation.
LEMMA FromExists ==
  ASSUME NEW t \in Text
  PROVE  \E f : IsFrom(t, f) /\ PieceStarts(t) = f[1]
<1> DEFINE f == [i \in 1..(Len(t) + 1) |-> Reach(t, i)]
           from == CHOOSE g : IsFrom(t, g)
<1>1. Len(t) \in Nat
  BY ItsOwnRest
<1>2. ASSUME NEW i \in 1..(Len(t) + 1)
      PROVE  f[i] = IF i > Len(t) THEN {} ELSE {i} \cup f[MatchEnd(t, i)]
  <2>1. CASE i > Len(t)
    BY <2>1, ReachIs
  <2>2. CASE ~(i > Len(t))
    <3>1. i \in 1..Len(t)
      BY <1>1, <2>2
    <3>2. MatchEnd(t, i) \in 1..(Len(t) + 1)
      <4>1. MatchEnd(t, i) \in (i + 1)..(Len(t) + 1)
        BY <3>1, MatchFrom
      <4> QED BY <1>1, <4>1
    <3>3. f[MatchEnd(t, i)] = Reach(t, MatchEnd(t, i))
      BY <3>2
    <3> QED BY <2>2, <3>3, ReachIs
  <2> QED BY <2>1, <2>2
<1>3. IsFrom(t, f)
  <2>1. DOMAIN f = 1..(Len(t) + 1)
    OBVIOUS
  <2> HIDE DEF f
  <2>2. f = [i \in 1..(Len(t) + 1) |-> f[i]]
    BY <2>1 DEF f
  <2> QED BY <1>2, <2>2 DEF IsFrom
<1>4. IsFrom(t, from)
  <2> HIDE DEF f
  <2> QED BY <1>3
<1>5. PieceStarts(t) = from[1]
  BY DEF PieceStarts, IsFrom
<1> HIDE DEF from
<1> QED BY <1>4, <1>5

\* The equation, at one place.
LEMMA FromIs ==
  ASSUME NEW t \in Text, NEW f, IsFrom(t, f), NEW i \in 1..(Len(t) + 1)
  PROVE  f[i] = IF i > Len(t) THEN {} ELSE {i} \cup f[MatchEnd(t, i)]
<1>1. f = [j \in 1..(Len(t) + 1) |-> IF j > Len(t) THEN {} ELSE {j} \cup f[MatchEnd(t, j)]]
  BY DEF IsFrom
<1> QED BY <1>1

\* The same, before the end of the text.
LEMMA FromStep ==
  ASSUME NEW t \in Text, NEW f, IsFrom(t, f), NEW i \in 1..Len(t)
  PROVE  f[i] = {i} \cup f[MatchEnd(t, i)]
<1>1. Len(t) \in Nat /\ i \in 1..(Len(t) + 1) /\ ~(i > Len(t))
  BY ItsOwnRest
<1> QED BY <1>1, FromIs

\* S, d further on.
Shift(d, S) == {d + j : j \in S}

\* From the cut on, the pieces of the text are those of the second half.
LEMMA PiecesAfter ==
  ASSUME NEW t \in Text, NEW w, NEW d, After(t, w, d),
         NEW f, IsFrom(t, f), NEW g, IsFrom(w, g)
  PROVE  f[d + 1] = Shift(d, g[1])
<1>1. d \in Nat /\ w \in Text /\ Len(w) \in Nat /\ Len(t) \in Nat /\ Len(t) = d + Len(w)
  BY RestIs
<1>2. PICK n \in Nat : n = Len(w) + 1
  BY <1>1
<1> DEFINE Good == {k \in 1..n : f[d + k] = Shift(d, g[k])}
<1>3. ASSUME NEW k \in 1..n, \A m \in (k + 1)..n : m \in Good PROVE k \in Good
  <2>1. PICK a \in Nat : a = d + k
    BY <1>1
  <2>2. a \in 1..(Len(t) + 1) /\ k \in 1..(Len(w) + 1) /\ (a > Len(t) <=> k > Len(w))
    BY <1>1, <1>2, <2>1
  <2>3. CASE k > Len(w)
    <3>1. f[a] = {} /\ g[k] = {}
      BY <1>1, <2>2, <2>3, FromIs
    <3>2. f[d + k] = Shift(d, g[k])
      BY <2>1, <3>1 DEF Shift
    <3> QED BY <3>2
  <2>4. CASE ~(k > Len(w))
    <3>1. k \in 1..Len(w)
      BY <1>1, <2>2, <2>4
    <3>2. PICK e : e = MatchEnd(w, k) /\ e \in (k + 1)..n
      BY <1>1, <1>2, <3>1, MatchFrom
    <3>3. MatchEnd(t, a) = d + e
      BY <2>1, <3>1, <3>2, MatchAfter
    <3>4. f[d + e] = Shift(d, g[e])
      BY <1>3, <3>2
    <3>5. f[a] = {a} \cup f[d + e]
      <4>1. a \in 1..Len(t)
        BY <1>1, <2>2, <2>4
      <4> QED BY <3>3, <4>1, FromStep
    <3>6. g[k] = {k} \cup g[e]
      BY <1>1, <3>1, <3>2, FromStep
    <3>7. Shift(d, {k} \cup g[e]) = {d + k} \cup Shift(d, g[e])
      BY DEF Shift
    <3>8. f[d + k] = Shift(d, g[k])
      BY <2>1, <3>4, <3>5, <3>6, <3>7
    <3> QED BY <3>8
  <2> QED BY <2>3, <2>4
<1>4. Good \in SUBSET (1..n)
  OBVIOUS
<1>5. Good = 1..n
  <2> HIDE DEF Good
  <2> QED BY <1>3, <1>4, Downward
<1>6. 1 \in 1..n
  BY <1>1, <1>2
<1> QED BY <1>5, <1>6

\* Up to the cut they are those of the first half, and one begins at the cut.
LEMMA PiecesBefore ==
  ASSUME NEW t \in Text, NEW u, NEW i, Before(t, u, i),
         NEW f, IsFrom(t, f), NEW g, IsFrom(u, g)
  PROVE  f[1] = g[1] \cup f[i]
<1>1. /\ Len(t) \in Nat /\ i \in Nat /\ 2 <= i /\ i <= Len(t) /\ u \in Text /\ Len(u) = i - 1
  BY CutIs
<1> DEFINE Good == {k \in 1..i : f[k] = g[k] \cup f[i]}
<1>2. ASSUME NEW k \in 1..i, \A m \in (k + 1)..i : m \in Good PROVE k \in Good
  <2>1. k \in 1..(Len(t) + 1) /\ k \in 1..(Len(u) + 1) /\ k \in Nat /\ k <= i
    BY <1>1
  <2>2. CASE k = i
    <3>1. k > Len(u)
      BY <1>1, <2>2
    <3>2. g[k] = {}
      BY <1>1, <2>1, <3>1, FromIs
    <3> QED BY <2>2, <3>2
  <2>3. CASE k # i
    <3>1. k \in 1..(i - 1) /\ k \in 1..Len(t) /\ k \in 1..Len(u)
      BY <1>1, <2>1, <2>3
    <3>2. PICK e : e = MatchEnd(t, k) /\ e = MatchEnd(u, k) /\ e \in (k + 1)..i
      BY <3>1, MatchBefore
    <3>3. f[k] = {k} \cup f[MatchEnd(t, k)]
      BY <3>1, FromStep
    <3>4. g[k] = {k} \cup g[e]
      BY <1>1, <3>1, <3>2, FromStep
    <3>5. f[e] = g[e] \cup f[i]
      BY <1>2, <3>2
    <3>6. f[k] = g[k] \cup f[i]
      BY <3>2, <3>3, <3>4, <3>5
    <3> QED BY <3>6
  <2> QED BY <2>2, <2>3
<1>3. Good \in SUBSET (1..i)
  OBVIOUS
<1>4. Good = 1..i
  <2> HIDE DEF Good
  <2> QED BY <1>1, <1>2, <1>3, Downward
<1>5. 1 \in 1..i
  BY <1>1
<1> QED BY <1>4, <1>5

-----------------------------------------------------------------------------
(* The rule.                                                                 *)

\* Where the rule allows a cut, SubSeq makes the two halves.
LEMMA CutHalves ==
  ASSUME NEW t \in Text, NEW i \in 2..Len(t), Boundary(t, i), t[i] # VTab
  PROVE  /\ Before(t, SubSeq(t, 1, i - 1), i)
         /\ After(t, SubSeq(t, i, Len(t)), i - 1)
<1>1. Len(t) \in Nat /\ i \in Nat /\ 2 <= i /\ i <= Len(t)
  BY ItsOwnRest
<1>2. t[i - 1] = NL /\ SafeNext(t[i])
  BY DEF Boundary
<1>3. t[i] \notin Space \cup {"/"}
  BY <1>2 DEF SafeNext, Space
<1>4. PICK u : u = SubSeq(t, 1, i - 1)
  OBVIOUS
<1>5. u \in Text /\ Len(u) = i - 1 /\ \A k \in 1..(i - 1) : u[k] = t[k]
  <2>1. 1 \in 1..(Len(t) + 1) /\ i - 1 \in 0..Len(t)
    BY <1>1
  <2> QED BY <1>1, <1>4, <2>1, SubSeqProperties DEF Text
<1>6. PICK w : w = SubSeq(t, i, Len(t))
  OBVIOUS
<1>7. PICK d \in Nat : d = i - 1
  BY <1>1
<1>8. /\ w \in Text /\ Len(w) = Len(t) - i + 1
      /\ \A k \in 1..(Len(t) - i + 1) : w[k] = t[i + k - 1]
  BY <1>1, <1>6, SubSeqProperties DEF Text
<1>9. Len(t) = d + Len(w) /\ \A k \in 1..Len(w) : t[d + k] = w[k]
  <2>1. Len(t) = d + Len(w)
    BY <1>1, <1>7, <1>8
  <2>2. ASSUME NEW k \in 1..Len(w) PROVE t[d + k] = w[k]
    <3>1. k \in 1..(Len(t) - i + 1) /\ d + k = i + k - 1
      BY <1>1, <1>7, <1>8
    <3> QED BY <1>8, <3>1
  <2> QED BY <2>1, <2>2
<1>10. Before(t, u, i)
  BY <1>2, <1>3, <1>5 DEF Before
<1>11. After(t, w, d)
  BY <1>8, <1>9 DEF After
<1> QED BY <1>4, <1>6, <1>7, <1>10, <1>11

\* A cut the rule allows keeps the pieces, for one text of any length.
LEMMA CutIsSound ==
  ASSUME NEW t \in Text, NEW i \in 2..Len(t), Boundary(t, i), t[i] # VTab
  PROVE  PieceStarts(t) =
           PieceStarts(SubSeq(t, 1, i - 1))
             \cup {i - 1 + j : j \in PieceStarts(SubSeq(t, i, Len(t)))}
<1>1. PICK u : u = SubSeq(t, 1, i - 1) /\ Before(t, u, i)
  BY CutHalves
<1>2. PICK d : d = i - 1
  OBVIOUS
<1>3. PICK w : w = SubSeq(t, i, Len(t)) /\ After(t, w, d)
  BY <1>2, CutHalves
<1>4. u \in Text /\ i \in Nat /\ 2 <= i
  BY <1>1, CutIs
<1>5. w \in Text /\ Len(w) \in Nat
  BY <1>3, RestIs
<1>6. PICK f : IsFrom(t, f) /\ PieceStarts(t) = f[1]
  BY FromExists
<1>7. PICK g : IsFrom(u, g) /\ PieceStarts(u) = g[1]
  BY <1>4, FromExists
<1>8. PICK h : IsFrom(w, h) /\ PieceStarts(w) = h[1]
  BY <1>5, FromExists
<1>9. f[1] = g[1] \cup f[i]
  BY <1>1, <1>6, <1>7, PiecesBefore
<1>10. f[i] = Shift(d, h[1])
  <2>1. d + 1 = i
    BY <1>2, <1>4
  <2>2. f[d + 1] = Shift(d, h[1])
    BY <1>3, <1>6, <1>8, PiecesAfter
  <2> QED BY <2>1, <2>2
<1>11. PieceStarts(t) = PieceStarts(u) \cup Shift(d, PieceStarts(w))
  BY <1>6, <1>7, <1>8, <1>9, <1>10
<1> QED BY <1>1, <1>2, <1>3, <1>11 DEF Shift

-----------------------------------------------------------------------------
(* Tokens.                                                                   *)

\* Pieces begin in the text.
LEMMA PiecesInText ==
  ASSUME NEW t \in Text
  PROVE  PieceStarts(t) \subseteq 1..Len(t)
<1>1. Len(t) \in Nat
  BY ItsOwnRest
<1>2. PICK f : IsFrom(t, f) /\ PieceStarts(t) = f[1]
  BY FromExists
<1>3. PICK n \in Nat : n = Len(t) + 1
  BY <1>1
<1> DEFINE Good == {k \in 1..n : f[k] \subseteq 1..Len(t)}
<1>4. ASSUME NEW k \in 1..n, \A m \in (k + 1)..n : m \in Good PROVE k \in Good
  <2>1. CASE k > Len(t)
    <3>1. f[k] = {}
      BY <1>2, <1>3, <2>1, FromIs
    <3> QED BY <3>1
  <2>2. CASE ~(k > Len(t))
    <3>1. k \in 1..Len(t)
      BY <1>1, <1>3, <2>2
    <3>2. PICK e : e = MatchEnd(t, k) /\ e \in (k + 1)..n
      BY <1>3, <3>1, MatchFrom
    <3>3. f[k] = {k} \cup f[e]
      BY <1>2, <3>1, <3>2, FromStep
    <3>4. f[e] \subseteq 1..Len(t)
      BY <1>4, <3>2
    <3> QED BY <3>1, <3>3, <3>4
  <2> QED BY <2>1, <2>2
<1>5. Good \in SUBSET (1..n)
  OBVIOUS
<1>6. Good = 1..n
  <2> HIDE DEF Good
  <2> QED BY <1>4, <1>5, Downward
<1>7. 1 \in 1..n
  BY <1>1, <1>3
<1> QED BY <1>2, <1>6, <1>7

\* A piece has the characters from its start to the end of its match.
LEMMA PieceIs ==
  ASSUME NEW t \in Text, NEW a \in 1..Len(t), NEW e, e = MatchEnd(t, a)
  PROVE  /\ e \in (a + 1)..(Len(t) + 1)
         /\ Piece(t, a) \in Text /\ Len(Piece(t, a)) = e - a
         /\ \A k \in 1..(e - a) : Piece(t, a)[k] = t[a + k - 1]
<1>1. Len(t) \in Nat /\ e \in (a + 1)..(Len(t) + 1)
  BY ItsOwnRest, MatchFrom
<1>2. PICK b : b = e - 1 /\ b \in 0..Len(t) /\ b - a + 1 = e - a /\ a <= b + 1
  BY <1>1
<1>3. Piece(t, a) = SubSeq(t, a, b)
  BY <1>2 DEF Piece
<1>4. a \in 1..(Len(t) + 1)
  BY <1>1
<1>5. /\ SubSeq(t, a, b) \in Seq(Chars)
      /\ Len(SubSeq(t, a, b)) = IF a <= b THEN b - a + 1 ELSE 0
      /\ \A k \in 1..(b - a + 1) : SubSeq(t, a, b)[k] = t[a + k - 1]
  BY <1>2, <1>4, SubSeqProperties DEF Text
<1> QED BY <1>1, <1>2, <1>3, <1>5 DEF Text

\* The match at a has n characters.
Matches(t, a, n) == MatchEnd(t, a) = a + n

\* The n characters from a on are those of u from b on.
SameChars(t, a, u, b, n) == \A k \in 1..n : t[a + k - 1] = u[b + k - 1]

\* So equal matches of equal characters are equal pieces.
LEMMA SamePiece ==
  ASSUME NEW t \in Text, NEW a \in 1..Len(t), NEW u \in Text, NEW b \in 1..Len(u),
         NEW n \in Nat, Matches(t, a, n), Matches(u, b, n), SameChars(t, a, u, b, n)
  PROVE  TokensOf(Piece(t, a)) = TokensOf(Piece(u, b))
<1>1. PICK p : p = Piece(t, a)
  OBVIOUS
<1>2. PICK q : q = Piece(u, b)
  OBVIOUS
<1>3. PICK e : e = MatchEnd(t, a) /\ e - a = n
  <2>1. (a + n) - a = n
    BY ItsOwnRest
  <2> QED BY <2>1 DEF Matches
<1>4. PICK g : g = MatchEnd(u, b) /\ g - b = n
  <2>1. (b + n) - b = n
    BY ItsOwnRest
  <2> QED BY <2>1 DEF Matches
<1>5. p \in Text /\ Len(p) = e - a /\ \A k \in 1..(e - a) : p[k] = t[a + k - 1]
  BY <1>1, <1>3, PieceIs
<1>6. q \in Text /\ Len(q) = g - b /\ \A k \in 1..(g - b) : q[k] = u[b + k - 1]
  BY <1>2, <1>4, PieceIs
<1>7. p \in Seq(Chars) /\ q \in Seq(Chars) /\ Len(p) = Len(q) /\ \A k \in 1..Len(p) : p[k] = q[k]
  BY <1>3, <1>4, <1>5, <1>6 DEF Text, SameChars
<1>8. p = q
  BY <1>7, SeqEqual
<1> QED BY <1>1, <1>2, <1>8

\* The tokens of a piece lie in the text.
LEMMA TokensInPiece ==
  ASSUME NEW t \in Text, NEW a \in 1..Len(t)
  PROVE  TokensAt(t, a) \subseteq a..(MatchEnd(t, a) - 1)
<1>1. PICK e : e = MatchEnd(t, a) /\ e \in (a + 1)..(Len(t) + 1) /\ Len(Piece(t, a)) = e - a
  BY PieceIs
<1>2. Len(t) \in Nat /\ a \in Nat /\ e \in Nat
  BY <1>1, ItsOwnRest
<1>3. ASSUME NEW k \in TokensOf(Piece(t, a)) PROVE a + k \in a..(e - 1)
  <2>1. k \in 0..((e - a) - 1)
    BY <1>1 DEF TokensOf
  <2> QED BY <1>2, <2>1
<1> QED BY <1>1, <1>3 DEF TokensAt

\* So do the tokens of all of them.
LEMMA TokensInText ==
  ASSUME NEW t \in Text
  PROVE  TokenStarts(t) \subseteq 1..Len(t)
<1>1. ASSUME NEW a \in PieceStarts(t) PROVE TokensAt(t, a) \subseteq 1..Len(t)
  <2>1. a \in 1..Len(t) /\ Len(t) \in Nat
    BY PiecesInText, ItsOwnRest
  <2>2. MatchEnd(t, a) \in (a + 1)..(Len(t) + 1)
    BY <2>1, MatchFrom
  <2>3. a..(MatchEnd(t, a) - 1) \subseteq 1..Len(t)
    BY <2>1, <2>2
  <2> QED BY <2>1, <2>3, TokensInPiece
<1> QED BY <1>1 DEF TokenStarts

\* The tokens of a piece before the cut are those of the first half's.
LEMMA TokensBefore ==
  ASSUME NEW t \in Text, NEW u, NEW i, Before(t, u, i), NEW a \in 1..(i - 1)
  PROVE  TokensAt(t, a) = TokensAt(u, a)
<1>1. /\ Len(t) \in Nat /\ i \in Nat /\ 2 <= i /\ i <= Len(t) /\ u \in Text /\ Len(u) = i - 1
  BY CutIs
<1>2. PICK e : e = MatchEnd(t, a) /\ e = MatchEnd(u, a) /\ e \in (a + 1)..i
  BY MatchBefore
<1>3. PICK n \in Nat : e = a + n
  <2>1. e - a \in Nat /\ e = a + (e - a)
    BY <1>1, <1>2
  <2> QED BY <2>1
<1>4. ASSUME NEW k \in 1..n PROVE t[a + k - 1] = u[a + k - 1]
  <2>1. a + k - 1 \in 1..(i - 1)
    BY <1>1, <1>2, <1>3
  <2> QED BY <2>1 DEF Before
<1>5. a \in 1..Len(t) /\ a \in 1..Len(u) /\ u \in Text
  BY <1>1
<1>6. Matches(t, a, n) /\ Matches(u, a, n) /\ SameChars(t, a, u, a, n)
  BY <1>2, <1>3, <1>4 DEF Matches, SameChars
<1>7. TokensOf(Piece(t, a)) = TokensOf(Piece(u, a))
  BY <1>5, <1>6, SamePiece
<1> QED BY <1>7 DEF TokensAt

\* And those of a piece after it are the second half's.
LEMMA TokensAfter ==
  ASSUME NEW t \in Text, NEW w, NEW d, After(t, w, d), NEW a \in 1..Len(w)
  PROVE  TokensAt(t, d + a) = Shift(d, TokensAt(w, a))
<1>1. /\ d \in Nat /\ w \in Text /\ Len(w) \in Nat /\ Len(t) \in Nat /\ Len(t) = d + Len(w)
      /\ \A k \in 1..Len(w) : t[d + k] = w[k]
  BY RestIs
<1>2. PICK b \in Nat : b = d + a
  BY <1>1
<1>3. PICK e : e = MatchEnd(w, a) /\ e \in (a + 1)..(Len(w) + 1) /\ MatchEnd(t, b) = d + e
  BY <1>1, <1>2, MatchFrom, MatchAfter
<1>4. PICK n \in Nat : e = a + n /\ d + e = b + n
  <2>1. e - a \in Nat /\ e = a + (e - a) /\ d + e = b + (e - a)
    BY <1>1, <1>2, <1>3
  <2> QED BY <2>1
<1>5. ASSUME NEW k \in 1..n PROVE t[b + k - 1] = w[a + k - 1]
  <2>1. PICK j \in Nat : j = a + k - 1 /\ j \in 1..Len(w) /\ b + k - 1 = d + j
    <3>1. a + k - 1 \in Nat /\ a + k - 1 \in 1..Len(w) /\ b + k - 1 = d + (a + k - 1)
      BY <1>1, <1>2, <1>3, <1>4
    <3> QED BY <3>1
  <2> QED BY <1>1, <2>1
<1>6. b \in 1..Len(t) /\ w \in Text
  BY <1>1, <1>2
<1>7. Matches(t, b, n) /\ Matches(w, a, n) /\ SameChars(t, b, w, a, n)
  BY <1>3, <1>4, <1>5 DEF Matches, SameChars
<1>8. PICK T : T = TokensOf(Piece(t, b)) /\ T = TokensOf(Piece(w, a))
  BY <1>6, <1>7, SamePiece
<1>9. T \subseteq Nat
  BY <1>8 DEF TokensOf
<1>10. \A k \in T : b + k = d + (a + k)
  BY <1>1, <1>2, <1>9
<1>11. TokensAt(t, b) = {b + k : k \in T} /\ TokensAt(w, a) = {a + k : k \in T}
  BY <1>8 DEF TokensAt
<1>12. {b + k : k \in T} = Shift(d, {a + k : k \in T})
  BY <1>10 DEF Shift
<1> QED BY <1>2, <1>11, <1>12

\* The tokens of the two halves are those of the text, and no two are at one
\* place.
LEMMA TokensSplit ==
  ASSUME NEW t \in Text, NEW i \in 2..Len(t), Boundary(t, i), t[i] # VTab
  PROVE  TokenStarts(t) =
           TokenStarts(SubSeq(t, 1, i - 1)) \cup Shift(i - 1, TokenStarts(SubSeq(t, i, Len(t))))
<1>1. PICK u : u = SubSeq(t, 1, i - 1) /\ Before(t, u, i)
  BY CutHalves
<1>2. PICK d : d = i - 1
  OBVIOUS
<1>3. PICK w : w = SubSeq(t, i, Len(t)) /\ After(t, w, d)
  BY <1>2, CutHalves
<1>4. u \in Text /\ Len(u) = i - 1 /\ w \in Text /\ d \in Nat
  BY <1>1, <1>3, CutIs, RestIs
<1>5. PICK P : P = PieceStarts(u) /\ P \subseteq 1..(i - 1)
  BY <1>4, PiecesInText
<1>6. PICK Q : Q = PieceStarts(w) /\ Q \subseteq 1..Len(w)
  BY <1>4, PiecesInText
<1>7. PieceStarts(t) = P \cup Shift(d, Q)
  BY <1>1, <1>2, <1>3, <1>5, <1>6, CutIsSound DEF Shift
<1>8. \A a \in P : TokensAt(t, a) = TokensAt(u, a)
  BY <1>1, <1>5, TokensBefore
<1>9. \A a \in Q : TokensAt(t, d + a) = Shift(d, TokensAt(w, a))
  BY <1>3, <1>6, TokensAfter
<1>10. ASSUME NEW x PROVE x \in TokenStarts(t) <=> x \in TokenStarts(u) \cup Shift(d, TokenStarts(w))
  <2>1. x \in TokenStarts(t) <=> \E a \in P \cup Shift(d, Q) : x \in TokensAt(t, a)
    BY <1>7 DEF TokenStarts
  <2>2. x \in TokenStarts(u) <=> \E a \in P : x \in TokensAt(t, a)
    BY <1>5, <1>8 DEF TokenStarts
  <2>3. x \in Shift(d, TokenStarts(w)) <=> \E a \in Q : x \in Shift(d, TokensAt(w, a))
    BY <1>6 DEF TokenStarts, Shift
  <2>4. (\E a \in Shift(d, Q) : x \in TokensAt(t, a)) <=> \E a \in Q : x \in TokensAt(t, d + a)
    BY DEF Shift
  <2>5. x \in Shift(d, TokenStarts(w)) <=> \E a \in Shift(d, Q) : x \in TokensAt(t, a)
    BY <1>9, <2>3, <2>4
  <2> QED BY <2>1, <2>2, <2>5
<1>11. TokenStarts(t) = TokenStarts(u) \cup Shift(d, TokenStarts(w))
  BY <1>10
<1> QED BY <1>1, <1>2, <1>3, <1>11

\* A shifted set has as many members.
LEMMA ShiftCardinality ==
  ASSUME NEW d \in Nat, NEW n \in Nat, NEW S \in SUBSET (1..n)
  PROVE  /\ IsFiniteSet(S) /\ IsFiniteSet(Shift(d, S)) /\ Cardinality(S) \in Nat
         /\ Cardinality(Shift(d, S)) = Cardinality(S)
         /\ Shift(d, S) \subseteq (d + 1)..(d + n)
<1>1. IsFiniteSet(S) /\ Cardinality(S) \in Nat
  <2>1. IsFiniteSet(1..n)
    BY FS_Interval
  <2> QED BY <2>1, FS_Subset, FS_CardinalityType
<1>2. PICK f : f = [j \in S |-> d + j]
  OBVIOUS
<1>3. f \in [S -> Shift(d, S)] /\ \A j \in S : f[j] = d + j
  BY <1>2 DEF Shift
<1>4. \A j, k \in S : f[j] = f[k] => j = k
  BY <1>3
<1>5. \A x \in Shift(d, S) : \E j \in S : f[j] = x
  BY <1>3 DEF Shift
<1>6. ExistsBijection(S, Shift(d, S))
  BY <1>3, <1>4, <1>5 DEF ExistsBijection, Bijection, Injection, Surjection, IsInjective
<1>7. Shift(d, S) \subseteq (d + 1)..(d + n)
  BY DEF Shift
<1> QED BY <1>1, <1>6, <1>7, FS_Bijection

\* So a cut the rule allows, except before a vertical tab, keeps the count: the
\* tokens of the two halves are as many as those of the text.
LEMMA CountSplits ==
  ASSUME NEW t \in Text, NEW i \in 2..Len(t), Boundary(t, i), t[i] # VTab
  PROVE  Cardinality(TokenStarts(t)) =
           Cardinality(TokenStarts(SubSeq(t, 1, i - 1)))
             + Cardinality(TokenStarts(SubSeq(t, i, Len(t))))
<1>1. PICK u : u = SubSeq(t, 1, i - 1) /\ Before(t, u, i)
  BY CutHalves
<1>2. PICK d \in Nat : d = i - 1
  BY ItsOwnRest
<1>3. PICK w : w = SubSeq(t, i, Len(t)) /\ After(t, w, d)
  BY <1>2, CutHalves
<1>4. u \in Text /\ Len(u) = d /\ w \in Text /\ Len(w) \in Nat
  BY <1>1, <1>2, <1>3, CutIs, RestIs
<1>5. PICK S : S = TokenStarts(u) /\ S \in SUBSET (1..d)
  BY <1>4, TokensInText
<1>6. PICK n \in Nat : n = Len(w)
  BY <1>4
<1>7. PICK T : T = TokenStarts(w) /\ T \in SUBSET (1..n)
  BY <1>4, <1>6, TokensInText
<1>8. TokenStarts(t) = S \cup Shift(d, T)
  BY <1>1, <1>2, <1>3, <1>5, <1>7, TokensSplit
<1>9. /\ IsFiniteSet(Shift(d, T)) /\ Cardinality(T) \in Nat /\ Cardinality(Shift(d, T)) = Cardinality(T)
      /\ Shift(d, T) \subseteq (d + 1)..(d + n)
  BY <1>7, ShiftCardinality
<1>10. IsFiniteSet(S) /\ Cardinality(S) \in Nat
  BY <1>5, ShiftCardinality
<1>11. S \cap Shift(d, T) = {}
  BY <1>5, <1>9
<1>12. Cardinality(S \cup Shift(d, T)) = Cardinality(S) + Cardinality(T) - Cardinality({})
  BY <1>9, <1>10, <1>11, FS_Union
<1>13. Cardinality(S \cup Shift(d, T)) = Cardinality(S) + Cardinality(T)
  BY <1>9, <1>10, <1>12, FS_EmptySet
<1> QED BY <1>1, <1>3, <1>5, <1>7, <1>8, <1>13

\* A text has at most as many tokens as characters.
LEMMA CountBound ==
  ASSUME NEW t \in Text
  PROVE  Cardinality(TokenStarts(t)) \in 0..Len(t)
<1>1. PICK n \in Nat : n = Len(t)
  BY ItsOwnRest
<1>2. TokenStarts(t) \in SUBSET (1..n)
  BY <1>1, TokensInText
<1>3. IsFiniteSet(1..n) /\ Cardinality(1..n) = n
  BY FS_Interval
<1>4. Cardinality(TokenStarts(t)) <= n /\ Cardinality(TokenStarts(t)) \in Nat
  BY <1>2, <1>3, FS_Subset, FS_CardinalityType
<1> QED BY <1>1, <1>4
=============================================================================
