---------------------------- MODULE Pretokenizer ----------------------------
(***************************************************************************)
(* Where a text may be cut, crates/ctx-core/src/tokens.rs:                 *)
(* next_boundary_at_or_after and the argument in front of                  *)
(* safe_split_points.                                                      *)
(*                                                                         *)
(* The tokenizer first cuts a text into pieces, match after match of a     *)
(* regular expression, and no token reaches over the end of a piece.  Its  *)
(* two expressions are outside src/; they are modelled from what tokens.rs *)
(* quotes of them, as the end of the match at an offset.  TokenCount cuts  *)
(* at the offsets Boundary allows and counts the tokens of the pieces.     *)
(*                                                                         *)
(* Data abstraction.  A character is a member of the classes below: for    *)
(* the expressions and for the rule all members of a class are alike.      *)
(***************************************************************************)
EXTENDS Naturals, Sequences, FiniteSets

CONSTANTS
  Chars,       \* the classes the texts are made of
  Tokenizers,  \* which of the two vocabularies
  Begins(_, _) \* Begins(p, k): in piece p a token begins after the k-th character,
               \* whatever the merges of the vocabulary are

NL == "\n"       CR == "\r"      Blank == " "
VTab == "vtab"   \* U+000B: \s, but not is_ascii_whitespace
White == "white" \* the rest of \s, ASCII (tab, form feed) or not
Space == {NL, CR, Blank, VTab, White}
Upper == {"A"}
Lower == {"a", "s", "wide"}   \* "s" ends a contraction, "wide" is not ASCII
Letter == Upper \cup Lower
Digit == {"1"}
Punct == {"/", "'", "."}      \* [^\s\p{L}\p{N}]

ASSUME CharsAssumption == Chars \subseteq Space \cup Letter \cup Digit \cup Punct
ASSUME TokenizersAssumption == Tokenizers \subseteq {"o200k_base", "cl100k_base"}

VARIABLES
  tokenizer, \* TokenCounter.tokenizer
  text       \* text[i]: the class of character i, from 1

-----------------------------------------------------------------------------
(* The expressions.  Each branch answers the end of its match at i, or i.  *)

\* The end of the longest run of members of C from i on.
RunEnd(t, i, C) ==
  CHOOSE j \in i..(Len(t) + 1) :
    /\ \A k \in i..(j - 1) : t[k] \in C
    /\ j = Len(t) + 1 \/ t[j] \notin C

\* (?i:'s|'t|'re|...)
Contraction(t, i) ==
  IF i < Len(t) /\ t[i] = "'" /\ t[i + 1] = "s" THEN i + 2 ELSE i

\* [^\r\n\p{L}\p{N}]? and letters: o200k_base ends a word where lower case is
\* followed by upper case, and takes a contraction in.
Word(t, i) ==
  LET first == IF t[i] \in {NL, CR} \cup Letter \cup Digit THEN i ELSE i + 1
      last  == IF tokenizer = "o200k_base"
               THEN RunEnd(t, RunEnd(t, first, Upper), Lower)
               ELSE RunEnd(t, first, Letter)
  IN IF last = first THEN i
     ELSE IF tokenizer = "o200k_base" THEN Contraction(t, last) ELSE last

\* \p{N}{1,3}
Number(t, i) ==
  LET last == RunEnd(t, i, Digit) IN IF last > i + 3 THEN i + 3 ELSE last

\* ` ?[^\s\p{L}\p{N}]+[\r\n/]*`, and [\r\n]* at the end of cl100k_base's.
PunctTail == IF tokenizer = "o200k_base" THEN {CR, NL, "/"} ELSE {CR, NL}
Punctuation(t, i) ==
  LET first == IF t[i] = Blank THEN i + 1 ELSE i
      last  == RunEnd(t, first, Punct)
  IN IF last = first THEN i ELSE RunEnd(t, last, PunctTail)

\* \s*[\r\n]+
Newlines(t, i) ==
  LET ends == {j \in (i + 1)..RunEnd(t, i, Space) : t[j - 1] \in {CR, NL}}
  IN IF ends = {} THEN i ELSE CHOOSE j \in ends : \A k \in ends : k <= j

\* \s+(?!\S)
Trailing(t, i) ==
  LET last == RunEnd(t, i, Space) IN
  IF last = Len(t) + 1 \/ last = i THEN last ELSE last - 1

\* \s+
Spaces(t, i) == RunEnd(t, i, Space)

\* The first branch that matches, in the order of the expression.
MatchEnd(t, i) ==
  LET ends == <<IF tokenizer = "o200k_base" THEN i ELSE Contraction(t, i),
                Word(t, i), Number(t, i), Punctuation(t, i),
                Newlines(t, i), Trailing(t, i), Spaces(t, i)>>
  IN ends[CHOOSE b \in DOMAIN ends : ends[b] > i /\ \A c \in 1..(b - 1) : ends[c] = i]

\* Where the pieces of t begin.
PieceStarts(t) ==
  LET from[i \in 1..(Len(t) + 1)] ==
        IF i > Len(t) THEN {} ELSE {i} \cup from[MatchEnd(t, i)]
  IN from[1]

Piece(t, a) == SubSeq(t, a, MatchEnd(t, a) - 1)

\* How far into the piece p its tokens begin.
TokensOf(p) == {k \in 0..(Len(p) - 1) : k = 0 \/ Begins(p, k)}

\* Where the tokens of t begin: encode_ordinary makes them of each piece alone.
TokensAt(t, a) == {a + k : k \in TokensOf(Piece(t, a))}
TokenStarts(t) == UNION {TokensAt(t, a) : a \in PieceStarts(t)}

-----------------------------------------------------------------------------
(* The rule.                                                               *)

\* Fault variant for the checks: the rule in terms of white space alone.
SafeNextSlash(c) == c \notin {NL, CR, Blank, White, "wide"}

\* next < 0x80 && !is_ascii_whitespace && next != '/': "white" stands for tab
\* and form feed and for what is not ASCII, and a vertical tab passes.
SafeNext(c) == c \notin {NL, CR, Blank, White, "wide", "/"}

Boundary(t, i) == i \in 2..Len(t) /\ t[i - 1] = NL /\ SafeNext(t[i])

-----------------------------------------------------------------------------

\* The pieces of the two halves are the pieces of the text: "splitting
\* preserves the tokenization, not merely the count" (tokens.rs:171), for every
\* cut the rule allows but one: before a vertical tab, which is_ascii_whitespace
\* leaves out and \s contains (newline, vertical tab, newline is one match).
CutKeepsPieces ==
  \A i \in 2..Len(text) :
    Boundary(text, i) /\ text[i] # VTab =>
      PieceStarts(text) =
        PieceStarts(SubSeq(text, 1, i - 1))
          \cup {i - 1 + j : j \in PieceStarts(SubSeq(text, i, Len(text)))}
=============================================================================
