---------------------------- MODULE MCTokenCount ----------------------------
(* TokenCount with small limits.                                             *)
EXTENDS TokenCount

MCChars == Space \cup Letter \cup Digit \cup Punct

\* A piece is one token: what cuts a piece in two shows in the count.
MCBegins(p, k) == FALSE

\* Short texts of every class (without a newline before its last character a
\* text has no cut), and longer ones of the classes the rule is about.
MCTexts ==
  UNION {[1..n -> MCChars] : n \in 0..3}
    \cup {t \in [1..4 -> MCChars] : \E i \in 1..3 : t[i] = NL}
    \cup [1..6 -> {NL, VTab, "a"}] \cup [1..6 -> {NL, ".", "/"}] \cup [1..7 -> {NL, "."}]
=============================================================================
