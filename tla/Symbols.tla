------------------------------ MODULE Symbols ------------------------------
(***************************************************************************)
(* Where a name is defined: the walk over the syntax tree,                 *)
(* crates/ctx-index/src/symbols.rs (extract_rust, walk), and the two ways  *)
(* the benchmark reads the text without a tree, crates/ctx-bench/src/bin/  *)
(* symbols.rs (definition_pattern, sample_symbols).                        *)
(*                                                                         *)
(* Data abstraction.  A source text is a sequence of lines, each with at   *)
(* most one item: its words up to the item's name, how deep it is nested,  *)
(* whether the item has a body, whether a closing parenthesis and a blank  *)
(* follow the name, and whether it is within code, within the text of a    *)
(* literal or a comment, or within the body of a macro: of the latter two  *)
(* the tree has no nodes.  Every text parses: extract_rust's answer for    *)
(* one that does not, no rows, and the nodes the parser makes up for       *)
(* malformed text are left out.                                            *)
(***************************************************************************)
EXTENDS Naturals, Sequences, FiniteSets, FiniteSetsExt, SequencesExt

CONSTANTS
  Names, \* the names, sorted as strings
  Short  \* words too short to be sampled

ASSUME NamesAssumption == Names \in Seq(Range(Names))

NoName == "none"

-----------------------------------------------------------------------------
(* The grammar.                                                            *)

Keywords == {"fn", "struct", "enum", "trait", "union", "type", "const", "static", "mod",
             "macro_rules!"}

\* The keyword that says what a line declares is the last one before the name:
\* "const fn f", "fn union".
KeywordAt(line) == Max({k \in 1..(Len(line.words) - 1) : line.words[k] \in Keywords \cup {"impl"}} \cup {0})
Keyword(line)   == IF KeywordAt(line) = 0 THEN NoName ELSE line.words[KeywordAt(line)]
NameOf(line)    == Last(line.words)

Parent(text, i) == Max({j \in 1..(i - 1) : text[j].depth < text[i].depth} \cup {0})
InTrait(text, i) == Parent(text, i) # 0 /\ Keyword(text[Parent(text, i)]) = "trait"

IsItem(line) == line.within = "code" /\ line.words[1] # "//" /\ Keyword(line) # NoName

\* What the grammar says of a text: only modifiers precede impl.
IsText(text) ==
  /\ text \in Seq(Range(text))
  /\ \A line \in Range(text) :
       /\ line.depth \in Nat /\ line.words \in Seq(Range(line.words))
       /\ line.within \in {"code", "text", "macro"}
       /\ IsItem(line) => \A i, j \in DOMAIN line.words :
                            i < j /\ line.words[j] = "impl" => line.words[i] \notin Keywords

\* The node that begins on line i of text.
Node(text, i) ==
  LET kw == Keyword(text[i]) IN
  IF ~IsItem(text[i]) THEN "other"
  ELSE IF kw = "fn" THEN IF text[i].body THEN "function_item" ELSE "function_signature_item"
  ELSE IF kw = "type" THEN IF InTrait(text, i) THEN "associated_type" ELSE "type_item"
  ELSE IF kw = "macro_rules!" THEN "macro_definition"
  ELSE [struct |-> "struct_item", enum |-> "enum_item", trait |-> "trait_item",
        union |-> "union_item", const |-> "const_item", static |-> "static_item",
        mod |-> "mod_item", impl |-> "impl_item"][kw]

-----------------------------------------------------------------------------
(* extract_rust.                                                           *)

\* Fault variant for the checks: the walk before associated types were found.
DeclaresNoAssociated ==
  [function_item |-> "fn", function_signature_item |-> "fn", struct_item |-> "struct",
   enum_item |-> "enum", trait_item |-> "trait", union_item |-> "union",
   type_item |-> "type", const_item |-> "const", static_item |-> "static",
   mod_item |-> "mod", macro_definition |-> "macro"]

\* What each kind of node declares, as SymbolKind::as_str names it.
Declares ==
  [function_item |-> "fn", function_signature_item |-> "fn", struct_item |-> "struct",
   enum_item |-> "enum", trait_item |-> "trait", union_item |-> "union",
   type_item |-> "type", associated_type |-> "type", const_item |-> "const",
   static_item |-> "static", mod_item |-> "mod", macro_definition |-> "macro"]

\* SymbolKind::from_str, which takes what it does not know for a function.
KindFrom(s) ==
  IF s \in {"struct", "enum", "trait", "union", "type", "const", "static", "mod", "macro", "impl"}
  THEN s ELSE "fn"

\* Fault variant for the checks: what is no scope of its own hides the outer one.
NextContainerNone(text) ==
  [i \in 0..Len(text) |->
     IF i # 0 /\ Node(text, i) \in {"impl_item", "trait_item", "mod_item"}
     THEN NameOf(text[i]) ELSE NoName]

\* walk's next_container, for the children of each line; line 0 is the file.
NextContainer(text) ==
  LET next[i \in 0..Len(text)] ==
        IF i = 0 THEN NoName
        ELSE IF Node(text, i) \in {"impl_item", "trait_item", "mod_item"} THEN NameOf(text[i])
        ELSE next[Parent(text, i)]
  IN next

\* The rows extract_rust gives of a text.
Extract(text) ==
  {[name |-> NameOf(text[i]), kind |-> Declares[Node(text, i)], line |-> i,
    container |-> NextContainer(text)[Parent(text, i)]] :
   i \in {j \in DOMAIN text : Node(text, j) \in DOMAIN Declares}}

-----------------------------------------------------------------------------
(* The text alone.                                                         *)

\* The modifiers of definition_pattern, each at most once and in its order.
PatternOrder == <<{"pub", "pub(crate)"}, {"default"}, {"async"}, {"unsafe"}, {"extern"}>>
Rank(word)   == Max({k \in DOMAIN PatternOrder : word \in PatternOrder[k]} \cup {0})

\* definition_pattern(name) matches the line.
Matches(line, name) ==
  \E k \in 1..(Len(line.words) - 1) :
    /\ line.words[k] \in Keywords /\ line.words[k + 1] = name
    /\ \A j \in 1..(k - 1) : Rank(line.words[j]) # 0
    /\ \A i, j \in 1..(k - 1) : i < j => Rank(line.words[i]) < Rank(line.words[j])

ScanKeywords == Keywords \ {"mod", "macro_rules!"}

\* What the scan looks at: the line without "pub ", then what follows the first
\* ") " of it, which comes after the name or after "pub(crate".
Remainder(line) ==
  LET words == IF line.words[1] = "pub" THEN Tail(line.words) ELSE line.words
      cuts  == {k \in DOMAIN words : words[k] = "pub(crate)" \/ (line.closed /\ k = Len(words))}
  IN IF cuts = {} THEN words ELSE SubSeq(words, Min(cuts) + 1, Len(words))

\* The names the scan takes from a text; every line is code to it.
Candidates(text) ==
  {Remainder(line)[2] :
     line \in {l \in Range(text) :
       /\ l.words[1] # "//"
       /\ Len(Remainder(l)) >= 2 /\ Remainder(l)[1] \in ScanKeywords /\ Remainder(l)[2] \notin Short}}

\* Fault variant for the checks: the stride is rounded up.
StrideUp(n, want) == (n + want - 1) \div want

Stride(n, want) == n \div want

\* step_by(stride).take(want), of a sorted list that is longer than want.
Strided(all, stride, want) ==
  LET steps == (Len(all) + stride - 1) \div stride IN
  [k \in 1..Min({steps, want}) |-> all[(k - 1) * stride + 1]]

\* A BTreeSet of names, iterated.
Sorted(S) ==
  LET at == {i \in DOMAIN Names : Names[i] \in S} IN
  [k \in 1..Cardinality(at) |-> Names[CHOOSE i \in at : Cardinality({j \in at : j <= i}) = k]]

\* sample_symbols, for want > 0 unless there is nothing to sample.
Sample(candidates, want) ==
  LET all == Sorted(candidates) IN
  IF Len(all) <= want THEN all ELSE Strided(all, Stride(Len(all), want), want)

-----------------------------------------------------------------------------
(* What a reader of the text takes for a definition.                       *)

\* The scopes around line i: the lines with a body that holds it.
Encloses(text, j, i) == j < i /\ \A k \in (j + 1)..i : text[j].depth < text[k].depth
Scopes(text, i) ==
  {j \in DOMAIN text : /\ Encloses(text, j, i) /\ IsItem(text[j])
                       /\ Keyword(text[j]) \in {"impl", "trait", "mod"}}

\* Every item is defined where its keyword and its name are, in the nearest
\* impl, trait or mod around it.
Defined(text) ==
  {[name |-> NameOf(text[i]),
    kind |-> IF Keyword(text[i]) = "macro_rules!" THEN "macro" ELSE Keyword(text[i]),
    line |-> i,
    container |-> IF Scopes(text, i) = {} THEN NoName ELSE NameOf(text[Max(Scopes(text, i))])] :
   i \in {j \in DOMAIN text : IsItem(text[j]) /\ Keyword(text[j]) # "impl"}}
=============================================================================
