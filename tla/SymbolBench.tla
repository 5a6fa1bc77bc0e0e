---------------------------- MODULE SymbolBench ----------------------------
(***************************************************************************)
(* The symbol lookup benchmark, crates/ctx-bench/src/bin/symbols.rs: main  *)
(* and what it calls, over Symbols and the index of crates/ctx-index.      *)
(*                                                                         *)
(* For each repository there is, it samples names, builds an index twice,  *)
(* times ripgrep and the index on every name by turns, compares the sites  *)
(* they report, and writes all results at the very end.  An editor may     *)
(* change the repository meanwhile: ripgrep reads the files, the index its *)
(* rows.                                                                   *)
(*                                                                         *)
(* Data abstraction.  Of an answer only counts that it was given, and of a *)
(* result how many answers it stands for.  index_all is one step, with the *)
(* outcome SymbolIndex gives a pass that meets no other and no write.      *)
(* --out is given.                                                         *)
(***************************************************************************)
EXTENDS Symbols

CONSTANTS
  Tiers,    \* the repositories, in their order
  Place,    \* Place[f]: where file f is
  Gone,     \* no such file, no such row
  Repos,    \* what a repository may hold: functions from files to texts
  Wants,    \* --symbols
  Reps,     \* --reps
  Edits,    \* texts the editor may leave in a file
  Locked,   \* files that a pass of the index may find unreadable
  MaxEdits  \* bound: how often it changes one while a repository is measured

Files == DOMAIN Place

ASSUME PlaceAssumption == Range(Place) \subseteq {"plain", "hidden", "ignored", "target"}
ASSUME LockedAssumption == Locked \subseteq Files
ASSUME ReposAssumption == \A r \in Repos : DOMAIN r = Files
ASSUME TextsAssumption ==
  /\ \A r \in Repos : \A f \in Files : r[f] = Gone \/ IsText(r[f])
  /\ \A text \in Edits : IsText(text)
ASSUME BoundsAssumption == Wants \subseteq Nat /\ Reps \subseteq Nat /\ MaxEdits \in Nat

VARIABLES
  want, reps, \* the arguments
  tier,       \* the number of the repository being measured
  pc,
  disk,       \* disk[f]: the text of f, or Gone
  edits,      \* history: changes since the index was built for the last time
  sample,     \* the names measured
  index,      \* index[f]: the text whose rows the index holds, or Gone
  unread,     \* history: the files the last pass could not read
  parsed,     \* files_parsed of the two passes
  at,         \* where the timed loop is: the name and the repetition
  taken,      \* taken[arm]: number of answers pushed
  first,      \* history: how often each arm went first
  floor,      \* how often the spawn floor was measured
  agree,      \* how the answers compared, per name
  results, builds,
  out         \* the lines appended to --out

args    == <<want, reps>>
measure == <<sample, index, unread, parsed, at, taken, first, floor, agree>>
report  == <<results, builds, out>>
vars    == <<args, tier, pc, disk, edits, measure, report>>

Arms == {"baseline_ripgrep", "treatment_index"}

\* The locals of an iteration of main's loop, before it and after it.
Afresh ==
  /\ edits' = 0 /\ sample' = <<>> /\ index' = [f \in Files |-> Gone]
  /\ unread' = {} /\ parsed' = <<>>
  /\ at' = <<1, 0>> /\ taken' = [a \in Arms |-> 0] /\ first' = [a \in Arms |-> 0]
  /\ floor' = 0 /\ agree' = <<>>

Init ==
  /\ want \in Wants /\ reps \in Reps
  /\ tier = 1 /\ pc = "corpus" /\ disk = [f \in Files |-> Gone] /\ edits = 0
  /\ sample = <<>> /\ index = [f \in Files |-> Gone]
  /\ unread = {} /\ parsed = <<>>
  /\ at = <<1, 0>> /\ taken = [a \in Arms |-> 0] /\ first = [a \in Arms |-> 0]
  /\ floor = 0 /\ agree = <<>>
  /\ results = <<>> /\ builds = <<>> /\ out = <<>>

-----------------------------------------------------------------------------
(* Who reads which files, and what they answer.                            *)

Scanned(f)  == disk[f] # Gone /\ Place[f] # "target"
Searched(f) == disk[f] # Gone /\ Place[f] \in {"plain", "target"}
Indexed(f)  == disk[f] # Gone /\ Place[f] # "ignored"

\* find_definition: of every row of that name, the site, the kind and the
\* container.
Lookup(name) ==
  UNION {{[file |-> f, line |-> d.line, kind |-> KindFrom(d.kind), container |-> d.container] :
            d \in {e \in Extract(index[f]) : e.name = name}} : f \in {g \in Files : index[g] # Gone}}

IndexSites(name) == {<<d.file, d.line>> : d \in Lookup(name)}

\* rg_sites.
RgSites(name) ==
  UNION {{<<f, n>> : n \in {m \in DOMAIN disk[f] : Matches(disk[f][m], name)}} :
         f \in {g \in Files : Searched(g)}}

-----------------------------------------------------------------------------
(* One repository.                                                         *)

Leave == disk' = [f \in Files |-> Gone] /\ Afresh

\* A panic, or an error that main returns.
Fails == pc' = "failed" /\ Leave /\ UNCHANGED <<args, tier, results, builds>>

NextTier ==
  /\ IF tier < Len(Tiers) THEN tier' = tier + 1 /\ pc' = "corpus"
                          ELSE tier' = tier /\ pc' = "report"
  /\ Leave /\ UNCHANGED <<args, builds, out>>

SkipCorpus == pc = "corpus" /\ NextTier /\ UNCHANGED results

EnterCorpus ==
  /\ pc = "corpus" /\ pc' = "sample"
  /\ disk' \in Repos /\ Afresh
  /\ UNCHANGED <<args, tier, report>>

\* rust_files and sample_symbols: want = 0 divides by zero unless there is
\* nothing to sample.
TakeSample ==
  LET names == UNION {Candidates(disk[f]) : f \in {g \in Files : Scanned(g)}} IN
  /\ pc = "sample"
  /\ IF want = 0 /\ names # {} THEN Fails /\ UNCHANGED out
     ELSE /\ pc' = "build" /\ sample' = Sample(names, want)
          /\ UNCHANGED <<args, tier, disk, edits, index, unread, parsed, at, taken, first, floor, agree, report>>

\* index_all, twice: what has changed since the last pass is parsed.  A file that
\* cannot be read is passed over and keeps the rows it has.
IndexAll ==
  /\ pc = "build" /\ pc' = IF Len(parsed) = 0 THEN "build" ELSE "warm"
  /\ unread' \in SUBSET {f \in Locked : Indexed(f)}
  /\ LET read == {f \in Files : Indexed(f)} \ unread' IN
     /\ index' = [f \in Files |-> IF f \in read THEN disk[f]
                                  ELSE IF f \in unread' THEN index[f] ELSE Gone]
     /\ parsed' = Append(parsed, Cardinality({f \in read : index[f] # disk[f]}))
  /\ builds' = IF Len(parsed') = 2
               THEN Append(builds, [tier |-> tier, cold |-> parsed'[1], reparsed |-> parsed'[2]])
               ELSE builds
  /\ edits' = 0
  /\ UNCHANGED <<args, tier, disk, sample, at, taken, first, floor, agree, results, out>>

\* One lookup by each arm that nobody times.
Warm ==
  /\ pc = "warm" /\ pc' = "time"
  /\ UNCHANGED <<args, tier, disk, edits, measure, report>>

\* The timed loop is at a repetition.
Timing == pc = "time" /\ at[1] <= Len(sample) /\ at[2] < reps

\* Fault variant for the checks: the turns follow the repetition alone.
BaseFirstByRep == at[2] % 2 = 0

\* (i + rep) % 2 == 0, i counting from 0.
BaseFirst == (at[1] - 1 + at[2]) % 2 = 0

\* How many answers the arms have pushed before this repetition.
Before == (at[1] - 1) * reps + at[2]

Lead     == IF BaseFirst THEN "baseline_ripgrep" ELSE "treatment_index"
Follower == IF BaseFirst THEN "treatment_index" ELSE "baseline_ripgrep"

\* One of the two lookups of a repetition; after the second the loop goes on.
TimeLookup ==
  LET second == taken[Lead] > Before IN
  /\ Timing
  /\ taken' = [taken EXCEPT ![IF second THEN Follower ELSE Lead] = @ + 1]
  /\ first' = IF second THEN first ELSE [first EXCEPT ![Lead] = @ + 1]
  /\ at' = IF second THEN <<at[1], at[2] + 1>> ELSE at
  /\ UNCHANGED <<args, tier, pc, disk, edits, sample, index, unread, parsed, floor, agree, report>>

\* After the repetitions of a name, the spawn floor after every fifth.
NextName ==
  /\ pc = "time" /\ at[1] <= Len(sample) /\ at[2] = reps
  /\ at' = <<at[1] + 1, 0>>
  /\ floor' = IF (at[1] - 1) % 5 = 0 THEN floor + 1 ELSE floor
  /\ UNCHANGED <<args, tier, pc, disk, edits, sample, index, unread, parsed, taken, first, agree, report>>

\* The statistics of the spawn floor, of which there must be one at least.
FloorStats ==
  /\ pc = "time" /\ at[1] > Len(sample)
  /\ IF floor = 0 THEN Fails /\ UNCHANGED out
     ELSE pc' = "agree" /\ UNCHANGED <<args, tier, disk, edits, measure, report>>

Verdict(rg, idx) ==
  CASE rg = {} /\ idx = {} -> "both_empty"
    [] rg = idx /\ rg # {} -> "identical"
    [] OTHER -> IF rg \subseteq idx THEN "index_superset" ELSE "rg_only"

CompareSites ==
  LET name == sample[Len(agree) + 1] IN
  /\ pc = "agree" /\ Len(agree) < Len(sample)
  /\ agree' = Append(agree, Verdict(RgSites(name), IndexSites(name)))
  /\ UNCHANGED <<args, tier, pc, disk, edits, sample, index, unread, parsed, at, taken, first, floor, report>>

Result(arm) == [tier |-> tier, arm |-> arm, names |-> Len(sample), lookups |-> taken[arm]]

\* The two results of a repository; statistics of no samples panic.
PushResults ==
  /\ pc = "agree" /\ Len(agree) = Len(sample)
  /\ IF reps = 0 THEN Fails /\ UNCHANGED out
     ELSE /\ NextTier
          /\ results' = results \o <<Result("baseline_ripgrep"), Result("treatment_index")>>

\* A `?`: ripgrep cannot be started, or the index cannot be opened or read.
StepFails ==
  /\ pc \in {"build", "warm", "time", "agree"} /\ Fails /\ UNCHANGED out

-----------------------------------------------------------------------------
(* The report.                                                             *)

\* Fault variant for the checks: the results are appended before the assertion.
AssertNoopLate ==
  /\ pc = "report" /\ pc' = "append"
  /\ UNCHANGED <<args, tier, disk, edits, measure, report>>

\* Nothing was parsed by the second pass over any repository.
AssertNoop ==
  /\ pc = "report"
  /\ IF \A i \in DOMAIN builds : builds[i].reparsed = 0
     THEN pc' = "append" /\ UNCHANGED <<args, tier, disk, edits, measure, report>>
     ELSE Fails /\ UNCHANGED out

\* One write of all lines.
AppendResults ==
  /\ pc = "append" /\ pc' = "done"
  /\ out' = results \o builds
  /\ UNCHANGED <<args, tier, disk, edits, measure, results, builds>>

\* The write fails, some lines written.
AppendFails ==
  /\ pc = "append" /\ Fails
  /\ \E k \in 0..(Len(results) + Len(builds)) : out' = SubSeq(results \o builds, 1, k)

\* The editor saves a file or removes it.  Nothing is read while lookups are
\* timed that is not read again by the comparison.
Edit ==
  /\ pc \in {"build", "agree"} /\ edits < MaxEdits
  /\ \E f \in Files, t \in Edits \cup {Gone} : t # disk[f] /\ disk' = [disk EXCEPT ![f] = t]
  /\ edits' = edits + 1
  /\ UNCHANGED <<args, tier, pc, measure, report>>

Next ==
  \/ SkipCorpus \/ EnterCorpus \/ TakeSample \/ IndexAll \/ Warm
  \/ TimeLookup \/ NextName \/ FloorStats \/ CompareSites \/ PushResults \/ StepFails
  \/ AssertNoop \/ AppendResults \/ AppendFails \/ Edit

Spec == Init /\ [][Next]_vars

-----------------------------------------------------------------------------
(* What holds.                                                             *)

\* The rows of the index are of the files as they are: nobody has edited one since,
\* and the last pass has read all.
Current == edits = 0 /\ unread = {}

\* "Where is X defined" (symbols.rs:5 of ctx-index): as long as the rows are current, the
\* index names of every item in the files it covers the line, the kind and the
\* impl, trait or mod around it, and nothing else.
DefinitionsAreRight ==
  pc = "warm" /\ Current =>
    \A name \in Range(Names) :
      Lookup(name) =
        UNION {{[file |-> f, line |-> d.line, kind |-> d.kind, container |-> d.container] :
                  d \in {e \in Defined(disk[f]) : e.name = name}} : f \in {g \in Files : Indexed(g)}}

\* What the pattern has matched on a line is no definition of the name: text of a
\* literal or a comment, or a modifier before the item's own name ("const unsafe fn").
RgMistakes(line, name) == line.within = "text" \/ NameOf(line) # name

\* The index has a gap: an item in the body of a macro, of which it has no node.
IndexMisses(line, name) == line.within = "macro" /\ NameOf(line) = name

\* "NOT the same as 'the index is wrong'" (symbols.rs:373-382 of ctx-bench): as long as
\* the rows are current, ripgrep alone reports a site of a name exactly when one of its
\* sites is a mistake of its own or in the body of a macro, the one gap that the
\* comment leaves the index.
RgOnlyIsExplained ==
  pc = "agree" /\ Current =>
    \A k \in DOMAIN agree :
      agree[k] = "rg_only" <=>
        \E site \in RgSites(sample[k]) :
          LET line == disk[site[1]][site[2]] IN
          RgMistakes(line, sample[k]) \/ IndexMisses(line, sample[k])

\* "Interleaved, order swapped each round" (symbols.rs:516): at every moment of the
\* timed loop each arm has gone first as often as the other, to within one, and
\* has as many answers, to within one.
ArmsTakeTurns ==
  pc = "time" =>
    \A a, b \in Arms : first[a] <= first[b] + 1 /\ taken[a] <= taken[b] + 1

\* "Sorted and evenly strided" (symbols.rs:189): the sample has as many names as
\* were asked for and there are, in their order and equally far apart, and its
\* strides span more than half of them all.
SamplesAreEven ==
  LET all == Sorted(UNION {Candidates(disk[f]) : f \in {g \in Files : Scanned(g)}}) IN
  pc = "build" /\ parsed = <<>> /\ edits = 0 =>
    /\ Len(sample) = Min({want, Len(all)})
    /\ sample # <<>> => \E d \in DOMAIN all :
         /\ 2 * d * Len(sample) > Len(all)
         /\ \A k \in DOMAIN sample : sample[k] = all[(k - 1) * d + 1]

\* "Target 5: this must be 0" (symbols.rs:107): nothing is appended unless the second
\* pass over every repository has parsed nothing, and then all is appended, in
\* one order: of each repository measured both arms, with one lookup of every
\* name in every repetition, and the index build.
NothingHalfReported ==
  /\ out # <<>> => /\ pc \in {"done", "failed"} /\ IsPrefix(out, results \o builds)
                   /\ \A i \in DOMAIN builds : builds[i].reparsed = 0
  /\ pc = "done" => /\ out = results \o builds
                    /\ \A i \in DOMAIN builds, a \in Arms : \E r \in Range(results) :
                         /\ r.tier = builds[i].tier /\ r.arm = a
                         /\ r.names > 0 /\ r.lookups = r.names * reps

\* "Sample symbol names defined in the corpus", and "skip obvious non-definitions:
\* comments and calls" (symbols.rs:186, 202): when more names are asked for than
\* there are, every plain or public item that a scanned file defines with one of
\* the scan's keywords is sampled.
DefinitionsAreSampled ==
  pc = "build" /\ parsed = <<>> /\ edits = 0 /\ want >= Len(Names) =>
    \A f \in {g \in Files : Scanned(g)} : \A i \in DOMAIN disk[f] :
      LET words == disk[f][i].words IN
      /\ IsItem(disk[f][i]) /\ Last(words) \notin Short
      /\ Len(words) = 2 \/ (Len(words) = 3 /\ words[1] = "pub")
      /\ words[Len(words) - 1] \in ScanKeywords
      => Last(words) \in Range(sample)
=============================================================================
