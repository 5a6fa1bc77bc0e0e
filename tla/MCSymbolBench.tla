---------------------------- MODULE MCSymbolBench ---------------------------
(* SymbolBench on a few small repositories that hold every kind of item, nested  *)
(* and not, with every modifier, and every kind of text that only looks like one. *)
EXTENDS SymbolBench

Item(depth, words, body)  == [depth |-> depth, words |-> words, closed |-> FALSE, body |-> body, within |-> "code"]
Fn(depth, mods, name)     == [Item(depth, mods \o <<"fn", name>>, TRUE) EXCEPT !.closed = TRUE]
Quoted(depth, words)      == [Item(depth, words, FALSE) EXCEPT !.within = "text"]
Expanded(depth, words)    == [Item(depth, words, FALSE) EXCEPT !.within = "macro"]

MCNames == <<"alpha", "beta", "delta", "gamma", "new", "omega", "union", "unsafe">>
MCShort == {"fn", "mut", "new"}

Nested ==
  <<Item(0, <<"mod", "alpha">>, TRUE),
      Item(1, <<"pub", "trait", "beta">>, TRUE),
        Item(2, <<"type", "gamma">>, FALSE),
        Item(2, <<"fn", "new">>, FALSE),
        Item(2, <<"const", "delta">>, FALSE),
      Item(1, <<"impl", "delta">>, TRUE),
        Fn(2, <<"pub">>, "new"),
          Fn(3, <<>>, "omega"),
    Item(0, <<"const", "unsafe", "fn", "omega">>, TRUE)>>

Fixtures ==
  <<Fn(0, <<"pub(crate)">>, "beta"),
      Quoted(1, <<"fn", "gamma">>),
      Item(1, <<"call", "alpha">>, FALSE),
    Item(0, <<"macro_rules!", "delta">>, TRUE),
      Expanded(1, <<"pub", "const", "alpha">>),
    Item(0, <<"//", "fn", "omega">>, FALSE),
    Item(0, <<"pub", "static", "mut", "omega">>, FALSE),
    Fn(0, <<"pub", "async", "unsafe">>, "gamma")>>

Plain ==
  <<Item(0, <<"struct", "alpha">>, TRUE),
    Item(0, <<"pub", "enum", "delta">>, TRUE),
    Item(0, <<"union", "gamma">>, TRUE),
    Item(0, <<"type", "omega">>, FALSE),
    Fn(0, <<>>, "union")>>

MCPlace == [plain |-> "plain", hidden |-> "hidden", ignored |-> "ignored", target |-> "target"]
MCEdits == {Plain}

MCRepos ==
  {[plain |-> Nested,   hidden |-> Fixtures, ignored |-> Gone,  target |-> Plain],
   [plain |-> Fixtures, hidden |-> Nested,   ignored |-> Plain, target |-> Gone],
   [plain |-> Gone,     hidden |-> Gone,     ignored |-> Plain, target |-> Fixtures],
   [plain |-> Gone,     hidden |-> Gone,     ignored |-> Gone,  target |-> Nested]}

MCTiers == <<"small", "medium">>
=============================================================================
