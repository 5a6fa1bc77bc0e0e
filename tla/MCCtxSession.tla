---------------------------- MODULE MCCtxSession ----------------------------
(* CtxSession with the handles of both runs and one of every way to be no      *)
(* handle of a run.                                                            *)
EXTENDS CtxSession

MCNew     == <<"a">>
MCOld     == <<"a", "a">>
MCOldText == <<<<<<"helper", 0>>, <<"command", 0>>>>, <<<<"command", 1>>>>>>

\* The helper writes bytes that are no UTF-8, the command's second line ends in
\* a carriage return.
MCBytes(line) ==
  CASE line[1] = "helper" -> <<"helper", "not UTF-8">>
    [] line = <<"command", 1>> -> <<"command", "second", "CR">>
    [] OTHER -> <<"command", "first">>

\* The query is in what the command writes itself.
MCQuery == {<<"command", "first">>, <<"command", "second">>}

MCTyped ==
  {<<"output", ":", "/", "/", "run", "/">> \o id : id \in {MCNew, MCOld, <<"b">>, <<>>}} \cup
  {<<kind, ":", "/", "/", "run", "/", "a">> : kind \in {"git", "unknown"}} \cup
  {<<"output", ":", "/", "/">>, <<"output", ":", "/", "/", "a">>,
   <<"output", ":", "/", "run", "/", "a">>,
   <<"output", ":", "/", "/", ":", "/", "/", "run", "/", "a">>}
=============================================================================
