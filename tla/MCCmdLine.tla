------------------------------ MODULE MCCmdLine ------------------------------
(***************************************************************************)
(* Tables and words for TLC.  Names are prefixes of one another, one table *)
(* has an option that does not begin with a dash, and auxbuf has room for  *)
(* a name of AuxSize characters, which some are longer than.               *)
(***************************************************************************)
EXTENDS CmdLine

Option(id, short, long, flags) ==
  [id |-> id, short |-> short, long |-> long, flags |-> flags]

Ordinary ==
  << Option("all", "a", <<"a", "b">>, {}),
     Option("abc", "b", <<"a", "b", "c">>, {"OPTIONALARG"}),
     Option("count", "c", NULL, {"REQUIREDARG"}),
     Option("name", NULL, <<"n">>, {"REQUIREDARG"}) >>

Dashed ==
  << Option("include", NULL, <<"-", "I">>, {"COMPILERLIKE"}),
     Option("all", "a", NULL, {}),
     Option("image", "I", NULL, {}) >>

Undashed ==
  << Option("all", "a", <<"a", "b">>, {}),
     Option("out", NULL, <<"x">>, {"COMPILERLIKE"}) >>

MCTables == {Ordinary, Dashed, Undashed}

MCWords ==
  { <<>>, <<"x">>, <<"x", "a">>, <<"-">>, <<"-", "-">>,
    <<"-", "a">>, <<"-", "a", "b", "c">>, <<"-", "a", "x", "a">>,
    <<"-", "c">>, <<"-", "c", "x">>, <<"-", "I">>, <<"-", "I", "x">>,
    <<"-", "-", "a", "b">>, <<"-", "-", "a", "b", "=", "x">>,
    <<"-", "-", "a", "b", "c">>, <<"-", "-", "a", "b", "c", "=">>,
    <<"-", "-", "n">>, <<"-", "-", "n", "=", "=">>,
    <<"-", "-", "x", "a", "b", "=", "x">> }
=============================================================================
