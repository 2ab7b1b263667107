----------------------------- MODULE MCTerminals ------------------------------
(* Small instances of Terminals for TLC.                                   *)
EXTENDS Terminals

(* A line for each way a command may end: by itself, at the end of its     *)
(* input, by SIGPIPE, before it is executed.                               *)
SomeLines ==
    {<<>>, <<"filter">>, <<"missing">>,
     <<"source", "filter">>, <<"source", "idle">>, <<"yes", "head">>,
     <<"missing", "filter">>,
     <<"source", "filter", "filter">>, <<"source", "missing", "filter">>,
     <<"yes", "filter", "head">>}

(* Three clients at the port of the program: two may get out of step with  *)
(* each other and leave before the third comes.                            *)
OnePort  == [anna |-> 8081, boris |-> 8081, carol |-> 8081]
FewTyped == [anna |-> 2, boris |-> 1, carol |-> 1]

(* Two directories with more entries than rows, one that cannot be read.   *)
Tree ==
    [root |-> <<"root", "root", "home", "lost", "notes">>,
     home |-> <<"home", "root", "draft", "list">>,
     lost |-> <<"lost", "root">>]
=============================================================================
