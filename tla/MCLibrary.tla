------------------------------ MODULE MCLibrary ------------------------------
(* p needs the wrapped n, which loads c; c and e need each other, and e    *)
(* needs t, which the program needs too; q needs the wrapped k, which does *)
(* without m, and m itself, which does not exist.                          *)
EXTENDS Library

MCLibs == {"p", "q", "c", "e", "t", "n", "k", "m"}
MCNeeds ==
  [p |-> <<"n", "e">>, q |-> <<"k", "m">>, c |-> <<"e">>, e |-> <<"c", "t">>, t |-> << >>,
   n |-> <<"c">>, k |-> <<"p", "m">>, m |-> << >>, main |-> <<"t">>]
=============================================================================
