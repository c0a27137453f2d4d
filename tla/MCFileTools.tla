------------------------------ MODULE MCFileTools ------------------------------
EXTENDS FileTools

P(find, replace) == [find |-> find, replace |-> replace]
MCContents == {<< >>, <<"a">>, <<"a", "b", "a">>}
MCPatches  == {<<P(<<"a">>, <<"b">>)>>, <<P(<<"b">>, <<"a">>), P(<<"a", "a">>, <<"b">>)>>,
               <<P(<<"b", "a">>, <<"b">>), P(<<"a">>, << >>)>>}
=============================================================================
