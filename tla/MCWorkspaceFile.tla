--------------------------- MODULE MCWorkspaceFile ---------------------------
(* Small texts for the runs of WorkspaceFile: old texts that overlap with   *)
(* themselves, files of which one is longer than the limits and two hold    *)
(* NUL, one of them behind the limit, and new texts that make a file too    *)
(* long, or binary, or make an old text of a later entry appear.            *)
EXTENDS WorkspaceFile

Letters == {"a", "b", "0"}

SomeFiles ==
  {<<>>, <<"a">>, <<"a", "b">>, <<"a", "a", "a">>, <<"a", "b", "a">>,
   <<"b", "a", "0">>, <<"a", "b", "a", "b">>, <<"a", "b", "b", "b", "a">>,
   <<"b", "b", "a", "b", "0">>}

SomeOldTexts == {<<>>, <<"a">>, <<"a", "a">>, <<"b", "a">>}

SomeNewTexts == {<<>>, <<"b", "b">>, <<"0">>}
=============================================================================
