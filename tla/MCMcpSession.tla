---------------------------- MODULE MCMcpSession ----------------------------
(* Two servers; the two tool names have the same alias. *)
EXTENDS McpSession

TwoServers == {"alpha", "beta"}
\* None, one, two, and one twice; the two names are interchangeable.
Configurations ==
  {<<>>, <<"alpha">>, <<"alpha", "beta">>, <<"alpha", "alpha">>}

TwoNames == {"get.it", "get_it"}
\* A page names at most one tool: every list of two is one of two pages.
ShortPages == {names \in SUBSET TwoNames : Cardinality(names) <= 1}
Sanitized == [n \in TwoNames |-> "get_it"]
=============================================================================
