----------------------------- MODULE MCGitCommit -----------------------------
(* GitCommit on a small instance: see README, run "git". *)
EXTENDS GitCommit

MCPrefixes == {"", "sub"}

\* Bound: until a call looks at HEAD there is at most one commit; its own and
\* another can follow.
ShortHistory == pc \in {"idle", "list", "head"} => Len(commits) <= 1
=============================================================================
