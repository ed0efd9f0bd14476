SPECIFICATION Spec
CONSTANTS
  Inside = {in1}
  Outside = {out1}
  Prefixes <- MCPrefixes
  MaxCommits = 3
  MaxReflog = 3
CONSTRAINT ShortHistory
INVARIANTS AnswerIsTrue CommitStaysInside
