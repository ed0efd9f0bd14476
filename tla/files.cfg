SPECIFICATION Spec
CONSTANTS
  Chars <- Letters
  Nul = "0"
  Files <- SomeFiles
  OldTexts <- SomeOldTexts
  NewTexts <- SomeNewTexts
  MaxRead = 4
  MaxShown = 3
  MaxWrite = 4
  Faults = {"path", "read", "probe", "write"}
  MaxEntries = 2
  MaxCalls = 2
  MaxOutside = 1
INVARIANTS
  RecoverableIsUntouched
  PatchIsExact
  ReadIsHonest
