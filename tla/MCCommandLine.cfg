SPECIFICATION CommandLineSpec
CONSTANTS
  Paths = {"a", "b"}
  Texts = {"wrong", "low", "high"}
  assemble <- MCAssemble
  MaxCommands = 4
INVARIANTS
  FilesOfLastSuccess
  RunsWhatWasAssembled
\* Only MaxCommands commands are given.
CHECK_DEADLOCK FALSE
