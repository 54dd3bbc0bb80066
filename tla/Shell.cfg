SPECIFICATION MCSpec
CONSTANTS
  MAXARGS = 3
  Inputs <- SomeInputs
  NPROC = 7
  Readers = {"c"}
  Missing = {"x"}
  MaxLine = 5
CHECK_DEADLOCK FALSE
INVARIANT ParserRight
PROPERTY AllOver
