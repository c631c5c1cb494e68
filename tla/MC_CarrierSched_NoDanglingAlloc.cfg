CONSTANTS
  NFrames = 8
  Rntis <- MCRntis
  MaxInputs = 3
  RlcLoads = {30}
  BsrValues = {50}
  ConnSetupBytes = 24
  Sib1NumSf = 4

SPECIFICATION Spec

INVARIANT NoDanglingAlloc
