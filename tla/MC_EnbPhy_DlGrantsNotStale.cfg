CONSTANTS
  NFrames = 8
  Sib1NumSf = 4
  Rntis <- MCRntis
  MaxInputs = 2
  RlcLoads = {30}
  BsrValues = {50}
  ConnSetupBytes = 24


SPECIFICATION EnbSpec

INVARIANT DlGrantsNotStale
