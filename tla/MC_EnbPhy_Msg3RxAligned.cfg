CONSTANTS
  NFrames = 8
  Sib1NumSf = 4
  Rntis <- MCOneRnti
  MaxInputs = 1
  RlcLoads = {30}
  BsrValues = {50}
  ConnSetupBytes = 24


SPECIFICATION EnbSpec

PROPERTY Msg3RxAligned
