SPECIFICATION LiveSpec
CONSTANTS
  StepSize = 2
  Dangerous = {"parfum", "bht"}
  Banned = {"bht"}
  Accounts <- MCAccounts
  RPM = 1
  TPM = 60
  IPM = 0
  Workers = {w1, w2}
  Selections = {s1}
  Nobody = Nobody
  Products <- MCProducts
  Texts = {"", "conclusion"}
  Minutes = 2
  Tries = 2
  MaxRuns = 2
  MaxFaults = 1
INVARIANTS
  AnalysisTypeOK
  StoredStepsInOrder
  NothingPaidTwice
  EveryElementAskedOnce
  PdfFromAllSteps
  PdfShowsComposition
  
  LimitsHold
PROPERTIES
  SavedForGood
  PdfInTheEnd
CHECK_DEADLOCK FALSE
