SPECIFICATION FairSpec
CONSTANTS
  Files <- MCFiles
  MaxCommands = 4
INVARIANTS TypeOK AckedIsExact DownloadExact DiesOfMishaps NoMutualWait
PROPERTIES PromptReturns UploadEnds
CHECK_DEADLOCK FALSE
