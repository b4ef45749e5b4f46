SPECIFICATION FairSesSpec
CONSTANTS
  Interfaces = {"Gi1", "Vl1"}
  Physical = {"Gi1"}
  PromptWord = "switch#show"
  Vendor = "cisco"
  Offers <- MCOffers
  Tables <- MCTables
  Motd <- MCMotd
  PageSize = 1
  MaxTimers = 1
CHECK_DEADLOCK FALSE
INVARIANTS
  SesTypeOK
  SectionsAreAnswers
  StatusesAreTrue
  OnlyReadOnly
  PagedOnlyIfDisobeyed
PROPERTY
  SessionEnds
