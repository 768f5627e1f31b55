SPECIFICATION FairSpec
CONSTANTS
  w = w
  p = p
  Clients <- BothClients
  Wizard <- w
  Panel <- p
  Watching <- OnlyWizardWatches
  Updater = updater
  MaxTrouble = 1
  MaxCalls = 1
  MaxWizards = 1
INVARIANTS TypeOK ModeAgrees ConfiguredIsComplete AckedDurable
  SeedMeansKey FormatsOnlyConfirmed CompleteMeansAccepted
PROPERTIES BootstrapFinishes
CHECK_DEADLOCK FALSE
