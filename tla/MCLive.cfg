SPECIFICATION LiveSpec
PROPERTIES
  Scheduled
  OrphanReaped
  KilledExits
  PromptReturns
