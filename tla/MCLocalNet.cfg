\* Two validators and two sessions of three blocks; one failure, of either node at
\* any step of its start or while it runs.
SPECIFICATION NetSpec
CONSTANTS
  Nodes = {"Alice", "Bob"}
  Configs <- ValidatorConfig
  MaxFailures = 1
  Period = 3
  MaxBlocks = 7
INVARIANT NetTypeOK
PROPERTIES PresentNotReported FinalityFollows
