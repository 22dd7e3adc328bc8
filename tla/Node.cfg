\* One node with every configuration; two failures, so that an essential task can
\* fail in a node that has lost another task, or one that was started again.
SPECIFICATION NodeSpec
CONSTANTS
  Nodes = {n1}
  Configs <- AllConfigs
  MaxFailures = 2
INVARIANT ServiceWhole
PROPERTIES EssentialTakesDown LocalStarts
