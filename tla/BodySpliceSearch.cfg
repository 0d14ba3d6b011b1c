\* The same bodies, where the scan declines.
SPECIFICATION Spec
CONSTANTS
  Bodies <- SomeBodies
  Long <- Texts
INVARIANTS OnlyContentsChange
CHECK_DEADLOCK FALSE
