\* Bodies of up to three messages beside other members: see MCBodySplice.
SPECIFICATION Spec
CONSTANTS
  Bodies <- SomeBodies
  Long <- Texts
INVARIANTS WholeAndInPlace SpansHitContent
CHECK_DEADLOCK FALSE
