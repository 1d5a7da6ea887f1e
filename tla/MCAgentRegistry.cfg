\* Three cards with entries that nest, coincide or do not meet, five manifests of each,
\* and sixteen choices of tools.  A throw ends the process, so the boot may stop.
SPECIFICATION Spec
CONSTANTS
  Words <- MCWords
  Builds <- MCBuilds
  Called <- MCCalled
  Targets <- MCTargets
INVARIANTS
  OneOwner
  ComposedGoesHome
CHECK_DEADLOCK FALSE
