SPECIFICATION FairSpec
CONSTANTS
  N = 3
  Fallback = {1, 3}
  Top = 4
  Capability = {"cfg", "consts"}
INVARIANTS TypeOK ProvidersRunEarlier NeverTooFar CyclesRejected
PROPERTY Terminates
