SPECIFICATION FairSpec
CONSTANTS
  Mode = {m0600, m0660}
  OwnerOnly = m0600
  MaxRuns = 3
  MaxFailures = 2
INVARIANT MetaModeIsConfigured
