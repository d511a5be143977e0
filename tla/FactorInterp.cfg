SPECIFICATION FairSpec
CONSTANTS
  FrameSize = 2
  SpillSize = 8
  CsDepth = 8
  Fuel = 12
  Dict <- MCDict
  Programs <- MCPrograms
INVARIANTS TypeOK FragmentsPaired ComputesMeaning
PROPERTY Finishes
