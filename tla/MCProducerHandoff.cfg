CONSTANTS
  Producer = {"diag_tone", "raop_rtp", "other"}
  Rtp = "raop_rtp"
SPECIFICATION HandoffSpec
INVARIANTS OneProducer NoUseAfterFree NothingLeftBehind
PROPERTIES StopReturns
