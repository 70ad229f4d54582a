CONSTANTS
  Questions <- MCQuestions
  Transports <- MCTransports
  Types <- MCTypes
  Ip <- MCIp
  Mac <- MCMac
  MaxHeaders = 3
  Word = 100000
  Announcements <- MCAnnouncements
  Tracks <- MCTracks
  Volumes <- MCVolumes
  KeyLen = 4
  EncMax = 6
  TextMax <- MCTextMax
  AccMod = 1048576
  Fields = {"minm", "asar"}
  MaxDepth = 1
  StrMax = 2
  Gain <- MCGain
  Unity = 64
SPECIFICATION Spec
INVARIANTS StreamIsTheAgreed ChallengeIsMet MetadataIsTheNewest VolumeFollowsSlider
