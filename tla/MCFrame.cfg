SPECIFICATION FrameSpec
CONSTANTS
  Places <- MCPlaces
  Bump = 32
  Window = 3
  Zone <- MCZone
  ZoneFiles <- MCZoneFiles
  Pairs <- MCPairs
  Debounce = 3
  HistoryTime = 3
  DroopTime = 2
  FallTime = 2
  FallSamples = 3
  FallSpeed = 1
  LowHip = 1
  Cooldown = 3
  Scenes <- MCScenes
  MaxGap = 2
  Rezoning <- MCRezoning
INVARIANT ZonesWatched
INVARIANT QuietZonesCool
INVARIANT CloseIsTold
INVARIANT FatigueIsSustained
