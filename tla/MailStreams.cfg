SPECIFICATION FairSpec
CONSTANTS
  Desktops = {d1, d2}
  Feeds = {f1}
  MaxEntries = 2
  MaxFaults = 1
CHECK_DEADLOCK FALSE
PROPERTIES StreamsSound CatchesUp
