CONSTANTS
  NumPorts = 3
  Slots = 5
  Vids <- MCVids
  MgmtVlan = 10
  Fleets <- MCFleets
  NoVlan = 0
  MaxPushes = 2
  MaxEdits = 1
SPECIFICATION Spec
INVARIANTS TypeOK ReadsBack FleetReachesPorts PullPushIsQuiet BehindOnlyIfMissed
