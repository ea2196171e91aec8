SPECIFICATION FairFleetSpec
CONSTANTS
  Proc = {api}
  Sweepers = {api}
  Clients = {api}
  ConsentRequired = FALSE
  MaxTime = 2
  Unreliable = {}
  MaxFaults = 1
  NoEngine = NoEngine
  Null = Null
  Lost = Lost
INVARIANTS
  BilledAsTalked
  BilledBeforeAnnounced
PROPERTIES
  PauseOutlives
  EventuallyFinal
  AnnouncedUnlessCrash
