SPECIFICATION FleetSpec
CONSTANTS
  Proc = {api, worker}
  Sweepers = {worker}
  Clients = {api}
  ConsentRequired = FALSE
  MaxTime = 0
  Unreliable = {worker}
  MaxFaults = 1
  NoEngine = NoEngine
  Null = Null
  Lost = Lost
INVARIANTS
  OneWinner
PROPERTIES
  ImplementsLifecycle
