SPECIFICATION FairSpec
CONSTANTS
  N = 4
  capture = capture
  timer = timer
  e1 = e1
  e2 = e2
  Producers <- MCProducers
  Events <- MCEvents
  NoEvent = NoEvent
  Nobody = Nobody
INVARIANTS TypeOK NoSlotRace
PROPERTIES ImplementsFifo TakesEverything
