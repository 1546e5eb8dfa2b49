\* Three calls in two batches on one permit; a session with two usage events.
CONSTANTS
  a1 = a1
  a2 = a2
  a3 = a3
  Batches <- PairAndOne
  limit = 1
  MaxEvents = 2
SPECIFICATION AgentsSpec
INVARIANTS
  NobodyWaitsInVain
  EffortsAsAsked
  SessionSound
PROPERTIES
  EveryCallEnds
  NothingBegunAfterAbort
  AbortedCallEnds
