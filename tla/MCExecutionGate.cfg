\* Five fibers on two permits: releases meet a queue of up to three, some of
\* them already abandoned.
CONSTANTS
  Waiter = {w1, w2, w3, w4, w5}
  limit = 2
SPECIFICATION FairSpec
INVARIANTS
  PermitsBoundAgents
  NobodyForgotten
PROPERTIES
  ImplementsTurnstile
  EveryWaiterAnswered
