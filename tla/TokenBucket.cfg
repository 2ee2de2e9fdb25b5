\* Two qualities, frames of one and three units, bursts of two ticks over four.
CONSTANTS
  Rates = {1, 2}
  Low = 1
  High = 2
  Burst = 2
  Sizes = {1, 3}
  MaxTime = 5
SPECIFICATION Spec
INVARIANTS TypeOK NeverOverRate PacedIsServed
CHECK_DEADLOCK FALSE
