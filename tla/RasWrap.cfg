\* One client thread and four numbers: what waitRrq and waitGrq say of a number that
\* is in the map already happens as soon as the numbers begin again.
SPECIFICATION Spec
CHECK_DEADLOCK FALSE

CONSTANTS
  gk = gk
  Gks = {gk}
  SeqMod = 4

INVARIANTS
  NeverRefused
