CONSTANTS
  Worker = {w1, w2}
  Upload = {u1, u2}
  Nobody = Nobody
  MaxSends = 2
  MaxFaults = 3
SPECIFICATION Spec
INVARIANTS TransportInv OneWriter
PROPERTIES RevocationIsNotMasked EveryCallEnds
CHECK_DEADLOCK FALSE
