CONSTANTS
  Requests = {r1, r2}
  Debates = {d1, d2}
  Texts = {t1}
  None = None
  MaxRounds = 1
  Stalls = FALSE
SPECIFICATION FairSpec
INVARIANTS
  CallerHoldsReservation
PROPERTIES
  ImplementsDoc
  ReservationFreed
