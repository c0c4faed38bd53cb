SPECIFICATION Spec
CONSTANTS
  home = home
  away = away
  wifi = wifi
  cafe = cafe
  Players = {pa, pb}
  Essids = {wifi, cafe}
  Towns = {home, away}
  TownOf <- MCTownOf
  StartingTown <- MCStartingTown
  Octets = {2, 3, 4}
  Npc <- MCNpc
  Preferred <- MCPreferred
  RideFare = 1
  MaxAttempts = 2
  MaxTrips = 1
  Workers = {w1, w2}
  None = None
SYMMETRY Symmetry
INVARIANTS TypeOK OccupantsAddressed AnswersTheLease EveryTripPaid
PROPERTIES RidesAreAtomic
CHECK_DEADLOCK FALSE
