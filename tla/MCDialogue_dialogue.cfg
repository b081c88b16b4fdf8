CONSTANTS
  NONE = NONE
  MaxMessages = 4
  Histories <- SmallHistories
  MaxGuests = 2
  MaxNights = 2
  MaxDay = 3
SPECIFICATION Spec
INVARIANTS RequestsAlternate RetriesAreAccepted StayIsSound
