SPECIFICATION FairSpec
CONSTANTS
  Alert = {a, b}
  Disabled = {b}
  NoEvent = NoEvent
  MaxHeld = 2
  MaxRestarts = 1
INVARIANTS EntitiesMatch
PROPERTIES DeliveredInOrder RemovalNamesEntity UnregisteredIsAnnounced
PROPERTIES EventsArrive EntitiesLeave
