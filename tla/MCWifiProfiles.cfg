SPECIFICATION StoreSpec
CONSTANTS
  a = a
  b = b
  empty = empty
  home = home
  office = office
  Id = {a, b, empty}
  EmptyId = empty
  Ssid = {home, office}
  List <- MCList
INVARIANTS
  NoStrayNetwork
PROPERTIES
  DropsAreGone
