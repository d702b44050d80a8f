SPECIFICATION Spec
CONSTANTS
  None = None
  o1 = o1
  o2 = o2
  Orders <- MCOrders
  SearchResults <- MCSearchResults
  MaxClicks = 6
  MaxOvertakes = 1
INVARIANTS
  ConsoleAgrees
  OverlayHasCause
  LoggedOutIsEmpty
  DetailsSettle
PROPERTIES
  OverlayLifts
CHECK_DEADLOCK FALSE
