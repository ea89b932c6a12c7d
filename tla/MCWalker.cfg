SPECIFICATION Spec
CONSTANTS
  Page <- MCPage
  Category <- MCCategory
  RedirectTo <- MCRedirect
  List <- MCList
  ServerMax = 500
  Seeds <- MCSeeds
  Options <- MCOptions
INVARIANTS EmittedOnce NearestFirst Complete
PROPERTIES Terminates
