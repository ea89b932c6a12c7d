SPECIFICATION Spec
CONSTANTS
  Page <- MCPage
  Category <- MCCategory
  RedirectTo <- MCRedirect
  List <- MCList
  ServerMax = 500
  Seeds <- TwoSeeds
  Options <- LinkOptions
INVARIANTS NoReEmit
