SPECIFICATION Spec
CONSTANTS
  Calls = {r1}
  MaxDepth = 2
  MaxLaunches = 1
PROPERTY RefusedMeansLoggedOut
