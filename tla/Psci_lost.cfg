SPECIFICATION FairSpec
CONSTANTS
  Cpus = {c0, c1}
  Primary = c0
  NoCpu = none
  Serial = TRUE
PROPERTIES
  OnMeansUp
