SPECIFICATION Spec
CONSTANTS
  clean = clean  risky = risky  i1 = i1  i2 = i2  w1 = w1  w2 = w2
  text = text  blank = blank  padded = padded  k1 = k1  k2 = k2  short = short
  NULL = NULL  Malformed = Malformed  Down = Down
  Unparsable = Unparsable  UnknownId = UnknownId
  Blank = blank
  Artifacts <- MCArtifacts
  Content <- MCContent
  Strip <- MCStrip
  Instances = {i1}
  Workers = {w1}
  Home <- OneWorker
  EnvKeys = {blank, padded, short}
  WeakKeys = {short}
  Calls <- MCCalls
  MaxTime = 1
  MaxSetbacks = 1
  MaxIssued = 2
  MaxDamage = 1
PROPERTY GateAlwaysDecides
