SPECIFICATION FairSpec
CONSTANTS
  clean = clean  risky = risky  i1 = i1  i2 = i2  w1 = w1  w2 = w2
  text = text  blank = blank  padded = padded  k1 = k1  k2 = k2  short = short
  NULL = NULL  Malformed = Malformed  Down = Down
  Unparsable = Unparsable  UnknownId = UnknownId
  Blank = blank
  Artifacts <- MCArtifacts
  Content <- MCContent
  Strip <- MCStrip
  Instances = {i1}
  Workers = {w1, w2}
  Home <- OneInstance
  EnvKeys = {padded}
  WeakKeys = {short}
  Calls <- CleanCalls
  MaxTime = 1
  MaxSetbacks = 0
  MaxIssued = 1
  MaxDamage = 0
PROPERTIES CallsAreAnswered LockIsReleased
