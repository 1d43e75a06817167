SPECIFICATION DeploymentSpec
CONSTANTS
  text = text  url = url  blanks = blanks  key = key  shortKey = shortKey
  paddedKey = paddedKey  price20 = price20  price100 = price100  price101 = price101
  purpose = purpose  paddedPurpose = paddedPurpose  long = long  otherPath = otherPath
  Blank = blank  Absent = Absent  FreshId = FreshId  NotInt = NotInt  Down = Down  NULL = NULL
  Strip <- MCStrip
  Values <- MCValues
  Chars <- MCChars
  Bytes <- MCBytes
  IntOf <- MCIntOf
  Urls = {url}
  ServiceNames = {text}
  DefaultPurpose = purpose
  DefaultPrice = price20
  InitialEnv <- MCEnv
  Edits <- MCEdits
  InitialTree <- MCTree
  Paths <- MCPaths
  Installed = "editable"
  StartedIn = "root"
  Inputs <- MCInputs
  MaxEdits = 1
INVARIANT GreenMeansSigned
