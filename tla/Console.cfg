SPECIFICATION FairConsoleSpec
CONSTANTS
  valid = valid  hostile = hostile  text = text  decided = decided  key = key
  NULL = NULL  Malformed = Malformed  Blank = blank  NotJson = NotJson
  Artifacts <- MCArtifacts
  Content <- MCContent
  Strip <- MCStrip
  Forms <- MCForms
  Demos <- MCDemos
  SigningKey = key
  SignedBoxes = {TRUE}
  TickMinutes = 60
  MaxTime = 60
  MaxClicks = 2
INVARIANTS TypeOK KeptPairIsAllowed VerdictIsOfTheLastCall ListShowsLastReceipt
PROPERTIES KeepsPromise ButtonsComeBack
