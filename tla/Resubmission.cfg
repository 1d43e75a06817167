SPECIFICATION Spec
CONSTANTS
  object = object  list = list  prose = prose  digits = digits  deep = deep  text = text
  blank = blank  field = field  padded = padded  key = key  parent = parent
  NULL = NULL  Malformed = Malformed
  Blank = blank
  Artifacts <- MCArtifacts
  Content <- MCContent
  Strip <- MCStrip
  FirstCall <- MCFirstCall
  RawLists <- MCRawLists
  Sizes = {50, 64000}
  Evidences <- MCEvidences
  Schemas <- MCSchemas
  Tasks = {text}
  Parents = {NULL, parent}
  SigningKey = key
INVARIANTS TypeOK IndicatorsNeverPass Reconstructible StricterNeverBetter StricterStaysRefused IssuedIsAccepted
