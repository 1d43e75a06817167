SPECIFICATION LedgerSpec
CONSTANTS
  a = a  b = b  c = c  own = own  padded = padded  blank = blank  text = text
  Names = {a, b, c, own, padded, blank}
  Strip <- MCStrip
  Blank = blank
  Disagreements = {text, blank}
  Credits = {0, 20, 40}
  SelfServiceIds = {own}
INVARIANT StillWinnable
CHECK_DEADLOCK FALSE
