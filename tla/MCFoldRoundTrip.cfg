CONSTANTS
  Chars <- MCChars
  Octets <- MCOctets
  Widths <- MCWidths
  Before <- MCBefore
  Followers <- MCFollowers
  Inputs <- MCInputs
  MaxChars = 6
SPECIFICATION FRSpec
INVARIANTS
  WithinWidth
  FoldUnfoldIdentity
  OnlyReportedJoinsLost
  StrictUnfoldsAsRfc
  OnlySoftBreaksAmbiguous
CHECK_DEADLOCK FALSE
