SPECIFICATION LayoutSpec
CONSTANTS
  flute = flute
  fluteCue = fluteCue
  horn = horn
  all = all
  Names <- MCNames
  Cues <- MCCues
  All = all
  Documents <- MCDocuments
  Spacings <- MCSpacings
  MaxEdits = 2
CHECK_DEADLOCK FALSE
INVARIANTS ShowsItsMusic FewestPages FullSize FailsForCause PreviewShowsPages
