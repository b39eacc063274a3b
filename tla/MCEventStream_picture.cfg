SPECIFICATION FairSpec
CONSTANTS
  Browsers = {b}
  Tasks = {t1, t2}
  Specs = {v, w}
  Buffer = 2
  Gone = Gone
INVARIANT PictureTrue
PROPERTY ReconnectHeals
CHECK_DEADLOCK FALSE
