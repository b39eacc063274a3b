SPECIFICATION FairSpec
CONSTANTS
  Engines = {a, b, c}
  Ends = {a, b}
  Specs = {v}
  Tasks = {t1, t2}
  MaxMsgs = 2
  Gone = Gone
INVARIANT EndsAgree
PROPERTY GossipQuiesces
CHECK_DEADLOCK FALSE
