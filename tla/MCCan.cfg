SPECIFICATION MCSpec
CONSTANTS
  N = 2
  Natures <- AllFrames
  MaxFrames = 3
  MaxAsked = 1
  Leases = {"lease"}
  MaxBoots = 4
  Wanted <- MCWanted
  Clients = {c1, c2}
  NFds = 9
INVARIANTS AccountedFor BurstInOrder Intact KeepsSettings RemembersAddress OwnLine
PROPERTIES DropsOnlyWhenFull SlotsDrain
\* The bounds on frames and on starts end the behaviours.
CHECK_DEADLOCK FALSE
