SPECIFICATION FairSpec
CONSTANTS
  Runs = {r1, r2, r3}
  MaxTaps = 3
INVARIANTS OnePassAtATime NothingLeftOver ForcedOncePerTap AskRemembered
PROPERTY EveryAskIsFollowed
