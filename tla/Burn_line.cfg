SPECIFICATION FairSpec
CONSTANTS
  Boot = 2
  App = 3
  Tries = 3
INVARIANTS TypeOK DoneMeansBurned NothingOverwritten
PROPERTIES Ends
