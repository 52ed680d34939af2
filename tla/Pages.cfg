SPECIFICATION FairSpec
CONSTANTS
  Users = {"alice"}
  Records = {1, 2}
  RecordsOf <- MCRecordsOf
  Filters = {"all", "open"}
  NoFilter = "all"
  MaxLogins = 2
  MaxRequests = 2
INVARIANTS
  TypeOK
  ListShowsWhatIsAsked
  WrongDetailNeedsAnOvertaking
  LogoutForgets
PROPERTIES
  LoadingEnds
  
  AddressIsShown
