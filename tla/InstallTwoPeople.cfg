SPECIFICATION FairSpec
CONSTANTS
  door = door  window = window  tab1 = tab1  tab2 = tab2  ana = ana  ben = ben
  NoInstall = NoInstall  NoTab = NoTab  NoOne = NoOne
  Installs = {door, window}
  Tabs = {tab1}
  People = {ana, ben}
  Owner <- EachTheirOwn
  MAX_ATTEMPTS = 2
  MaxEvents = 2
INVARIANT FiledAsSubmitter
PROPERTIES VerdictHeard EventuallyReceived
