SPECIFICATION Spec
CONSTANTS
  door = door  window = window  tab1 = tab1  tab2 = tab2  ana = ana  ben = ben
  NoInstall = NoInstall  NoTab = NoTab  NoOne = NoOne
  Installs = {door}
  Tabs = {tab1, tab2}
  People = {ana}
  Owner <- AnaOwns
  MAX_ATTEMPTS = 2
  MaxEvents = 1
SYMMETRY TabSymmetry
INVARIANTS TypeOK InstallKept StagesInOrder PaidOnce
