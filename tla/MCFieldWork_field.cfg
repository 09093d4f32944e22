SPECIFICATION FairSpec
CONSTANTS
  d1 = d1
  d2 = d2
  r1 = r1
  r2 = r2
  Sales = {s1}
  Devices = {d1, d2}
  DevicesOf <- SaleDevices
  Tokenable = {d1}
  DeviceAttempts = 2
  CsvStatus <- Forward
  MaxMailFailures = 1
  MaxReruns = 1
  Tasks = {t1, t2}
  Installers = {i1}
  Nobody = Nobody
  NoSale = NoSale
  NoTask = NoTask
  Requests = {r1, r2}
  Serves <- ServedBy
  Overlap <- Together
  Crashable <- Crashes
  MaxFailures = 1
CHECK_DEADLOCK FALSE
INVARIANTS
  OpenTaskHasSale
  OneCodePerInstallation
PROPERTIES
  NothingGoesBack
  InstallationIsAnswered
