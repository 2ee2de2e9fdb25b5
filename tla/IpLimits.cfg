\* Three addresses, a table of two, long enough for two prunings.
CONSTANTS
  None = None
  Ips = {ip1, ip2, ip3}
  MaxEntries = 2
  Window = 2
  MaxRequests = 1
  MaxStreamersPerIp = 1
  MaxListenersPerIp = 1
  MaxTime = 7
SPECIFICATION Spec
SYMMETRY Symmetry
INVARIANTS PlacesExact BudgetKept FullTableIsBusy
