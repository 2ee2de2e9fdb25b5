\* Two publishers and two listeners of one key, three connections at a time, limits
\* tight enough that every refusal is taken. Liveness rules symmetry out.
CONSTANTS
  None = None
  Streamers = {s1, s2}
  Listeners = {l1, l2}
  Keys = {ka}
  Chans = {c1, c2}
  MaxConnections = 3
  MaxStreamers = 1
  MaxListenersTotal = 2
  MaxListenersPerStream = 1
SPECIFICATION FairSpec
INVARIANTS CountersExact ChannelExact NoOrphan
PROPERTIES ImplementsDirectory DepartureCompletes UnusedEntryGoes
