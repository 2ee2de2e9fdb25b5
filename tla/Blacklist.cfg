\* Two IDs and an address, room for one ban: a second overflows. Liveness, so no symmetry.
CONSTANTS
  Nil = Nil
  Sessions = {p1, p2}
  Keys = {ka, kb}
  Addresses = {a1}
  MaxBans = 1
SPECIFICATION FairBansSpec
PROPERTY RunningIsCaught
INVARIANTS BansCounted NoStaleBan CaughtStayBlocked KickOnItsWay
