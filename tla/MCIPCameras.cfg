SPECIFICATION FairSpec
CONSTANTS
  d1 = d1
  u1 = u1
  a1 = a1
  a2 = a2
  w1 = w1
  p1 = p1
  Blank = Blank
  NoAddr = NoAddr
  Dahua <- MCDahua
  UNV <- MCUNV
  Addrs <- MCAddrs
  Users <- MCUsers
  Passwords <- MCPasswords
  Start <- MCStart
  Faults = {"silent", "answer", "write", "sync", "crash", "world"}
  MaxFaults = 1
  MaxEdits = 2
INVARIANTS
  OnlineIsKnown
  ListIsOnDisk
PROPERTIES
  Implements
  Converges
