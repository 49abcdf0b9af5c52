CONSTANTS
  pump = pump
  valve = valve
  Channel <- MCChannel
  Lockable <- MCPump
  Logged <- MCPump
  Emergency <- MCPump
  Exercised <- MCPump
  LockValues <- MCLocks
  AgeCap = 2
SPECIFICATION FairSpec
PROPERTY DwellContract
PROPERTY RequestIsServed
