SPECIFICATION Spec
CONSTANTS
  web = web
  i1 = i1
  i2 = i2
  m1 = m1
  m2 = m2
  t1 = t1
  t1z = t1z
  t2 = t2
  None = None
  Name <- Names
  Ip <- Ips
  Mac <- Macs
  Spelling <- Spellings
  MacOf <- AddressOf
  Block <- Blocks
  MaxBlocks = 2
  Timeouts <- Waits
INVARIANT TypeOK
INVARIANT ParsedAreWritten
PROPERTY AnswerIsCurrent
PROPERTY NoLeaseMissed
PROPERTY WaitReturns
