\* The program ends: it sends EOT and returns.
CHECK_DEADLOCK FALSE
CONSTANTS
  Name <- MCName
  Data <- MCData
  Radix = 11
  Depth = 2
  MaxUnread = 12
  MaxJobs = 2
  MaxEnquiries = 2
  NoFile = NoFile
  NoJob = NoJob
  NoChar = NoChar
SPECIFICATION Spec
INVARIANT TypeOK
PROPERTIES ImplementsFileCopy TransferEnds
