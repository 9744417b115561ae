SPECIFICATION FairSpec
CONSTANTS
  Threads = {t1, t2}
  Tasks = {m1, m2}
  l1 = l1
  l2 = l2
  other = other
  console = console
  stderr = stderr
  file = file
  Root = root
  None = none
  Capacity = 2
  Loggers <- MCLoggers
  Names <- MCNames
  Consoles <- MCConsoles
  Files = {file}
  appender_ref <- MCRefs
  additivity <- MCAdditivity
PROPERTIES AcceptedIsWritten
CHECK_DEADLOCK FALSE
