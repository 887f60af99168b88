CONSTANTS
  Starts = {s1, s2, s3}
  Unlocked = Unlocked
  ThreadFaults = {"malloc", "pthread_create", "lock", "unlock"}
  Callers = {p1, p2}
  OutFiles = {f1, f2}
  Terminal = Terminal
  Text = Text
  Empty = Empty
  ExecFaults = {"fork", "open", "dup2", "waitpid"}
  Runs = {r1, r2}
  Root = Root
  Subdirs = {sub}
  WRITEDIR <- MCWritedir
  NUMFILES <- MCNumfiles
  FinderFaults = {"mkdir", "fopen", "fprintf", "fclose"}
  Scripts = {l1, l2, l3}
  Openers = {t1}
  Majors = {m1, m2}
  NoMajor = NoMajor
  NodeFaults = {"alloc_chrdev_region", "cdev_add", "chgrp", "chmod"}
  Signals = {SIGINT, SIGTERM}
  Main = Main
  Thread = Thread
  NoHolder = NoHolder
  MaxFd = 4
  ClosedAtStart <- MCClosedAtStart
  SetupFaults = {"getaddrinfo", "socket", "setsockopt", "bind", "fork",
                 "setsid", "chdir", "listen", "accept"}
SPECIFICATION MCSpec
INVARIANTS
  MCTypeOK
  HeldByOne
  BlockHasOneOwner
  TrueMeansDone
  OutputIsTheCommands
  TextAppearsOnce
  VerdictIsDeserved
  NameIsTheDevice
  NoStaleNode
  StartsWholeOrNotAtAll
  ThreadsKeepTheirFiles
PROPERTIES
  ThreadsReturn
  SignalEndsAccepting
CHECK_DEADLOCK FALSE
