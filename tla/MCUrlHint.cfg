SPECIFICATION HintSpec
CONSTANTS
  Nil = Nil
  Pids = {1, 2, 3, 4}
  Proc <- MCProc
  Inodes = {1, 2, 3}
  Socket <- MCSocket
  Listens <- MCListens
  Published <- MCPublished
  Here = "localhost"
  Wildcards = {"", "0.0.0.0"}
  MaxEvents = 2
  MaxFailed = 1
INVARIANT HintOwned
CHECK_DEADLOCK FALSE
