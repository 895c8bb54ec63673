SPECIFICATION Spec
CONSTANTS
  Fds <- MCFds
  FD_SETSIZE = 4
  Dummy = dummy
  Callbacks = {f, g}
INVARIANT TableInv
PROPERTY IsRegistry
