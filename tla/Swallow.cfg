CONSTANTS
  c1 = c1
  c2 = c2
  c3 = c3
  Client = {c1, c2, c3}
  NULL = NULL
  NTag = 2
  MaxMon = 2
  Wide = {}
  MaxMaster = 1
  shell = shell
  viewer = viewer
  editor = editor
  Window = {shell, viewer, editor}
  Parent <- ParentOf
  RuleFor <- Rules
  Commands = {"view", "focusmon", "tagmon", "togglefullscr", "geometry"}
  MaxQueue = 2
SYMMETRY ClientSymmetry
SPECIFICATION Spec
CONSTRAINT Bounds
INVARIANTS WindowsHeldOnce NoGhostClients 
PROPERTIES WindowsKept TerminalComesBack OnlySwallowDisturbs
