SPECIFICATION Spec
CONSTANTS
  Kinds = {server, video}
  Described = {video}
PROPERTY NoTakeReplacesAnother
CHECK_DEADLOCK FALSE
