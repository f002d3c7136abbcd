\* Everything may happen, four times.
CONSTANTS
  a = a
  b = b
  group = group
  none = none
  Leaves <- MCLeaves
  Subtree <- MCSubtree
  NoCountry = none
  Bundled = 1
  MaxVersion = 2
  Events = {"download", "retry", "nodirectory", "nofile", "cellular",
            "newServer", "corrupt", "failure", "noworlds", "hold", "check",
            "cancel", "delete", "crash", "crashInSave", "bad", "nospace", "offline", "garbled",
            "update", "impatient"}
  MaxEvents = 4
SPECIFICATION Spec
CHECK_DEADLOCK FALSE
INVARIANT CheckIsSomewhere
