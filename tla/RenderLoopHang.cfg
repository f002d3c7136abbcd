\* Rendering is disabled once, while no messages come.
CONSTANTS
  External = {"GuiRecache"}
  Surfaces = {TRUE, FALSE}
  MaxPosts = 1
  MaxToggles = 2
SPECIFICATION FairSpec
PROPERTY DisablingEnds
CHECK_DEADLOCK FALSE
