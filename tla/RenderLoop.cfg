\* Two messages of every kind of receiver, while rendering is disabled and enabled again.
CONSTANTS
  External = {"InvalidateRect", "UpdateMapStyle", "NotifyRenderThread",
              "GuiRecache", "FlushTrafficGeometry"}
  Surfaces = {TRUE, FALSE}
  MaxPosts = 2
  MaxToggles = 3
SPECIFICATION FairSpec
INVARIANTS MessagesKeepOrder InstantFilterIsAlone DisabledRenderersRest
PROPERTY BlockedFrontendIsReleased
CHECK_DEADLOCK FALSE
