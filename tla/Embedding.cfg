\* Two plugins, a FlutterEngine alone or with a view controller.
SPECIFICATION Spec
CONSTANTS
    Plugins = {p1, p2}
    None = None
    MaxDelegates = 2
    Rearm = FALSE
INVARIANTS
    CallbacksPointToLiveObjects
    PluginsGoFirst
    TextureOutlivesRendering
    EngineHasOneOwner
CHECK_DEADLOCK FALSE
