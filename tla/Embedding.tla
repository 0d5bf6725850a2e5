----------------------------- MODULE Embedding ------------------------------
(***************************************************************************)
(* Who owns what between a Windows application, the engine and its         *)
(* plugins, and in which order it is destroyed.                            *)
(*                                                                         *)
(* The engine behind the C API holds plain pointers into the wrapper: a    *)
(* message handler per channel, a window procedure, the object of the next *)
(* frame callback, the textures.  It is destroyed by its FlutterEngine or, *)
(* once relinquished, by its view controller, and destroys the plugin      *)
(* registrar, whose plugins may use it in their destructors.  All this     *)
(* runs on the platform thread, one step of a destructor after the other;  *)
(* the raster thread renders textures meanwhile.                           *)
(*                                                                         *)
(* The engine itself is not in the repository.  What it does here is what  *)
(* the wrapper's comments and the headers of its C API say.                *)
(***************************************************************************)
EXTENDS Naturals, FiniteSets

CONSTANTS
    Plugins,
    None,           \* no plugin, no messenger
    MaxDelegates,   \* bound: delegates registered one after the other
    Rearm           \* next frame callbacks may be set while another is pending

\* The two binary messengers on the engine's one messenger.
Messengers == {"engine", "registrar"}

ASSUME NoneAssumption == None \notin Plugins \cup Messengers
ASSUME BoundAssumption == MaxDelegates \in Nat /\ Rearm \in BOOLEAN

VARIABLES
    core,           \* the engine of the C API: "none", "alive", "gone"
    engine,         \* the FlutterEngine: "none", "alive", "gone"
    hasEngine,      \* engine_ is not null
    ownsEngine,     \* owns_engine_
    running,        \* the engine runs its entry point
    runSucceeded,   \* run_succeeded_
    controller,     \* "none", "alive", "failed", "gone"
    nextFrame,      \* next_frame_callback_ is set
    framePending,   \* the engine will call it after the next frame
    inFrame,        \* it is being called
    registrar,      \* the PluginRegistrarWindows: "none", "alive", "gone"
    parts,          \* its members that exist
    plugins,        \* plugins_
    added,          \* plugins that were added at some time
    handlers,       \* messengers with a handler for the channel
    handlerOf,      \* the plugin that set the registrar's handler
    callback,       \* the messenger whose handler the engine calls
    delegates,      \* window_proc_delegates_
    nextDelegate,   \* next_window_proc_delegate_id_
    windowProc,     \* the engine calls OnTopLevelWindowProc
    texture,        \* of a plugin: "none", "registered", "unregistering", "freed"
    rendering,      \* the plugin whose texture the raster thread reads
    teardown,       \* the destructor that runs: "no" if none
    dying           \* the FlutterEngine goes with its engine

engineVars    == <<core, engine, hasEngine, ownsEngine, running, runSucceeded, controller>>
frameVars     == <<nextFrame, framePending, inFrame>>
registrarVars == <<registrar, parts, plugins, added>>
channelVars   == <<handlers, handlerOf, callback>>
windowVars    == <<delegates, nextDelegate, windowProc>>
textureVars   == <<texture, rendering>>
teardownVars  == <<teardown, dying>>
vars == <<engineVars, frameVars, registrarVars, channelVars, windowVars,
          textureVars, teardownVars>>

Members == {"view", "delegates", "messenger", "textures"}

Init ==
    /\ core = "none" /\ engine = "none" /\ hasEngine = FALSE /\ ownsEngine = TRUE
    /\ running = FALSE /\ runSucceeded = FALSE /\ controller = "none"
    /\ nextFrame = FALSE /\ framePending = FALSE /\ inFrame = FALSE
    /\ registrar = "none" /\ parts = {} /\ plugins = {} /\ added = {}
    /\ handlers = {} /\ handlerOf = None /\ callback = None
    /\ delegates = {} /\ nextDelegate = 1 /\ windowProc = FALSE
    /\ texture = [p \in Plugins |-> "none"] /\ rendering = None
    /\ teardown = "no" /\ dying = FALSE

\* The platform thread is in no destructor and in no callback.
PlatformFree == teardown = "no" /\ ~inFrame

----------------------------------------------------------------------------
(* The FlutterEngine and the FlutterViewController.                        *)

CreateEngine ==
    /\ engine = "none"
    /\ core' = "alive" /\ engine' = "alive" /\ hasEngine' = TRUE
    /\ UNCHANGED <<ownsEngine, running, runSucceeded, controller, frameVars,
                   registrarVars, channelVars, windowVars, textureVars, teardownVars>>

\* The controller takes the engine over, before it is known whether it can
\* be created, and runs it; if it fails the engine is gone with it.
CreateController ==
    /\ engine = "none"
    /\ engine' = "alive" /\ hasEngine' = TRUE /\ ownsEngine' = FALSE
    /\ \/ core' = "alive" /\ controller' = "alive" /\ running' = TRUE
       \/ core' = "gone" /\ controller' = "failed" /\ UNCHANGED running
    /\ UNCHANGED <<runSucceeded, frameVars, registrarVars, channelVars,
                   windowVars, textureVars, teardownVars>>

\* run_succeeded_ is set whether the engine runs or not.
Run ==
    /\ PlatformFree /\ engine = "alive" /\ core = "alive"
    /\ hasEngine /\ ~runSucceeded
    /\ running' \in {TRUE, running}
    /\ runSucceeded' = TRUE
    /\ UNCHANGED <<core, engine, hasEngine, ownsEngine, controller, frameVars,
                   registrarVars, channelVars, windowVars, textureVars, teardownVars>>

\* The C engine is destroyed: first the plugin registrar, if there is one.
DestroyCore ==
    teardown' = IF registrar = "alive" THEN "plugins" ELSE "core"

\* mutant: an engine that was relinquished is destroyed all the same
ShutDownAnyEngine ==
    /\ IF hasEngine THEN DestroyCore
       ELSE teardown' = IF dying' THEN "wrapper" ELSE "no"
    /\ hasEngine' = FALSE

ShutDown ==
    /\ IF hasEngine /\ ownsEngine THEN DestroyCore
       ELSE teardown' = IF dying' THEN "wrapper" ELSE "no"
    /\ hasEngine' = FALSE

CallShutDown ==
    /\ PlatformFree /\ engine = "alive"
    /\ dying' = FALSE
    /\ ShutDown
    /\ UNCHANGED <<core, engine, ownsEngine, running, runSucceeded, controller,
                   frameVars, registrarVars, channelVars, windowVars, textureVars>>

DestroyEngine ==
    /\ PlatformFree /\ engine = "alive" /\ controller = "none"
    /\ dying' = TRUE
    /\ ShutDown
    /\ UNCHANGED <<core, engine, ownsEngine, running, runSucceeded, controller,
                   frameVars, registrarVars, channelVars, windowVars, textureVars>>

\* The controller's destructor destroys the C engine; its FlutterEngine is a
\* member and goes after that.
DestroyController ==
    /\ PlatformFree /\ controller \in {"alive", "failed"}
    /\ dying' = TRUE
    /\ IF controller = "alive" THEN DestroyCore ELSE teardown' = "wrapper"
    /\ controller' = "gone"
    /\ UNCHANGED <<core, engine, hasEngine, ownsEngine, running, runSucceeded,
                   frameVars, registrarVars, channelVars, windowVars, textureVars>>

----------------------------------------------------------------------------
(* The callback of the next frame.                                         *)

SetNextFrameCallback ==
    /\ teardown = "no" /\ engine = "alive" /\ hasEngine /\ core = "alive"
    /\ Rearm \/ (~framePending /\ ~inFrame)
    /\ nextFrame' = TRUE /\ framePending' = TRUE
    /\ UNCHANGED <<inFrame, engineVars, registrarVars, channelVars, windowVars,
                   textureVars, teardownVars>>

FrameDrawn ==
    /\ PlatformFree /\ core = "alive" /\ running /\ framePending
    /\ framePending' = FALSE /\ inFrame' = TRUE
    /\ UNCHANGED <<nextFrame, engineVars, registrarVars, channelVars, windowVars,
                   textureVars, teardownVars>>

\* The callback is forgotten after it returns, with whatever it has set.
FrameCallbackReturns ==
    /\ inFrame
    /\ inFrame' = FALSE /\ nextFrame' = FALSE
    /\ UNCHANGED <<framePending, engineVars, registrarVars, channelVars, windowVars,
                   textureVars, teardownVars>>

----------------------------------------------------------------------------
(* The plugin registrar and what plugins do with it.                       *)

GetRegistrar ==
    /\ PlatformFree /\ engine = "alive" /\ hasEngine /\ core = "alive"
    /\ registrar = "none"
    /\ registrar' = "alive" /\ parts' = Members
    /\ UNCHANGED <<plugins, added, engineVars, frameVars, channelVars, windowVars,
                   textureVars, teardownVars>>

AddPlugin ==
    \E p \in Plugins \ added :
        /\ PlatformFree /\ registrar = "alive"
        /\ plugins' = plugins \cup {p} /\ added' = added \cup {p}
        /\ UNCHANGED <<registrar, parts, engineVars, frameVars, channelVars,
                       windowVars, textureVars, teardownVars>>

\* A plugin acts on its own, and in its destructor.
Acts(p) == p \in plugins /\ (PlatformFree \/ teardown = "plugins")

\* The core callback is one per channel, whichever messenger sets it.
SetMessageHandler(m, owner) ==
    /\ handlers' = handlers \cup {m} /\ callback' = m
    /\ handlerOf' = IF m = "registrar" THEN owner ELSE handlerOf
    /\ UNCHANGED <<engineVars, frameVars, registrarVars, windowVars,
                   textureVars, teardownVars>>

\* mutant: the engine goes on calling the handler that is gone
ClearMessageHandlerOnly(m) ==
    /\ handlers' = handlers \ {m}
    /\ handlerOf' = IF m = "registrar" THEN None ELSE handlerOf
    /\ UNCHANGED <<callback, engineVars, frameVars, registrarVars, windowVars,
                   textureVars, teardownVars>>

\* Clears the callback also when another messenger has set it since.
ClearMessageHandler(m) ==
    /\ handlers' = handlers \ {m} /\ callback' = None
    /\ handlerOf' = IF m = "registrar" THEN None ELSE handlerOf
    /\ UNCHANGED <<engineVars, frameVars, registrarVars, windowVars,
                   textureVars, teardownVars>>

PluginSetsHandler == \E p \in plugins : PlatformFree /\ SetMessageHandler("registrar", p)
PluginClearsHandler == \E p \in plugins : Acts(p) /\ ClearMessageHandler("registrar")

AppUsesMessenger == PlatformFree /\ engine = "alive" /\ hasEngine /\ core = "alive"
AppSetsHandler   == AppUsesMessenger /\ SetMessageHandler("engine", None)
AppClearsHandler == AppUsesMessenger /\ ClearMessageHandler("engine")

RegisterDelegate ==
    /\ \E p \in plugins : PlatformFree
    /\ nextDelegate <= MaxDelegates
    /\ windowProc' = (windowProc \/ delegates = {})
    /\ delegates' = delegates \cup {nextDelegate}
    /\ nextDelegate' = nextDelegate + 1
    /\ UNCHANGED <<engineVars, frameVars, registrarVars, channelVars,
                   textureVars, teardownVars>>

\* Any number may be given, also one that is not registered any more.
UnregisterDelegate ==
    \E p \in plugins, id \in 1 .. nextDelegate :
        /\ Acts(p)
        /\ delegates' = delegates \ {id}
        /\ windowProc' = (windowProc /\ delegates' # {})
        /\ UNCHANGED <<nextDelegate, engineVars, frameVars, registrarVars, channelVars,
                       textureVars, teardownVars>>

----------------------------------------------------------------------------
(* Textures: one of each plugin.                                           *)

RegisterTexture(p) ==
    /\ PlatformFree /\ p \in plugins /\ texture[p] = "none"
    /\ texture' = [texture EXCEPT ![p] = "registered"]
    /\ UNCHANGED <<rendering, engineVars, frameVars, registrarVars, channelVars,
                   windowVars, teardownVars>>

\* mutant: the callback is called before the engine has unregistered it
UnregisterTextureAtOnce(p) ==
    /\ Acts(p) /\ texture[p] = "registered"
    /\ texture' = [texture EXCEPT ![p] = "freed"]
    /\ UNCHANGED <<rendering, engineVars, frameVars, registrarVars, channelVars,
                   windowVars, teardownVars>>

\* The engine goes on using the texture until it has unregistered it; the
\* callback owns it until then.
UnregisterTexture(p) ==
    /\ Acts(p) /\ texture[p] = "registered"
    /\ texture' = [texture EXCEPT ![p] = "unregistering"]
    /\ UNCHANGED <<rendering, engineVars, frameVars, registrarVars, channelVars,
                   windowVars, teardownVars>>

TextureUnregistered(p) ==
    /\ core = "alive" /\ texture[p] = "unregistering" /\ rendering # p
    /\ texture' = [texture EXCEPT ![p] = "freed"]
    /\ UNCHANGED <<rendering, engineVars, frameVars, registrarVars, channelVars,
                   windowVars, teardownVars>>

CopyPixelBuffer(p) ==
    /\ core = "alive" /\ running /\ rendering = None
    /\ texture[p] \in {"registered", "unregistering"}
    /\ rendering' = p
    /\ UNCHANGED <<texture, engineVars, frameVars, registrarVars, channelVars,
                   windowVars, teardownVars>>

BufferCopied(p) ==
    /\ rendering = p
    /\ rendering' = None
    /\ UNCHANGED <<texture, engineVars, frameVars, registrarVars, channelVars,
                   windowVars, teardownVars>>

----------------------------------------------------------------------------
(* The destructors.                                                        *)

\* A plugin has its texture unregistered before it goes.
DestroyPlugin ==
    \E p \in plugins :
        /\ teardown = "plugins" /\ texture[p] # "registered"
        /\ plugins' = plugins \ {p}
        /\ UNCHANGED <<registrar, parts, added, engineVars, frameVars, channelVars,
                       windowVars, textureVars, teardownVars>>

\* mutant: the members go before the plugins
ClearPluginsLater == TRUE

\* ClearPlugins is the first call of both destructors.
ClearPlugins == plugins = {}

\* ~PluginRegistrarWindows: its own members, without a word to the engine.
DestroyViewAndDelegates ==
    /\ teardown = "plugins" /\ ClearPlugins
    /\ parts' = parts \ {"view", "delegates"}
    /\ delegates' = {}
    /\ teardown' = "registrar"
    /\ UNCHANGED <<dying, registrar, plugins, added, nextDelegate, windowProc,
                   engineVars, frameVars, channelVars, textureVars>>

\* ~PluginRegistrar: messenger_, with its handlers, and texture_registrar_.
DestroyRegistrar ==
    /\ teardown = "registrar"
    /\ registrar' = "gone" /\ parts' = {}
    /\ handlers' = handlers \ {"registrar"} /\ handlerOf' = None
    /\ teardown' = "core"
    /\ UNCHANGED <<dying, plugins, added, callback, engineVars, frameVars,
                   windowVars, textureVars>>

\* The C engine goes with everything it held; the raster thread has ended.
CoreDestroyed ==
    /\ teardown = "core" /\ rendering = None
    /\ core' = "gone" /\ running' = FALSE
    /\ framePending' = FALSE /\ callback' = None /\ windowProc' = FALSE
    /\ teardown' = IF dying THEN "wrapper" ELSE "no"
    /\ UNCHANGED <<dying, engine, hasEngine, ownsEngine, runSucceeded, controller,
                   nextFrame, inFrame, registrarVars, handlers, handlerOf,
                   delegates, nextDelegate, textureVars>>

\* The rest of the FlutterEngine: its messenger and the frame callback.
DestroyWrapper ==
    /\ teardown = "wrapper"
    /\ engine' = "gone" /\ hasEngine' = FALSE /\ nextFrame' = FALSE
    /\ handlers' = handlers \ {"engine"}
    /\ teardown' = "no" /\ dying' = FALSE
    /\ UNCHANGED <<core, ownsEngine, running, runSucceeded, controller,
                   framePending, inFrame, registrarVars, handlerOf, callback,
                   windowVars, textureVars>>

Application ==
    \/ CreateEngine \/ CreateController \/ Run \/ CallShutDown
    \/ DestroyEngine \/ DestroyController \/ SetNextFrameCallback
    \/ GetRegistrar \/ AddPlugin \/ AppSetsHandler \/ AppClearsHandler
    \/ PluginSetsHandler \/ PluginClearsHandler
    \/ RegisterDelegate \/ UnregisterDelegate
    \/ \E p \in Plugins : RegisterTexture(p) \/ UnregisterTexture(p)

Destructors ==
    \/ DestroyPlugin \/ DestroyViewAndDelegates \/ DestroyRegistrar
    \/ CoreDestroyed \/ DestroyWrapper

RasterThread ==
    \E p \in Plugins : TextureUnregistered(p) \/ CopyPixelBuffer(p) \/ BufferCopied(p)

Next ==
    Application \/ Destructors \/ RasterThread \/ FrameDrawn \/ FrameCallbackReturns

Spec == Init /\ [][Next]_vars

----------------------------------------------------------------------------
TypeOK ==
    /\ core \in {"none", "alive", "gone"} /\ engine \in {"none", "alive", "gone"}
    /\ {hasEngine, ownsEngine, running, runSucceeded} \subseteq BOOLEAN
    /\ controller \in {"none", "alive", "failed", "gone"}
    /\ {nextFrame, framePending, inFrame, windowProc, dying} \subseteq BOOLEAN
    /\ registrar \in {"none", "alive", "gone"} /\ parts \subseteq Members
    /\ plugins \subseteq Plugins /\ added \subseteq Plugins
    /\ handlers \subseteq Messengers /\ callback \in Messengers \cup {None}
    /\ handlerOf \in Plugins \cup {None}
    /\ nextDelegate \in 1 .. MaxDelegates + 1
    /\ delegates \subseteq 1 .. MaxDelegates
    /\ texture \in [Plugins -> {"none", "registered", "unregistering", "freed"}]
    /\ rendering \in Plugins \cup {None}
    /\ teardown \in {"no", "plugins", "registrar", "core", "wrapper"}

\* Whenever the engine may call into the wrapper, what it would call is there:
\* the handler of the channel and the plugin that set it, the registrar of
\* the window procedure, the FlutterEngine and the callback of the next frame.
CallbacksPointToLiveObjects ==
    core = "alive" /\ PlatformFree =>
        /\ callback # None => callback \in handlers
        /\ callback = "engine" => engine = "alive"
        /\ callback = "registrar" => registrar = "alive" /\ handlerOf \in plugins
        /\ windowProc <=> (registrar = "alive" /\ delegates # {})
        /\ framePending => engine = "alive" /\ nextFrame

\* A plugin that is destroyed may use everything its registrar gave it, and
\* the engine behind that.
PluginsGoFirst ==
    plugins # {} => parts = Members /\ registrar = "alive" /\ core = "alive"

\* The raster thread never reads a texture that its plugin has freed.
TextureOutlivesRendering ==
    rendering # None => texture[rendering] # "freed"

\* The engine of the C API has exactly one owner that will destroy it as long
\* as it lives, and nobody destroys it again.
Owners ==
    (IF engine = "alive" /\ hasEngine /\ ownsEngine THEN {"engine"} ELSE {})
        \cup (IF controller = "alive" THEN {"controller"} ELSE {})

EngineHasOneOwner ==
    teardown = "no" =>
        /\ core = "alive" => Cardinality(Owners) = 1
        /\ core = "gone" => Owners = {}
============================================================================
