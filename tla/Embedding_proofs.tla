-------------------------- MODULE Embedding_proofs --------------------------
(***************************************************************************)
(* The safety properties of Embedding for any set of plugins and any       *)
(* number of window procedure delegates.                                   *)
(***************************************************************************)
EXTENDS Embedding, FiniteSetTheorems, TLAPS

\* Who will destroy the C engine, also while it is being destroyed.
OwnerInv ==
    /\ ownsEngine <=> controller = "none"
    /\ engine = "none" <=> core = "none"
    /\ engine = "none" => controller = "none" /\ teardown = "no" /\ ~hasEngine
    /\ engine = "gone" => core = "gone"
    /\ controller = "alive" => core = "alive"
    /\ controller \in {"alive", "failed"} => engine = "alive" /\ teardown = "no"
    /\ core = "alive" /\ teardown = "no" /\ controller = "none" => hasEngine
    /\ core = "alive" /\ teardown = "no" => controller \in {"none", "alive"}
    /\ core = "alive" /\ teardown # "no" /\ ownsEngine => ~hasEngine
    /\ core = "gone" /\ ownsEngine => ~hasEngine
    /\ teardown \in {"plugins", "registrar", "core"} => core = "alive"
    /\ teardown = "wrapper" => core = "gone" /\ engine = "alive"

\* The registrar is complete until its plugins are gone.
RegistrarInv ==
    /\ PluginsGoFirst
    /\ registrar = "alive" =>
         /\ core = "alive"
         /\ teardown \in {"no", "plugins"} => parts = Members
    /\ teardown \in {"plugins", "registrar"} => registrar = "alive"
    /\ teardown = "core" => registrar # "alive"
    /\ teardown \in {"registrar", "core"} => plugins = {}

\* What the engine calls is there until a destructor runs that ends with the
\* engine, and a dead engine calls nothing.
CalledInv ==
    /\ core # "alive" => callback = None /\ ~windowProc
    /\ core = "alive" /\ teardown = "no" =>
         /\ callback # None => callback \in handlers
         /\ callback = "registrar" => handlerOf \in plugins
         /\ windowProc <=> (registrar = "alive" /\ delegates # {})
    /\ registrar = "none" => delegates = {}

\* With one next frame callback at a time.
FrameInv ==
    /\ core # "alive" => ~framePending
    /\ framePending => nextFrame /\ ~inFrame

RenderingInv ==
    \A p \in Plugins : rendering = p => texture[p] \in {"registered", "unregistering"}

----------------------------------------------------------------------------
(* Most steps leave the engine and its owners alone.                       *)

Lifecycle ==
    \/ CreateEngine \/ CreateController \/ Run \/ CallShutDown \/ DestroyEngine
    \/ DestroyController \/ DestroyViewAndDelegates \/ DestroyRegistrar
    \/ CoreDestroyed \/ DestroyWrapper

FrameStep == SetNextFrameCallback \/ FrameDrawn \/ FrameCallbackReturns

ChannelStep ==
    PluginSetsHandler \/ PluginClearsHandler \/ AppSetsHandler \/ AppClearsHandler

WindowStep == RegisterDelegate \/ UnregisterDelegate

PluginStep == GetRegistrar \/ AddPlugin \/ DestroyPlugin

TextureStep ==
    \E p \in Plugins :
        RegisterTexture(p) \/ UnregisterTexture(p) \/ TextureUnregistered(p)
            \/ CopyPixelBuffer(p) \/ BufferCopied(p)

LEMMA Steps ==
    Next => Lifecycle \/ FrameStep \/ ChannelStep \/ WindowStep \/ PluginStep \/ TextureStep
BY DEF Next, Application, Destructors, RasterThread, Lifecycle, FrameStep, ChannelStep,
       WindowStep, PluginStep, TextureStep

LEMMA Unchanged ==
    /\ FrameStep => UNCHANGED <<engineVars, registrarVars, channelVars, windowVars,
                                textureVars, teardownVars>>
    /\ ChannelStep => UNCHANGED <<engineVars, frameVars, registrarVars, windowVars,
                                  textureVars, teardownVars>>
    /\ WindowStep => UNCHANGED <<engineVars, frameVars, registrarVars, channelVars,
                                 textureVars, teardownVars>>
    /\ PluginStep => UNCHANGED <<engineVars, frameVars, channelVars, windowVars,
                                 textureVars, teardownVars>>
    /\ TextureStep => UNCHANGED <<engineVars, frameVars, registrarVars, channelVars,
                                  windowVars, teardownVars>>
    /\ Lifecycle => UNCHANGED textureVars
<1>1. FrameStep => UNCHANGED <<engineVars, registrarVars, channelVars, windowVars,
                               textureVars, teardownVars>>
  BY DEF FrameStep, SetNextFrameCallback, FrameDrawn, FrameCallbackReturns
<1>2. ChannelStep => UNCHANGED <<engineVars, frameVars, registrarVars, windowVars,
                                 textureVars, teardownVars>>
  BY DEF ChannelStep, PluginSetsHandler, PluginClearsHandler, AppSetsHandler,
         AppClearsHandler, SetMessageHandler, ClearMessageHandler
<1>3. WindowStep => UNCHANGED <<engineVars, frameVars, registrarVars, channelVars,
                                textureVars, teardownVars>>
  BY DEF WindowStep, RegisterDelegate, UnregisterDelegate
<1>4. PluginStep => UNCHANGED <<engineVars, frameVars, channelVars, windowVars,
                                textureVars, teardownVars>>
  BY DEF PluginStep, GetRegistrar, AddPlugin, DestroyPlugin
<1>5. TextureStep => UNCHANGED <<engineVars, frameVars, registrarVars, channelVars,
                                 windowVars, teardownVars>>
  BY DEF TextureStep, RegisterTexture, UnregisterTexture, TextureUnregistered,
         CopyPixelBuffer, BufferCopied
<1>6. Lifecycle => UNCHANGED textureVars
  BY DEF Lifecycle, CreateEngine, CreateController, Run, CallShutDown, DestroyEngine,
         DestroyController, DestroyViewAndDelegates, DestroyRegistrar, CoreDestroyed,
         DestroyWrapper
<1> QED BY <1>1, <1>2, <1>3, <1>4, <1>5, <1>6

LEMMA Stutter ==
    UNCHANGED vars <=> UNCHANGED <<engineVars, frameVars, registrarVars, channelVars,
                                   windowVars, textureVars, teardownVars>>
BY DEF vars

----------------------------------------------------------------------------
LEMMA TypeInit == Init => TypeOK
<1> SUFFICES ASSUME Init PROVE TypeOK
  OBVIOUS
<1>1. nextDelegate \in 1 .. MaxDelegates + 1 /\ delegates \subseteq 1 .. MaxDelegates
  BY BoundAssumption DEF Init
<1>2. texture \in [Plugins -> {"none", "registered", "unregistering", "freed"}]
  BY DEF Init
<1> QED BY <1>1, <1>2 DEF Init, TypeOK

LEMMA TypeStep == TypeOK /\ [Next]_vars => TypeOK'
<1> SUFFICES ASSUME TypeOK, [Next]_vars PROVE TypeOK'
  OBVIOUS
<1> USE DEF TypeOK, Messengers
<1>1. CASE Lifecycle
  <2>1. /\ core' \in {"none", "alive", "gone"} /\ engine' \in {"none", "alive", "gone"}
        /\ {hasEngine', ownsEngine', running', runSucceeded'} \subseteq BOOLEAN
        /\ controller' \in {"none", "alive", "failed", "gone"}
    BY <1>1 DEF Lifecycle, CreateEngine, CreateController, Run, CallShutDown, DestroyEngine,
         DestroyController, DestroyViewAndDelegates, DestroyRegistrar, CoreDestroyed,
         DestroyWrapper, ShutDown, engineVars
  <2>2. {nextFrame', framePending', inFrame', windowProc', dying'} \subseteq BOOLEAN
    BY <1>1 DEF Lifecycle, CreateEngine, CreateController, Run, CallShutDown, DestroyEngine,
         DestroyController, DestroyViewAndDelegates, DestroyRegistrar, CoreDestroyed,
         DestroyWrapper, frameVars, windowVars, teardownVars
  <2>3. /\ registrar' \in {"none", "alive", "gone"} /\ parts' \subseteq Members
        /\ plugins' \subseteq Plugins /\ added' \subseteq Plugins
        /\ handlers' \subseteq Messengers /\ callback' \in Messengers \cup {None}
        /\ handlerOf' \in Plugins \cup {None}
    BY <1>1 DEF Lifecycle, CreateEngine, CreateController, Run, CallShutDown, DestroyEngine,
         DestroyController, DestroyViewAndDelegates, DestroyRegistrar, CoreDestroyed,
         DestroyWrapper, registrarVars, channelVars
  <2>4. nextDelegate' = nextDelegate /\ delegates' \subseteq delegates
    BY <1>1 DEF Lifecycle, CreateEngine, CreateController, Run, CallShutDown, DestroyEngine,
         DestroyController, DestroyViewAndDelegates, DestroyRegistrar, CoreDestroyed,
         DestroyWrapper, windowVars
  <2>5. teardown' \in {"no", "plugins", "registrar", "core", "wrapper"}
    BY <1>1 DEF Lifecycle, CreateEngine, CreateController, Run, CallShutDown, DestroyEngine,
         DestroyController, DestroyViewAndDelegates, DestroyRegistrar, CoreDestroyed,
         DestroyWrapper, ShutDown, DestroyCore, teardownVars
  <2>6. UNCHANGED textureVars
    BY <1>1, Unchanged
  <2> QED BY <2>1, <2>2, <2>3, <2>4, <2>5, <2>6 DEF textureVars
<1>2. CASE FrameStep
  <2>1. {nextFrame', framePending', inFrame'} \subseteq BOOLEAN
    BY <1>2 DEF FrameStep, SetNextFrameCallback, FrameDrawn, FrameCallbackReturns
  <2> QED BY <1>2, <2>1, Unchanged, ZenonT(90) DEF engineVars, registrarVars, channelVars, windowVars,
                                       textureVars, teardownVars
<1>3. CASE ChannelStep
  <2>1. /\ handlers' \subseteq Messengers /\ callback' \in Messengers \cup {None}
        /\ handlerOf' \in Plugins \cup {None}
    BY <1>3 DEF ChannelStep, PluginSetsHandler, PluginClearsHandler, AppSetsHandler,
                AppClearsHandler, SetMessageHandler, ClearMessageHandler
  <2> QED BY <1>3, <2>1, Unchanged DEF engineVars, frameVars, registrarVars, windowVars,
                                       textureVars, teardownVars
<1>4. CASE WindowStep
  <2>1. /\ nextDelegate' \in 1 .. MaxDelegates + 1
        /\ delegates' \subseteq 1 .. MaxDelegates
        /\ windowProc' \in BOOLEAN
    <3>1. CASE RegisterDelegate
      BY <3>1, BoundAssumption DEF RegisterDelegate
    <3>2. CASE UnregisterDelegate
      BY <3>2 DEF UnregisterDelegate
    <3> QED BY <1>4, <3>1, <3>2 DEF WindowStep
  <2> QED BY <1>4, <2>1, Unchanged, ZenonT(90) DEF engineVars, frameVars, registrarVars, channelVars,
                                       textureVars, teardownVars
<1>5. CASE PluginStep
  <2>1. /\ registrar' \in {"none", "alive", "gone"} /\ parts' \subseteq Members
        /\ plugins' \subseteq Plugins /\ added' \subseteq Plugins
    BY <1>5 DEF PluginStep, GetRegistrar, AddPlugin, DestroyPlugin
  <2> QED BY <1>5, <2>1, Unchanged DEF engineVars, frameVars, channelVars, windowVars,
                                       textureVars, teardownVars
<1>6. CASE TextureStep
  <2>1. /\ texture' \in [Plugins -> {"none", "registered", "unregistering", "freed"}]
        /\ rendering' \in Plugins \cup {None}
    BY <1>6 DEF TextureStep, RegisterTexture, UnregisterTexture, TextureUnregistered,
                CopyPixelBuffer, BufferCopied
  <2> QED BY <1>6, <2>1, Unchanged, ZenonT(90) DEF engineVars, frameVars, registrarVars, channelVars,
                                       windowVars, teardownVars
<1>7. CASE UNCHANGED vars
  BY <1>7, Stutter, ZenonT(90) DEF engineVars, frameVars, registrarVars, channelVars, windowVars,
                       textureVars, teardownVars
<1> QED BY <1>1, <1>2, <1>3, <1>4, <1>5, <1>6, <1>7, Steps

----------------------------------------------------------------------------
LEMMA OwnerStep == TypeOK /\ OwnerInv /\ [Next]_vars => OwnerInv'
<1> SUFFICES ASSUME TypeOK, OwnerInv, [Next]_vars PROVE OwnerInv'
  OBVIOUS
<1> USE DEF OwnerInv, PlatformFree
<1>0. /\ {hasEngine, ownsEngine, dying} \subseteq BOOLEAN
      /\ core \in {"none", "alive", "gone"} /\ engine \in {"none", "alive", "gone"}
  BY DEF TypeOK
<1>1. CASE CreateEngine
  BY <1>1 DEF CreateEngine, teardownVars
<1>2. CASE CreateController
  BY <1>2 DEF CreateController, teardownVars
<1>3. CASE Run
  BY <1>3 DEF Run, teardownVars
<1>4. CASE CallShutDown
  <2>1. /\ UNCHANGED <<core, engine, ownsEngine, controller>> /\ ~hasEngine'
        /\ engine = "alive" /\ teardown = "no"
        /\ IF hasEngine /\ ownsEngine THEN teardown' \in {"plugins", "core"}
                                      ELSE teardown' = "no"
    BY <1>4 DEF CallShutDown, ShutDown, DestroyCore
  <2>2. CASE hasEngine /\ ownsEngine
    BY <2>1, <2>2, <1>0
  <2>3. CASE ~(hasEngine /\ ownsEngine)
    BY <2>1, <2>3, <1>0
  <2> QED BY <2>2, <2>3
<1>5. CASE DestroyEngine
  BY <1>5 DEF DestroyEngine, ShutDown, DestroyCore, TypeOK
<1>6. CASE DestroyController
  <2>1. /\ UNCHANGED <<core, engine, hasEngine, ownsEngine>> /\ controller' = "gone"
        /\ teardown = "no" /\ controller \in {"alive", "failed"}
        /\ IF controller = "alive" THEN teardown' \in {"plugins", "core"}
                                   ELSE teardown' = "wrapper"
    BY <1>6 DEF DestroyController, DestroyCore
  <2>2. CASE controller = "alive"
    BY <2>1, <2>2, <1>0
  <2>3. CASE controller = "failed"
    BY <2>1, <2>3, <1>0
  <2> QED BY <2>1, <2>2, <2>3
<1>7. CASE DestroyViewAndDelegates
  BY <1>7 DEF DestroyViewAndDelegates, engineVars
<1>8. CASE DestroyRegistrar
  BY <1>8 DEF DestroyRegistrar, engineVars
<1>9. CASE CoreDestroyed
  BY <1>9, <1>0 DEF CoreDestroyed, TypeOK
<1>10. CASE DestroyWrapper
  BY <1>10 DEF DestroyWrapper
<1>11. FrameStep \/ ChannelStep \/ WindowStep \/ PluginStep \/ TextureStep \/ UNCHANGED vars
         => UNCHANGED <<engineVars, teardownVars>>
  BY Unchanged, Stutter
<1>12. CASE UNCHANGED <<engineVars, teardownVars>>
  BY <1>12 DEF engineVars, teardownVars
<1> QED
  BY <1>1, <1>2, <1>3, <1>4, <1>5, <1>6, <1>7, <1>8, <1>9, <1>10, <1>11, <1>12, Steps
     DEF Lifecycle

----------------------------------------------------------------------------
LEMMA RegistrarStep ==
    TypeOK /\ OwnerInv /\ RegistrarInv /\ [Next]_vars => RegistrarInv'
<1> SUFFICES ASSUME TypeOK, OwnerInv, RegistrarInv, [Next]_vars PROVE RegistrarInv'
  OBVIOUS
<1> USE DEF RegistrarInv, PluginsGoFirst
<1>1. CASE CreateEngine \/ CreateController
  BY <1>1 DEF CreateEngine, CreateController, registrarVars, teardownVars, OwnerInv
<1>2. CASE Run
  BY <1>2 DEF Run, registrarVars, teardownVars
<1>3. CASE CallShutDown \/ DestroyEngine \/ DestroyController
  BY <1>3 DEF CallShutDown, DestroyEngine, DestroyController, ShutDown, DestroyCore,
              registrarVars, PlatformFree
<1>4. CASE DestroyViewAndDelegates
  BY <1>4 DEF DestroyViewAndDelegates, ClearPlugins, engineVars
<1>5. CASE DestroyRegistrar
  BY <1>5 DEF DestroyRegistrar, engineVars
<1>6. CASE CoreDestroyed
  BY <1>6 DEF CoreDestroyed, registrarVars
<1>7. CASE DestroyWrapper
  BY <1>7 DEF DestroyWrapper, registrarVars, OwnerInv
<1>8. CASE PluginStep
  BY <1>8, Unchanged DEF PluginStep, GetRegistrar, AddPlugin, DestroyPlugin, PlatformFree,
                         engineVars, teardownVars
<1>9. FrameStep \/ ChannelStep \/ WindowStep \/ TextureStep \/ UNCHANGED vars
        => UNCHANGED <<engineVars, registrarVars, teardownVars>>
  BY Unchanged, Stutter
<1>10. CASE UNCHANGED <<engineVars, registrarVars, teardownVars>>
  BY <1>10 DEF engineVars, registrarVars, teardownVars
<1> QED
  BY <1>1, <1>2, <1>3, <1>4, <1>5, <1>6, <1>7, <1>8, <1>9, <1>10, Steps DEF Lifecycle

----------------------------------------------------------------------------
LEMMA CalledStep ==
    TypeOK /\ OwnerInv /\ RegistrarInv /\ CalledInv /\ [Next]_vars => CalledInv'
<1> SUFFICES ASSUME TypeOK, OwnerInv, RegistrarInv, CalledInv, [Next]_vars
             PROVE  CalledInv'
  OBVIOUS
<1> USE DEF CalledInv, PlatformFree
<1>0. None \notin Plugins \cup {"engine", "registrar"} /\ plugins \subseteq Plugins
  BY NoneAssumption DEF TypeOK, Messengers
<1>1. CASE CreateEngine \/ CreateController
  <2>1. core = "none" /\ callback = None /\ ~windowProc /\ registrar # "alive" /\ plugins = {}
    BY <1>1 DEF CreateEngine, CreateController, OwnerInv, RegistrarInv, PluginsGoFirst
  <2> QED BY <1>1, <2>1, <1>0 DEF CreateEngine, CreateController, registrarVars, channelVars,
                            windowVars, teardownVars
<1>2. CASE Run
  BY <1>2 DEF Run, registrarVars, channelVars, windowVars, teardownVars
<1>3. CASE CallShutDown \/ DestroyEngine \/ DestroyController
  BY <1>3 DEF CallShutDown, DestroyEngine, DestroyController, ShutDown, DestroyCore,
              registrarVars, channelVars, windowVars
<1>4. CASE DestroyViewAndDelegates
  BY <1>4 DEF DestroyViewAndDelegates, engineVars, channelVars
<1>5. CASE DestroyRegistrar
  BY <1>5 DEF DestroyRegistrar, engineVars, windowVars
<1>6. CASE CoreDestroyed
  BY <1>6 DEF CoreDestroyed, registrarVars
<1>7. CASE DestroyWrapper
  BY <1>7 DEF DestroyWrapper, OwnerInv, registrarVars, windowVars
<1>8. CASE PluginStep
  BY <1>8, Unchanged DEF PluginStep, GetRegistrar, AddPlugin, DestroyPlugin, engineVars,
                         channelVars, windowVars, teardownVars
<1>9. CASE PluginSetsHandler
  BY <1>9 DEF PluginSetsHandler, SetMessageHandler, engineVars, registrarVars, windowVars,
              teardownVars, RegistrarInv, PluginsGoFirst
<1>10. CASE PluginClearsHandler
  <2>1. /\ UNCHANGED <<core, teardown, registrar, plugins, delegates, windowProc>>
        /\ callback' = None
    BY <1>10 DEF PluginClearsHandler, ClearMessageHandler, engineVars, registrarVars, windowVars,
                 teardownVars
  <2> QED BY <2>1, <1>0
<1>11. CASE AppSetsHandler
  BY <1>11 DEF AppSetsHandler, AppUsesMessenger, SetMessageHandler, engineVars,
               registrarVars, windowVars, teardownVars
<1>12. CASE AppClearsHandler
  <2>1. /\ UNCHANGED <<core, teardown, registrar, plugins, delegates, windowProc>>
        /\ callback' = None
    BY <1>12 DEF AppClearsHandler, ClearMessageHandler, engineVars, registrarVars, windowVars,
                 teardownVars
  <2> QED BY <2>1, <1>0
<1>13. CASE RegisterDelegate
  <2>1. /\ registrar = "alive" /\ core = "alive" /\ teardown = "no"
        /\ windowProc' = (windowProc \/ delegates = {}) /\ delegates' # {}
        /\ UNCHANGED <<core, teardown, registrar, plugins, callback, handlers, handlerOf>>
    BY <1>13 DEF RegisterDelegate, RegistrarInv, PluginsGoFirst, engineVars,
                 registrarVars, channelVars, teardownVars
  <2>2. windowProc'
    BY <2>1
  <2> QED BY <2>1, <2>2
<1>14. CASE UnregisterDelegate
  BY <1>14 DEF UnregisterDelegate, engineVars, registrarVars, channelVars, teardownVars
<1>15. FrameStep \/ TextureStep \/ UNCHANGED vars
         => UNCHANGED <<engineVars, registrarVars, channelVars, windowVars, teardownVars>>
  BY Unchanged, Stutter
<1>16. CASE UNCHANGED <<engineVars, registrarVars, channelVars, windowVars, teardownVars>>
  BY <1>16 DEF engineVars, registrarVars, channelVars, windowVars, teardownVars
<1> QED
  BY <1>1, <1>2, <1>3, <1>4, <1>5, <1>6, <1>7, <1>8, <1>9, <1>10, <1>11, <1>12, <1>13,
     <1>14, <1>15, <1>16, Steps DEF Lifecycle, ChannelStep, WindowStep

----------------------------------------------------------------------------
\* Without a second callback, the one that is set stays until it is called.
LEMMA FrameStepInv ==
    ~Rearm /\ OwnerInv /\ FrameInv /\ [Next]_vars => FrameInv'
<1> SUFFICES ASSUME ~Rearm, OwnerInv, FrameInv, [Next]_vars PROVE FrameInv'
  OBVIOUS
<1> USE DEF FrameInv
<1>1. CASE CreateEngine \/ CreateController
  BY <1>1 DEF CreateEngine, CreateController, frameVars, OwnerInv
<1>2. CASE Run \/ CallShutDown \/ DestroyEngine \/ DestroyController
  <2>1. UNCHANGED <<core, nextFrame, framePending, inFrame>>
    BY <1>2 DEF Run, CallShutDown, DestroyEngine, DestroyController, frameVars
  <2> QED BY <2>1
<1>3. CASE DestroyViewAndDelegates \/ DestroyRegistrar
  BY <1>3 DEF DestroyViewAndDelegates, DestroyRegistrar, engineVars, frameVars
<1>4. CASE CoreDestroyed
  BY <1>4 DEF CoreDestroyed
<1>5. CASE DestroyWrapper
  BY <1>5 DEF DestroyWrapper, OwnerInv
<1>6. CASE FrameStep
  BY <1>6 DEF FrameStep, SetNextFrameCallback, FrameDrawn, FrameCallbackReturns, engineVars
<1>7. ChannelStep \/ WindowStep \/ PluginStep \/ TextureStep \/ UNCHANGED vars
        => UNCHANGED <<engineVars, frameVars>>
  BY Unchanged, Stutter
<1>8. CASE UNCHANGED <<engineVars, frameVars>>
  BY <1>8 DEF engineVars, frameVars
<1> QED BY <1>1, <1>2, <1>3, <1>4, <1>5, <1>6, <1>7, <1>8, Steps DEF Lifecycle

LEMMA RenderingStep == TypeOK /\ RenderingInv /\ [Next]_vars => RenderingInv'
<1> SUFFICES ASSUME TypeOK, RenderingInv, [Next]_vars PROVE RenderingInv'
  OBVIOUS
<1>1. CASE TextureStep
  BY <1>1, NoneAssumption
     DEF TextureStep, RegisterTexture, UnregisterTexture, TextureUnregistered,
         CopyPixelBuffer, BufferCopied, RenderingInv, TypeOK
<1>2. Lifecycle \/ FrameStep \/ ChannelStep \/ WindowStep \/ PluginStep \/ UNCHANGED vars
        => UNCHANGED textureVars
  BY Unchanged, Stutter
<1>3. CASE UNCHANGED textureVars
  BY <1>3 DEF textureVars, RenderingInv
<1> QED BY <1>1, <1>2, <1>3, Steps

----------------------------------------------------------------------------
IInv == TypeOK /\ OwnerInv /\ RegistrarInv /\ CalledInv /\ RenderingInv

LEMMA InitIInv == Init => IInv
<1> SUFFICES ASSUME Init PROVE IInv
  OBVIOUS
<1>1. OwnerInv /\ RegistrarInv
  BY DEF Init, OwnerInv, RegistrarInv, PluginsGoFirst
<1>2. CalledInv /\ RenderingInv
  BY NoneAssumption DEF Init, CalledInv, RenderingInv, Messengers
<1> QED BY <1>1, <1>2, TypeInit DEF IInv

LEMMA StepIInv == IInv /\ [Next]_vars => IInv'
BY TypeStep, OwnerStep, RegistrarStep, CalledStep, RenderingStep DEF IInv

LEMMA IInvHolds == Spec => []IInv
BY InitIInv, StepIInv, PTL DEF Spec

LEMMA FrameInvHolds ==
    ASSUME ~Rearm PROVE Spec => []FrameInv
<1>1. Init => FrameInv
  BY DEF Init, FrameInv
<1>2. IInv /\ FrameInv /\ [Next]_vars => FrameInv'
  BY FrameStepInv DEF IInv
<1> QED BY <1>1, <1>2, IInvHolds, PTL DEF Spec

\* Embedding keeps its types.
THEOREM TypesHold == Spec => []TypeOK
<1>1. IInv => TypeOK
  BY DEF IInv
<1> QED BY <1>1, IInvHolds, PTL

\* The C engine has one owner as long as it lives, and none after that.
THEOREM OneOwner == Spec => []EngineHasOneOwner
<1>1. IInv => EngineHasOneOwner
  <2> SUFFICES ASSUME IInv, teardown = "no"
               PROVE  /\ core = "alive" => Cardinality(Owners) = 1
                      /\ core = "gone" => Owners = {}
    BY DEF EngineHasOneOwner
  <2> USE DEF IInv, OwnerInv, TypeOK
  <2>1. CASE core = "alive"
    <3>1. Owners = {"engine"} \/ Owners = {"controller"}
      BY <2>1 DEF Owners
    <3> QED BY <2>1, <3>1, FS_Singleton
  <2>2. CASE core = "gone"
    BY <2>2 DEF Owners
  <2> QED BY <2>1, <2>2
<1> QED BY <1>1, IInvHolds, PTL

\* Plugins are destroyed before anything they may use.
THEOREM PluginsAreDestroyedFirst == Spec => []PluginsGoFirst
<1>1. IInv => PluginsGoFirst
  BY DEF IInv, RegistrarInv
<1> QED BY <1>1, IInvHolds, PTL

\* A texture that is rendered is not freed.
THEOREM RenderedTexturesAreThere == Spec => []TextureOutlivesRendering
<1>1. IInv => TextureOutlivesRendering
  BY DEF IInv, RenderingInv, TypeOK, TextureOutlivesRendering
<1> QED BY <1>1, IInvHolds, PTL

\* The engine calls nothing that is gone, if next frame callbacks are set one
\* after the other.
THEOREM CallbacksAreThere ==
    ASSUME ~Rearm PROVE Spec => []CallbacksPointToLiveObjects
<1>1. IInv /\ FrameInv => CallbacksPointToLiveObjects
  BY DEF IInv, OwnerInv, RegistrarInv, PluginsGoFirst, CalledInv, FrameInv, TypeOK,
         CallbacksPointToLiveObjects, PlatformFree
<1> QED BY <1>1, IInvHolds, FrameInvHolds, PTL
=============================================================================
