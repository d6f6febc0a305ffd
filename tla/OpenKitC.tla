------------------------------- MODULE OpenKitC -------------------------------
(***************************************************************************)
(* The C interface: configurations, loggers, trust managers and the        *)
(* handles of OpenKit instances, sessions, actions and tracers, over the   *)
(* instances of OpenKit.  A handle is memory that one call allocates and   *)
(* another frees.  The handles of loggers and trust managers are allocated *)
(* by the application or, where it gave none, by createDynatraceOpenKit(), *)
(* and then shutdownOpenKit() has to free them.                            *)
(*                                                                         *)
(* The application keeps to the interface's terms: it does not use what it *)
(* has released, and it frees a logger or a trust manager only when no     *)
(* configuration names it.  It may use a session of an instance that is    *)
(* shut down, and create one while the instance is being shut down.        *)
(***************************************************************************)
EXTENDS OpenKit

CONSTANTS Configs,  \* OpenKitConfigurationHandles
          Loggers,  \* LoggerHandles that the application creates
          TrustManagers, \* TrustManagerHandles that the application creates
          OwnBlocks,     \* handles of both kinds that OpenKit creates
          Handles,  \* handles of sessions, root actions, actions and tracers
          Null,
          Bounds    \* each the set of what exists in a behaviour

TRUST_MODE == {"STRICT_TRUST", "CUSTOM_TRUST", "BLIND_TRUST"}
Blocks == Loggers \cup TrustManagers \cup OwnBlocks

ASSUME OpenKitCAssumption ==
    /\ Loggers \cap TrustManagers = {} /\ OwnBlocks \cap (Loggers \cup TrustManagers) = {}
    /\ Null \notin Blocks \cup Sessions /\ NoKit \notin Kits /\ IsFiniteSet(Kits)
    /\ \A bd \in Bounds : bd \subseteq Kits \cup Sessions \cup Configs \cup Blocks \cup Handles
                                       \cup TRUST_MODE

VARIABLES config, block, kitHandle, handle,
          faults,   \* the blocks with undefined behaviour: freed again, or used
                    \* after they were freed
          reused,   \* history: the blocks a further instance got from an
                    \* earlier one through the configuration
          bound

cVars == <<config, block, kitHandle, handle, faults, reused>>
vars == <<kitVars, cVars, bound>>

NoConfig == [state |-> "none", loggerHandle |-> Null, ownsLoggerHandle |-> FALSE,
             trustMode |-> "STRICT_TRUST", trustManagerHandle |-> Null,
             ownsTrustManagerHandle |-> FALSE]
NoKitHandle == [state |-> "none", loggerHandle |-> Null, ownsLoggerHandle |-> FALSE,
                trustManagerHandle |-> Null, ownsTrustManagerHandle |-> FALSE]
NoHandle == [state |-> "none", kind |-> "session", session |-> Null]

Init ==
    /\ KitInit
    /\ config = [c \in Configs |-> NoConfig]
    /\ block = [b \in Blocks |-> [state |-> "none"]]
    /\ kitHandle = [k \in Kits |-> NoKitHandle]
    /\ handle = [h \in Handles |-> NoHandle]
    /\ faults = {} /\ reused = {} /\ bound \in Bounds

Unused(f) == {x \in DOMAIN f \cap bound : f[x].state = "none"}
New(f) == CHOOSE x \in Unused(f) : TRUE
Live(f, x) == f[x].state = "live"

(* The instances the application can reach through handles kh and oh. *)
Held(kh, oh) ==
    {k \in Kits : kh[k].state \in {"live", "closing"}}
      \cup {session[oh[h].session].kit :
              h \in {g \in Handles : oh[g].state \in {"live", "ending"} /\ oh[g].session # Null}}

held == Held(kitHandle, handle)
-----------------------------------------------------------------------------
(* Loggers and trust managers of the application. *)
Allocated(D) == [b \in Blocks |-> IF b \in D THEN [block[b] EXCEPT !.state = "live"] ELSE block[b]]

createLogger(b) ==
    /\ b \in Loggers \cap Unused(block)
    /\ block' = Allocated({b})
    /\ UNCHANGED <<kitVars, config, kitHandle, handle, faults, reused>>

createCustomTrustManager(b) ==
    /\ b \in TrustManagers \cap Unused(block)
    /\ block' = Allocated({b})
    /\ UNCHANGED <<kitVars, config, kitHandle, handle, faults, reused>>

(* destroyLogger(), destroyTrustManager(): of a null pointer they do nothing. *)
Destroyed(B, D) == [b \in Blocks |-> IF b \in D THEN [B[b] EXCEPT !.state = "destroyed"] ELSE B[b]]
Freed(B, D) == {b \in D : ~Live(B, b)}

Named(b) == \E c \in Configs : Live(config, c) /\ b \in {config[c].loggerHandle,
                                                        config[c].trustManagerHandle}

destroyByApplication(b) ==
    /\ Live(block, b) /\ b \notin OwnBlocks /\ ~Named(b)
    /\ block' = Destroyed(block, {b}) /\ faults' = faults \cup Freed(block, {b})
    /\ UNCHANGED <<kitVars, config, kitHandle, handle, reused>>
-----------------------------------------------------------------------------
createOpenKitConfiguration ==
    /\ Unused(config) # {}
    /\ config' = [config EXCEPT ![New(config)].state = "live"]
    /\ UNCHANGED <<kitVars, block, kitHandle, handle, faults, reused>>

Given(S) == {b \in S : Live(block, b)}

(* The owns flags stay as they are. *)
useLoggerForConfiguration(c, b) ==
    /\ Live(config, c) /\ b \in Given(Loggers)
    /\ config' = [config EXCEPT ![c].loggerHandle = b]
    /\ UNCHANGED <<kitVars, block, kitHandle, handle, faults, reused>>

useTrustModeForConfiguration(c, mode, b) ==
    /\ Live(config, c) /\ mode \in bound /\ b \in Given(TrustManagers) \cup {Null}
    /\ config' = [config EXCEPT ![c].trustMode = mode, ![c].trustManagerHandle = b]
    /\ UNCHANGED <<kitVars, block, kitHandle, handle, faults, reused>>

(* Frees the configuration and its strings; loggers and trust managers it leaves. *)
destroyOpenKitConfiguration(c) ==
    /\ Live(config, c)
    /\ config' = [config EXCEPT ![c].state = "destroyed"]
    /\ UNCHANGED <<kitVars, block, kitHandle, handle, faults, reused>>
-----------------------------------------------------------------------------
(***************************************************************************)
(* createTrustManagerHandle(), getLoggerHandle(): the handle of the        *)
(* configuration, or the new one b.                                        *)
(***************************************************************************)
createTrustManagerHandle(cfg, b) ==
    IF cfg.trustMode = "CUSTOM_TRUST" /\ cfg.trustManagerHandle # Null
    THEN cfg.trustManagerHandle ELSE b

getLoggerHandle(cfg, b) == IF cfg.loggerHandle = Null THEN b ELSE cfg.loggerHandle

(* Mutant: the trust manager of the application is taken for an own one. *)
initializeOpenKitBuilder_OwnsAny(cfg, bt, bl) ==
    [cfg EXCEPT !.trustManagerHandle = createTrustManagerHandle(cfg, bt),
                !.ownsTrustManagerHandle = createTrustManagerHandle(cfg, bt) # Null,
                !.loggerHandle = getLoggerHandle(cfg, bl),
                !.ownsLoggerHandle = @ \/ cfg.loggerHandle = Null]

(* What the builder is given, and what the configuration is afterwards. *)
initializeOpenKitBuilder(cfg, bt, bl) ==
    [cfg EXCEPT !.trustManagerHandle = createTrustManagerHandle(cfg, bt),
                !.ownsTrustManagerHandle = createTrustManagerHandle(cfg, bt) # cfg.trustManagerHandle,
                !.loggerHandle = getLoggerHandle(cfg, bl),
                !.ownsLoggerHandle = @ \/ cfg.loggerHandle = Null]

createOpenKitHandle(cfg) ==
    [state |-> "live", loggerHandle |-> cfg.loggerHandle,
     ownsLoggerHandle |-> cfg.ownsLoggerHandle,
     trustManagerHandle |-> cfg.trustManagerHandle,
     ownsTrustManagerHandle |-> cfg.ownsTrustManagerHandle]

(***************************************************************************)
(* What a further instance made from the configuration gets of an earlier  *)
(* one: the logger, if createDynatraceOpenKit() once made one for this     *)
(* configuration, because the flag that says so stays; and a trust manager *)
(* it made, if the mode asks for the one of the configuration.             *)
(***************************************************************************)
GotFromEarlier(cfg) ==
    Blocks \cap (  (IF cfg.ownsLoggerHandle THEN {cfg.loggerHandle} ELSE {})
               \cup (IF cfg.trustMode = "CUSTOM_TRUST"
                     THEN {cfg.trustManagerHandle} \cap OwnBlocks ELSE {}))

AnyOf(S) == CHOOSE b \in S : TRUE

createDynatraceOpenKit(c, k) ==
    LET free == OwnBlocks \cap Unused(block)
        bt == AnyOf(free)
        bl == AnyOf(free \ {bt})
        cfg == initializeOpenKitBuilder(config[c], bt, bl)
        made == {bt, bl} \cap {cfg.trustManagerHandle, cfg.loggerHandle}
    IN /\ Live(config, c) /\ k \in Unused(kitHandle)
       /\ Cardinality(free) >= 2
       /\ block' = Allocated(made)
       /\ config' = [config EXCEPT ![c] = cfg]
       /\ kitHandle' = [kitHandle EXCEPT ![k] = createOpenKitHandle(cfg)]
       /\ faults' = faults \cup Freed(block', {cfg.loggerHandle, cfg.trustManagerHandle})
       /\ reused' = reused \cup GotFromEarlier(config[c])
       /\ build(k)
       /\ UNCHANGED handle

(* shutdownOpenKit(): the instance's shutdown(), then its handle is released. *)
shutdownOpenKit(k) ==
    /\ Live(kitHandle, k)
    /\ kitHandle' = [kitHandle EXCEPT ![k].state = "closing"]
    /\ shutdown(k)
    /\ UNCHANGED <<config, block, handle, faults, reused>>

Owned(kh) == (IF kh.ownsTrustManagerHandle THEN {kh.trustManagerHandle} ELSE {})
               \cup (IF kh.ownsLoggerHandle THEN {kh.loggerHandle} ELSE {})

releaseOpenKit(k) ==
    /\ kitHandle[k].state = "closing" /\ shutdownReturns(k)
    /\ kitHandle' = [kitHandle EXCEPT ![k].state = "released"]
    /\ Release([kit EXCEPT ![k].stage = "done"], Held(kitHandle', handle))
    /\ block' = Destroyed(block, Owned(kitHandle[k]) \ {Null})
    /\ faults' = faults \cup Freed(block, Owned(kitHandle[k]) \ {Null})
    /\ UNCHANGED <<config, handle, reused, session>>
-----------------------------------------------------------------------------
NewHandle(kind, s) ==
    /\ Unused(handle) # {}
    /\ handle' = [handle EXCEPT ![New(handle)] = [state |-> "live", kind |-> kind, session |-> s]]

(* Of an instance that is shut down: the NullSession. *)
createSessionHandle(k) ==
    /\ kitHandle[k].state \in {"live", "closing"}
    /\ \/ /\ Unused(session) # {}
          /\ createSession(k, New(session)) /\ NewHandle("session", New(session))
       \/ /\ kit[k].mIsShutdown
          /\ NewHandle("session", Null) /\ UNCHANGED kitVars
    /\ UNCHANGED <<config, block, kitHandle, faults, reused>>

LiveOf(h, kinds) == Live(handle, h) /\ handle[h].kind \in kinds

(* A null session, or one that has ended, gives null objects. *)
ObjectOf(h) == IF handle[h].session # Null /\ session[handle[h].session].state = "open"
               THEN handle[h].session ELSE Null

Opened(h, kinds, kind) ==
    /\ LiveOf(h, kinds) /\ NewHandle(kind, ObjectOf(h))
    /\ UNCHANGED <<kitVars, config, block, kitHandle, faults, reused>>

enterRootAction(h) == Opened(h, {"session"}, "rootAction")
enterAction(h) == Opened(h, {"rootAction"}, "action")
traceWebRequest(h) == Opened(h, {"session", "rootAction", "action"}, "tracer")

Capturing(h) == handle[h].session # Null /\ session[handle[h].session].state \in {"open", "ending"}

Captured(h) == IF Capturing(h) THEN [session EXCEPT ![handle[h].session].data = TRUE] ELSE session

(* identifyUser() ... sendEvent(), the reports on actions, startWebRequest() ... *)
report(h, kinds) ==
    /\ LiveOf(h, kinds) /\ Capturing(h)
    /\ session' = Captured(h)
    /\ UNCHANGED <<kit, gInstanceCount, curl, cVars>>

reportOnSession(h) == report(h, {"session"})
reportOnRootAction(h) == report(h, {"rootAction"})
reportOnAction(h) == report(h, {"action"})

ReleaseHandle(h, K) ==
    /\ handle' = [handle EXCEPT ![h].state = "released"]
    /\ Release(K, Held(kitHandle, handle'))
    /\ UNCHANGED <<config, block, kitHandle, faults, reused>>

(* endSession(): end(), which may take long, then the handle is released. *)
endSession(h) ==
    /\ LiveOf(h, {"session"})
    /\ IF ObjectOf(h) # Null
       THEN /\ end(handle[h].session)
            /\ handle' = [handle EXCEPT ![h].state = "ending"]
            /\ UNCHANGED <<kit, gInstanceCount, curl, config, block, kitHandle, faults, reused>>
       ELSE ReleaseHandle(h, kit) /\ UNCHANGED session

endReturns(h) ==
    /\ handle[h].state = "ending"
    /\ session' = Finished(handle[h].session)
    /\ ReleaseHandle(h, onChildClosed(kit, handle[h].session))

leaveRootAction(h) ==
    /\ LiveOf(h, {"rootAction"}) /\ session' = Captured(h) /\ ReleaseHandle(h, kit)
cancelRootAction(h) ==
    /\ LiveOf(h, {"rootAction"}) /\ UNCHANGED session /\ ReleaseHandle(h, kit)
leaveAction(h) ==
    /\ LiveOf(h, {"action"}) /\ session' = Captured(h) /\ ReleaseHandle(h, kit)
cancelAction(h) ==
    /\ LiveOf(h, {"action"}) /\ UNCHANGED session /\ ReleaseHandle(h, kit)
stopWebRequestWithResponseCode(h) ==
    /\ LiveOf(h, {"tracer"}) /\ session' = Captured(h) /\ ReleaseHandle(h, kit)
-----------------------------------------------------------------------------
(* The next step of a call of shutdownOpenKit(). *)
ShutdownStep(k) ==
    \/ /\ \/ \E s \in Sessions : closeChild(k, s)
          \/ \E t \in Threads : requestStop(k, t)
          \/ join(k)
       /\ UNCHANGED cVars
    \/ releaseOpenKit(k)

ThreadStep(k) ==
    /\ \/ \E t \in Threads : threadEnds(k, t)
       \/ initCompleted(k)
       \/ \E s \in Sessions : sendBeacon(k, s, held)
       \/ senderEnds(k, held)
    /\ UNCHANGED cVars

ConfigurationCall ==
    \/ createOpenKitConfiguration
    \/ \E b \in Blocks : createLogger(b) \/ createCustomTrustManager(b)
                          \/ destroyByApplication(b)
    \/ \E c \in Configs :
         \/ destroyOpenKitConfiguration(c)
         \/ \E b \in Blocks : useLoggerForConfiguration(c, b)
         \/ \E b \in Blocks \cup {Null}, m \in TRUST_MODE : useTrustModeForConfiguration(c, m, b)
         \/ \E k \in Kits : createDynatraceOpenKit(c, k)

ObjectCall(h) ==
    \/ enterRootAction(h) \/ enterAction(h) \/ traceWebRequest(h)
    \/ reportOnSession(h) \/ reportOnRootAction(h) \/ reportOnAction(h)
    \/ endSession(h) \/ endReturns(h)
    \/ leaveRootAction(h) \/ cancelRootAction(h) \/ leaveAction(h) \/ cancelAction(h)
    \/ stopWebRequestWithResponseCode(h)

Next ==
    /\ \/ ConfigurationCall
       \/ \E k \in Kits : shutdownOpenKit(k) \/ createSessionHandle(k)
                          \/ ShutdownStep(k) \/ ThreadStep(k)
       \/ \E h \in Handles : ObjectCall(h)
    /\ UNCHANGED bound

(* Only the thread that shuts an instance down has to go on: joins end by time. *)
Spec == Init /\ [][Next]_vars /\ \A k \in Kits : WF_vars(ShutdownStep(k) /\ UNCHANGED bound)
-----------------------------------------------------------------------------
(***************************************************************************)
(* Every logger and trust manager handle is freed exactly once: while it   *)
(* exists, one that createDynatraceOpenKit() made is owned by exactly one  *)
(* instance's handle and one of the application by none, so that           *)
(* shutdownOpenKit() frees all the former and none of the latter.  None is *)
(* used or freed after it was freed.  Excepted are the very handles that a *)
(* further instance got from an earlier one through their configuration    *)
(* (GotFromEarlier); the same configuration's other handles are not.       *)
(***************************************************************************)
OwnedOnce ==
    /\ faults \subseteq reused
    /\ \A b \in Blocks \ reused : Live(block, b) =>
         Cardinality({k \in Kits : kitHandle[k].state \in {"live", "closing"}
                                   /\ b \in Owned(kitHandle[k])})
           = IF b \in OwnBlocks THEN 1 ELSE 0

(***************************************************************************)
(* A configuration can be used for OpenKit instances, as OpenKit-c.h says  *)
(* of createOpenKitConfiguration(): however many are made from one,        *)
(* nothing is freed twice or used after it was freed.                      *)
(***************************************************************************)
ConfigurationServesInstances == faults = {}

(***************************************************************************)
(* A call of shutdownOpenKit() returns, even if a thread of the instance   *)
(* never stops, because the sending thread waits for an answer.            *)
(***************************************************************************)
ShutdownReturns == \A k \in Kits : kitHandle[k].state = "closing"
                                     ~> kitHandle[k].state = "released"
================================================================================
