----------------------------- MODULE OpenKitCProofs -----------------------------
(***************************************************************************)
(* Proofs for OpenKitC: a thread that runs has its instance and curl,      *)
(* shutdown() ends every session and leaves nothing unsent, and every      *)
(* logger and trust manager handle is freed exactly once.                  *)
(*                                                                         *)
(* The argument is in two halves that share only the state of the handles  *)
(* of instances.  KitsInv is about the instances, their sessions and the   *)
(* handles of objects; BlocksInv about configurations and the memory that  *)
(* loggers and trust managers take.                                        *)
(***************************************************************************)
EXTENDS OpenKitC, FiniteSetTheorems, TLAPS

ThreadNames == {"evictor", "watchdog", "sender"}
Ended == {"stopped", "lost"}

KitRecord ==
    [phase : {"none", "alive", "freed"}, mIsShutdown : BOOLEAN, children : SUBSET Sessions,
     context : SUBSET Sessions, initialized : BOOLEAN,
     stage : {"none", "marked", "done"} \cup ThreadNames, toClose : SUBSET Sessions,
     thread : [ThreadNames -> {"none", "running", "stopping"} \cup Ended]]

SessionRecord == [kit : Kits \cup {NoKit}, state : {"none", "open", "ending", "finished"},
                  data : BOOLEAN, missed : BOOLEAN]

KitHandleRecord ==
    [state : {"none", "live", "closing", "released"}, loggerHandle : Blocks \cup {Null},
     ownsLoggerHandle : BOOLEAN, trustManagerHandle : Blocks \cup {Null},
     ownsTrustManagerHandle : BOOLEAN]

HandleRecord ==
    [state : {"none", "live", "ending", "released"},
     kind : {"session", "rootAction", "action", "tracer"}, session : Sessions \cup {Null}]

KitTypeOK ==
    /\ kit \in [Kits -> KitRecord]
    /\ session \in [Sessions -> SessionRecord]
    /\ kitHandle \in [Kits -> KitHandleRecord]
    /\ handle \in [Handles -> HandleRecord]
    /\ gInstanceCount \in Nat /\ curl \in BOOLEAN

(* How far shutdown() has come, and which threads it may find how. *)
ThreadsInOrder(stage, thread) ==
    /\ stage \in {"none", "marked"} =>
         thread["evictor"] = "running" /\ thread["watchdog"] = "running" /\ thread["sender"] = "running"
    /\ stage = "evictor" =>
         thread["evictor"] # "running" /\ thread["watchdog"] = "running" /\ thread["sender"] = "running"
    /\ stage = "watchdog" =>
         thread["evictor"] \in Ended /\ thread["watchdog"] # "running" /\ thread["sender"] = "running"
    /\ stage = "sender" =>
         thread["evictor"] \in Ended /\ thread["watchdog"] \in Ended /\ thread["sender"] # "running"
    /\ stage = "done" =>
         thread["evictor"] \in Ended /\ thread["watchdog"] \in Ended /\ thread["sender"] \in Ended

(* An instance and the handle through which the application has it. *)
KitFits(x, state) ==
    /\ state = "none" => x.phase = "none"
    /\ state \in {"live", "closing"} => x.phase = "alive"
    /\ state = "live" => x.stage = "none"
    /\ state = "closing" => x.stage \in {"marked"} \cup ThreadNames
    /\ state = "released" => x.stage = "done" /\ x.phase # "none"
    /\ x.phase = "none" => x.stage = "none" /\ \A t \in ThreadNames : x.thread[t] = "none"
    /\ x.phase # "none" => ThreadsInOrder(x.stage, x.thread) /\ \A t \in ThreadNames : x.thread[t] # "none"
    /\ x.mIsShutdown <=> x.stage # "none"

(* A session s, with the record y, of the instance x. *)
SessionFits(y, x, s) ==
    /\ y.state # "none" /\ x.phase # "none"
    /\ y.state = "open" => /\ s \in x.children
                           /\ x.stage = "none" \/ (x.stage = "marked" /\ s \in x.toClose)
    /\ s \notin x.context => y.state = "finished" /\ ~y.data
    /\ x.initialized /\ x.thread["sender"] = "stopped" =>
         ((y.state = "ending" \/ y.data) => y.missed)

KitsFit == \A k \in Kits : KitFits(kit[k], kitHandle[k].state)

SessionsFit == \A s \in Sessions :
    /\ session[s].kit \in Kits => SessionFits(session[s], kit[session[s].kit], s)
    /\ session[s].kit \notin Kits => session[s].state = "none"

(* A call of endSession() is the only one that ends its session. *)
OneCallEnds ==
    /\ \A h \in Handles : handle[h].state = "ending" =>
          handle[h].session # Null /\ session[handle[h].session].state = "ending"
    /\ \A g, h \in Handles : handle[g].state = "ending" /\ handle[h].state = "ending"
                             /\ handle[g].session = handle[h].session => g = h

AliveKits == {k \in Kits : kit[k].phase = "alive"}

CountFits == /\ gInstanceCount = Cardinality(AliveKits)
             /\ curl <=> gInstanceCount # 0

KitsInv == KitTypeOK /\ KitsFit /\ SessionsFit /\ OneCallEnds /\ CountFits

-----------------------------------------------------------------------------
ConfigRecord ==
    [state : {"none", "live", "destroyed"}, loggerHandle : Blocks \cup {Null},
     ownsLoggerHandle : BOOLEAN, trustMode : TRUST_MODE, trustManagerHandle : Blocks \cup {Null},
     ownsTrustManagerHandle : BOOLEAN]

BlockTypeOK ==
    /\ config \in [Configs -> ConfigRecord]
    /\ block \in [Blocks -> [state : {"none", "live", "destroyed"}]]
    /\ kitHandle \in [Kits -> KitHandleRecord]

(***************************************************************************)
(* What a live configuration names exists or existed.  A trust manager of  *)
(* the application's exists; so does a logger of a configuration that owns *)
(* none, unless a further instance of another one got it and freed it.     *)
(***************************************************************************)
ConfigFits(x) ==
    /\ x.loggerHandle # Null =>
          x.loggerHandle \in OwnBlocks \cup Loggers /\ block[x.loggerHandle].state # "none"
    /\ x.trustManagerHandle # Null => block[x.trustManagerHandle].state # "none"
    /\ ~x.ownsLoggerHandle /\ x.loggerHandle # Null =>
          /\ x.loggerHandle \in Loggers
          /\ block[x.loggerHandle].state = "live" \/ x.loggerHandle \in reused
    /\ x.trustManagerHandle # Null =>
          \/ x.trustManagerHandle \in OwnBlocks
          \/ x.trustManagerHandle \in TrustManagers /\ block[x.trustManagerHandle].state = "live"

ConfigsFit == \A c \in Configs :
    /\ config[c].state = "live" => ConfigFits(config[c])
    /\ config[c].state = "none" =>
          config[c].loggerHandle = Null /\ config[c].trustManagerHandle = Null

InUse(k) == kitHandle[k].state \in {"live", "closing"}

(* Unless a further instance got it: what an instance's handle owns is one *)
(* of OpenKit's own, and its alone.                                        *)
OwnersFit ==
    /\ \A k \in Kits : InUse(k) =>
          \A b \in Owned(kitHandle[k]) \ reused : b \in OwnBlocks /\ block[b].state = "live"
    /\ \A j, k \in Kits : \A b \in Blocks \ reused :
          InUse(j) /\ InUse(k) /\ b \in Owned(kitHandle[j]) /\ b \in Owned(kitHandle[k]) => j = k
    /\ \A b \in OwnBlocks \ reused : block[b].state = "live" =>
          \E k \in Kits : InUse(k) /\ b \in Owned(kitHandle[k])

ReusedFit == faults \subseteq reused /\ reused \subseteq OwnBlocks \cup Loggers

BlocksInv == BlockTypeOK /\ ConfigsFit /\ OwnersFit /\ ReusedFit

-----------------------------------------------------------------------------
(* The blocks of the three kinds are apart, and Null is none. *)
LEMMA BlockKinds ==
    /\ Loggers \subseteq Blocks /\ TrustManagers \subseteq Blocks /\ OwnBlocks \subseteq Blocks
    /\ Loggers \cap OwnBlocks = {} /\ TrustManagers \cap OwnBlocks = {}
    /\ Null \notin Blocks /\ NoKit \notin Kits /\ Null \notin Sessions /\ IsFiniteSet(Kits)
BY OpenKitCAssumption DEF OpenKitCAssumption, Blocks

(* A step that is not about configurations and blocks. *)
LEMMA OthersKeepBlocks ==
    ASSUME BlocksInv, UNCHANGED <<config, block, kitHandle, faults, reused>>
    PROVE  BlocksInv'
<1>1. /\ config' = config /\ block' = block /\ kitHandle' = kitHandle
      /\ faults' = faults /\ reused' = reused
  OBVIOUS
<1>2. BlockTypeOK'
  BY <1>1 DEF BlocksInv, BlockTypeOK
<1>3. ConfigsFit'
  BY <1>1 DEF BlocksInv, ConfigsFit, ConfigFits
<1>4. OwnersFit'
  BY <1>1 DEF BlocksInv, OwnersFit, InUse, Owned
<1> QED BY <1>1, <1>2, <1>3, <1>4 DEF BlocksInv, ReusedFit

(* A configuration stays sound while what it names keeps existing. *)
LEMMA ConfigStays ==
    ASSUME BlocksInv, NEW c \in Configs, config'[c] = config[c], reused \subseteq reused',
           \A a \in Blocks : block[a].state # "none" => block'[a].state # "none",
           \A a \in Loggers \cup TrustManagers :
              /\ config[c].state = "live" /\ block[a].state = "live"
              /\ a = config[c].loggerHandle \/ a = config[c].trustManagerHandle
              => block'[a].state = "live" \/ a \in reused' \cap Loggers
    PROVE  /\ config'[c].state = "live" => ConfigFits(config[c])'
           /\ config'[c].state = "none" =>
                 config'[c].loggerHandle = Null /\ config'[c].trustManagerHandle = Null
<1>1. config[c].loggerHandle \in Blocks \cup {Null} /\ config[c].trustManagerHandle \in Blocks \cup {Null}
  BY DEF BlocksInv, BlockTypeOK, ConfigRecord
<1>2. CASE config[c].state = "live"
  <2> DEFINE y == config[c]
  <2>1. ConfigFits(y) /\ config'[c] = y
    BY <1>2 DEF BlocksInv, ConfigsFit
  <2>2. y.loggerHandle # Null => block'[y.loggerHandle].state # "none"
    BY <1>1, <2>1 DEF ConfigFits
  <2>3. y.trustManagerHandle # Null => block'[y.trustManagerHandle].state # "none"
    BY <1>1, <2>1 DEF ConfigFits
  <2>4. ~y.ownsLoggerHandle /\ y.loggerHandle # Null =>
          /\ y.loggerHandle \in Loggers
          /\ block'[y.loggerHandle].state = "live" \/ y.loggerHandle \in reused'
    BY <1>2, <2>1 DEF ConfigFits
  <2>5. y.trustManagerHandle # Null =>
          \/ y.trustManagerHandle \in OwnBlocks
          \/ y.trustManagerHandle \in TrustManagers /\ block'[y.trustManagerHandle].state = "live"
    BY <1>2, <2>1, OpenKitCAssumption DEF ConfigFits, OpenKitCAssumption
  <2>6. y.loggerHandle # Null => y.loggerHandle \in OwnBlocks \cup Loggers
    BY <2>1 DEF ConfigFits
  <2> HIDE DEF y
  <2> QED BY <1>2, <2>1, <2>2, <2>3, <2>4, <2>5, <2>6 DEF ConfigFits
<1>3. CASE config[c].state # "live"
  BY <1>3 DEF BlocksInv, ConfigsFit
<1> QED BY <1>2, <1>3

(* The same for all of them. *)
LEMMA ConfigsStay ==
    ASSUME BlocksInv, config' = config, reused \subseteq reused',
           \A a \in Blocks : block[a].state # "none" => block'[a].state # "none",
           \A c \in Configs : \A a \in Loggers \cup TrustManagers :
              /\ config[c].state = "live" /\ block[a].state = "live"
              /\ a = config[c].loggerHandle \/ a = config[c].trustManagerHandle
              => block'[a].state = "live" \/ a \in reused' \cap Loggers
    PROVE  ConfigsFit'
BY ConfigStays DEF ConfigsFit

(* Owners stay sound while OpenKit's own blocks and the handles stay. *)
LEMMA OwnersStay ==
    ASSUME BlocksInv, kitHandle' = kitHandle, reused' = reused,
           \A a \in OwnBlocks : block'[a] = block[a]
    PROVE  OwnersFit'
<1>1. \A k \in Kits : (InUse(k)' <=> InUse(k)) /\ Owned(kitHandle[k])' = Owned(kitHandle[k])
  BY DEF InUse, Owned
<1> QED BY <1>1, BlockKinds DEF BlocksInv, OwnersFit

(* The application allocates a logger or a trust manager. *)
LEMMA AllocationKeepsBlocks ==
    ASSUME BlocksInv, NEW b \in Loggers \cup TrustManagers, block[b].state = "none",
           block' = Allocated({b}), UNCHANGED <<config, kitHandle, faults, reused>>
    PROVE  BlocksInv'
<1>1. config' = config /\ kitHandle' = kitHandle /\ faults' = faults /\ reused' = reused
  OBVIOUS
<1>2. /\ block' \in [Blocks -> [state : {"none", "live", "destroyed"}]]
      /\ block'[b].state = "live"
      /\ \A a \in Blocks : a # b => block'[a] = block[a]
  BY BlockKinds DEF BlocksInv, BlockTypeOK, Allocated
<1>3. BlockTypeOK'
  BY <1>1, <1>2 DEF BlocksInv, BlockTypeOK
<1>4. ConfigsFit'
  BY <1>1, <1>2, BlockKinds, ConfigsStay
<1>5. OwnersFit'
  BY <1>1, <1>2, BlockKinds, OwnersStay
<1> QED BY <1>1, <1>3, <1>4, <1>5 DEF BlocksInv, ReusedFit

(* The application frees one that no configuration names. *)
LEMMA DestructionKeepsBlocks ==
    ASSUME BlocksInv, NEW b \in Blocks, destroyByApplication(b)
    PROVE  BlocksInv'
<1>1. config' = config /\ kitHandle' = kitHandle /\ reused' = reused
  BY DEF destroyByApplication
<1>2. /\ block' \in [Blocks -> [state : {"none", "live", "destroyed"}]]
      /\ block'[b].state = "destroyed" /\ block[b].state = "live"
      /\ \A a \in Blocks : a # b => block'[a] = block[a]
  BY DEF BlocksInv, BlockTypeOK, destroyByApplication, Destroyed, Live
<1>3. ReusedFit'
  BY <1>1, <1>2 DEF BlocksInv, ReusedFit, destroyByApplication, Freed, Live
<1>4. BlockTypeOK'
  BY <1>1, <1>2 DEF BlocksInv, BlockTypeOK
<1>5. ConfigsFit'
  <2>1. \A c \in Configs : config[c].state = "live" =>
           b # config[c].loggerHandle /\ b # config[c].trustManagerHandle
    BY DEF destroyByApplication, Named, Live
  <2> QED BY <1>1, <1>2, <2>1, BlockKinds, ConfigsStay
<1>6. OwnersFit'
  BY <1>1, <1>2, BlockKinds, OwnersStay DEF destroyByApplication
<1> QED BY <1>3, <1>4, <1>5, <1>6 DEF BlocksInv

(* One configuration changes: what it is now has to fit. *)
LEMMA ConfigurationKeepsBlocks ==
    ASSUME BlocksInv, NEW c \in Configs, NEW x \in ConfigRecord, x.state # "none",
           x.state = "live" => ConfigFits(x),
           config' = [config EXCEPT ![c] = x], UNCHANGED <<block, kitHandle, faults, reused>>
    PROVE  BlocksInv'
<1>1. block' = block /\ kitHandle' = kitHandle /\ faults' = faults /\ reused' = reused
  OBVIOUS
<1>2. /\ config' \in [Configs -> ConfigRecord] /\ config'[c] = x
      /\ \A d \in Configs : d # c => config'[d] = config[d]
  BY DEF BlocksInv, BlockTypeOK
<1>3. BlockTypeOK'
  BY <1>1, <1>2 DEF BlocksInv, BlockTypeOK
<1>4. ConfigsFit'
  BY <1>1, <1>2 DEF BlocksInv, ConfigsFit, ConfigFits
<1>5. OwnersFit'
  BY <1>1 DEF BlocksInv, OwnersFit, InUse, Owned
<1> QED BY <1>1, <1>3, <1>4, <1>5 DEF BlocksInv, ReusedFit

(* The calls on a configuration. *)
LEMMA ConfigurationCallsKeepBlocks ==
    ASSUME BlocksInv, NEW c \in Configs, NEW b \in Blocks \cup {Null}, NEW m \in TRUST_MODE,
           \/ createOpenKitConfiguration
           \/ destroyOpenKitConfiguration(c)
           \/ b \in Blocks /\ useLoggerForConfiguration(c, b)
           \/ useTrustModeForConfiguration(c, m, b)
    PROVE  BlocksInv'
<1>0. \A d \in Configs : config[d] \in ConfigRecord
  BY DEF BlocksInv, BlockTypeOK
<1>1. CASE createOpenKitConfiguration
  <2> DEFINE n == New(config)
             x == [config[n] EXCEPT !.state = "live"]
  <2>1. n \in Configs /\ config[n].state = "none"
    <3>1. n \in Unused(config)
      BY <1>1 DEF createOpenKitConfiguration, New
    <3> QED BY <3>1 DEF Unused, BlocksInv, BlockTypeOK
  <2>2. x \in ConfigRecord /\ x.state = "live" /\ x.loggerHandle = Null /\ x.trustManagerHandle = Null
    BY <1>0, <2>1 DEF ConfigRecord, BlocksInv, ConfigsFit
  <2>3. config' = [config EXCEPT ![n] = x]
    BY <1>1 DEF createOpenKitConfiguration
  <2>4. UNCHANGED <<block, kitHandle, faults, reused>>
    BY <1>1 DEF createOpenKitConfiguration
  <2>5. ConfigFits(x)
    BY <2>2 DEF ConfigFits
  <2> HIDE DEF n, x
  <2> QED BY <2>1, <2>2, <2>3, <2>4, <2>5, ConfigurationKeepsBlocks
<1>2. CASE destroyOpenKitConfiguration(c)
  <2> DEFINE x == [config[c] EXCEPT !.state = "destroyed"]
  <2>1. x \in ConfigRecord /\ x.state = "destroyed"
    BY <1>0 DEF ConfigRecord
  <2>2. config' = [config EXCEPT ![c] = x] /\ UNCHANGED <<block, kitHandle, faults, reused>>
    BY <1>2 DEF destroyOpenKitConfiguration
  <2> HIDE DEF x
  <2> QED BY <2>1, <2>2, ConfigurationKeepsBlocks
<1>3. CASE b \in Blocks /\ useLoggerForConfiguration(c, b)
  <2> DEFINE x == [config[c] EXCEPT !.loggerHandle = b]
  <2>1. /\ b \in Loggers /\ block[b].state = "live" /\ config[c].state = "live"
        /\ config' = [config EXCEPT ![c] = x] /\ UNCHANGED <<block, kitHandle, faults, reused>>
    BY <1>3 DEF useLoggerForConfiguration, Given, Live
  <2>2. /\ x \in ConfigRecord /\ x.state = "live" /\ x.loggerHandle = b
        /\ x.trustManagerHandle = config[c].trustManagerHandle
        /\ x.ownsTrustManagerHandle = config[c].ownsTrustManagerHandle
    BY <1>0, <1>3, <2>1 DEF ConfigRecord
  <2>3. ConfigFits(x)
    BY <2>1, <2>2 DEF ConfigFits, BlocksInv, ConfigsFit
  <2> HIDE DEF x
  <2> QED BY <2>1, <2>2, <2>3, ConfigurationKeepsBlocks
<1>4. CASE useTrustModeForConfiguration(c, m, b)
  <2> DEFINE x == [config[c] EXCEPT !.trustMode = m, !.trustManagerHandle = b]
  <2>1. /\ b # Null => b \in TrustManagers /\ block[b].state = "live"
        /\ config[c].state = "live"
        /\ config' = [config EXCEPT ![c] = x] /\ UNCHANGED <<block, kitHandle, faults, reused>>
    BY <1>0, <1>4 DEF useTrustModeForConfiguration, Given, Live, ConfigRecord
  <2>2. /\ x \in ConfigRecord /\ x.state = "live" /\ x.trustManagerHandle = b
        /\ x.loggerHandle = config[c].loggerHandle
        /\ x.ownsLoggerHandle = config[c].ownsLoggerHandle
    BY <1>0, <2>1 DEF ConfigRecord
  <2>3. ConfigFits(x)
    BY <2>1, <2>2 DEF ConfigFits, BlocksInv, ConfigsFit
  <2> HIDE DEF x
  <2> QED BY <2>1, <2>2, <2>3, ConfigurationKeepsBlocks
<1> QED BY <1>1, <1>2, <1>3, <1>4

(* The handle of an instance begins to close. *)
LEMMA ShutdownKeepsBlocks ==
    ASSUME BlocksInv, NEW k \in Kits, shutdownOpenKit(k)
    PROVE  BlocksInv'
<1>1. config' = config /\ block' = block /\ faults' = faults /\ reused' = reused
  BY DEF shutdownOpenKit
<1>2. /\ BlockTypeOK'
      /\ \A j \in Kits : InUse(j)' <=> InUse(j)
      /\ \A j \in Kits : Owned(kitHandle'[j]) = Owned(kitHandle[j])
  BY <1>1 DEF BlocksInv, BlockTypeOK, KitHandleRecord, shutdownOpenKit, Live, InUse, Owned
<1>3. ConfigsFit'
  BY <1>1 DEF BlocksInv, ConfigsFit, ConfigFits
<1>4. OwnersFit'
  BY <1>1, <1>2 DEF BlocksInv, OwnersFit
<1> QED BY <1>1, <1>2, <1>3, <1>4 DEF BlocksInv, ReusedFit

(* The handle is released, and what it owns is freed. *)
LEMMA ReleaseKeepsBlocks ==
    ASSUME BlocksInv, NEW k \in Kits, releaseOpenKit(k)
    PROVE  BlocksInv'
<1> DEFINE D == Owned(kitHandle[k]) \ {Null}
<1>1. config' = config /\ InUse(k) /\ block' = Destroyed(block, D) /\ reused' = reused
  BY DEF releaseOpenKit, InUse
<1>2. \A b \in D \ reused : b \in OwnBlocks /\ b \in Blocks /\ block[b].state = "live"
  BY <1>1, BlockKinds DEF BlocksInv, OwnersFit
<1>3. ReusedFit'
  BY <1>1, <1>2 DEF BlocksInv, ReusedFit, releaseOpenKit, Freed, Live
<1>4. /\ kitHandle' \in [Kits -> KitHandleRecord]
      /\ ~InUse(k)'
      /\ \A j \in Kits : j # k => (InUse(j)' <=> InUse(j))
      /\ \A j \in Kits : Owned(kitHandle'[j]) = Owned(kitHandle[j])
  BY DEF BlocksInv, BlockTypeOK, KitHandleRecord, releaseOpenKit, InUse, Owned
<1>5. /\ block' \in [Blocks -> [state : {"none", "live", "destroyed"}]]
      /\ \A b \in Blocks : b \in D => block'[b].state = "destroyed"
      /\ \A b \in Blocks : b \notin D => block'[b] = block[b]
  BY <1>1 DEF BlocksInv, BlockTypeOK, Destroyed
<1>6. BlockTypeOK'
  BY <1>1, <1>4, <1>5 DEF BlocksInv, BlockTypeOK
<1>7. ConfigsFit'
  <2>1. \A a \in Loggers \cup TrustManagers : a \in Blocks /\ (a \in D => a \in reused \cap Loggers)
    BY <1>2, BlockKinds DEF BlocksInv, ReusedFit
  <2>2. \A a \in Blocks : block[a].state # "none" => block'[a].state # "none"
    BY <1>5
  <2> HIDE DEF D
  <2> QED BY <1>1, <1>5, <2>1, <2>2, ConfigsStay
<1>8. \A b \in OwnBlocks : b \in D <=> b \in Owned(kitHandle[k])
  BY BlockKinds
<1> HIDE DEF D
<1>9. OwnersFit'
  BY <1>1, <1>2, <1>4, <1>5, <1>8, BlockKinds DEF BlocksInv, OwnersFit
<1> QED BY <1>3, <1>6, <1>7, <1>9 DEF BlocksInv

(* Of two unused blocks there is one, and one besides it. *)
LEMMA TwoUnused ==
    ASSUME NEW S, Cardinality(S) >= 2
    PROVE  AnyOf(S) \in S /\ AnyOf(S \ {AnyOf(S)}) \in S \ {AnyOf(S)}
<1>1. S # {}
  BY FS_EmptySet
<1>2. AnyOf(S) \in S
  BY <1>1 DEF AnyOf
<1>3. S \ {AnyOf(S)} # {}
  <2> SUFFICES ASSUME S \ {AnyOf(S)} = {} PROVE FALSE
    OBVIOUS
  <2>1. S = {AnyOf(S)}
    BY <1>2
  <2>2. Cardinality(S) = 1
    BY <2>1, FS_Singleton
  <2> QED BY <2>2
<1>4. \A T : T # {} => AnyOf(T) \in T
  BY DEF AnyOf
<1> QED BY <1>2, <1>3, <1>4

(***************************************************************************)
(* The builder's configuration: each of the two handles is OpenKit's own   *)
(* new one, and owned, or a living one of the application, and not owned.  *)
(***************************************************************************)
LEMMA BuilderOwnsItsOwn ==
    ASSUME BlocksInv, NEW c \in Configs, config[c].state = "live",
           NEW bt \in OwnBlocks, NEW bl \in OwnBlocks,
           block[bt].state = "none", block[bl].state = "none",
           NEW x, x = initializeOpenKitBuilder(config[c], bt, bl)
    PROVE  /\ x \in ConfigRecord /\ x.state = "live"
           /\ \/ x.trustManagerHandle = bt /\ x.ownsTrustManagerHandle
              \/ /\ x.trustManagerHandle \in TrustManagers /\ ~x.ownsTrustManagerHandle
                 /\ block[x.trustManagerHandle].state = "live"
              \/ x.trustManagerHandle \in GotFromEarlier(config[c]) \cap OwnBlocks
           /\ \/ x.loggerHandle = bl /\ x.ownsLoggerHandle
              \/ /\ x.loggerHandle \in Loggers /\ ~x.ownsLoggerHandle /\ block[x.loggerHandle].state # "none"
                 /\ block[x.loggerHandle].state = "live" \/ x.loggerHandle \in reused
              \/ x.loggerHandle \in GotFromEarlier(config[c]) /\ x.ownsLoggerHandle
           /\ \A a \in GotFromEarlier(config[c]) :
                 a \in OwnBlocks \cup Loggers /\ block[a].state # "none"
<1> DEFINE y == config[c]
           m == createTrustManagerHandle(y, bt)
           l == getLoggerHandle(y, bl)
<1>1. y \in ConfigRecord /\ y.state = "live" /\ ConfigFits(y)
  BY DEF BlocksInv, BlockTypeOK, ConfigsFit
<1>2. y.trustManagerHandle # bt /\ bt # Null /\ bl # Null /\ bt \in Blocks /\ bl \in Blocks
  BY <1>1, BlockKinds DEF ConfigFits
<1>3. \/ m = bt
      \/ /\ m = y.trustManagerHandle /\ m \in Blocks
         /\ \/ m \in TrustManagers /\ block[m].state = "live"
            \/ m \in GotFromEarlier(y) \cap OwnBlocks
  BY <1>1, <1>2, BlockKinds DEF createTrustManagerHandle, GotFromEarlier, ConfigFits, ConfigRecord
<1>4. \/ l = bl /\ y.loggerHandle = Null
      \/ /\ l = y.loggerHandle /\ y.loggerHandle # Null /\ l \in Blocks
         /\ \/ /\ ~y.ownsLoggerHandle /\ l \in Loggers /\ block[l].state # "none"
               /\ block[l].state = "live" \/ l \in reused
            \/ y.ownsLoggerHandle /\ l \in GotFromEarlier(y)
  BY <1>1, BlockKinds DEF getLoggerHandle, GotFromEarlier, ConfigFits, ConfigRecord
<1>a. \A a \in GotFromEarlier(y) : a \in OwnBlocks \cup Loggers /\ block[a].state # "none"
  BY <1>1, BlockKinds DEF GotFromEarlier, ConfigFits
<1>5. x = [y EXCEPT !.trustManagerHandle = m,
                    !.ownsTrustManagerHandle = (m # y.trustManagerHandle),
                    !.loggerHandle = l,
                    !.ownsLoggerHandle = (y.ownsLoggerHandle \/ y.loggerHandle = Null)]
  BY DEF initializeOpenKitBuilder
<1> HIDE DEF y, m, l
<1>6. /\ x.state = y.state /\ x.trustMode = y.trustMode
      /\ x.trustManagerHandle = m /\ x.ownsTrustManagerHandle = (m # y.trustManagerHandle)
      /\ x.loggerHandle = l /\ x.ownsLoggerHandle = (y.ownsLoggerHandle \/ y.loggerHandle = Null)
  BY <1>1, <1>5 DEF ConfigRecord
<1>7. x \in ConfigRecord
  <2> DEFINE p == m # y.trustManagerHandle
             q == y.ownsLoggerHandle \/ y.loggerHandle = Null
  <2>1. p \in BOOLEAN /\ q \in BOOLEAN
    OBVIOUS
  <2>2. m \in Blocks \cup {Null} /\ l \in Blocks \cup {Null}
    BY <1>2, <1>3, <1>4
  <2>3. x = [y EXCEPT !.trustManagerHandle = m, !.ownsTrustManagerHandle = p,
                      !.loggerHandle = l, !.ownsLoggerHandle = q]
    BY <1>5
  <2> HIDE DEF p, q
  <2> QED BY <1>1, <2>1, <2>2, <2>3 DEF ConfigRecord
<1> QED BY <1>1, <1>2, <1>3, <1>4, <1>a, <1>6, <1>7 DEF y

(* createDynatraceOpenKit(). *)
LEMMA CreationKeepsBlocks ==
    ASSUME BlocksInv, NEW c \in Configs, NEW k \in Kits, createDynatraceOpenKit(c, k)
    PROVE  BlocksInv'
<1> DEFINE free == OwnBlocks \cap Unused(block)
           bt == AnyOf(free)
           bl == AnyOf(free \ {bt})
           x == initializeOpenKitBuilder(config[c], bt, bl)
           got == GotFromEarlier(config[c])
           made == {bt, bl} \cap {x.trustManagerHandle, x.loggerHandle}
<1>1. /\ config[c].state = "live" /\ k \in Unused(kitHandle)
      /\ Cardinality(free) >= 2
      /\ block' = Allocated(made)
      /\ config' = [config EXCEPT ![c] = x]
      /\ kitHandle' = [kitHandle EXCEPT ![k] = createOpenKitHandle(x)]
      /\ faults' = faults \cup Freed(block', {x.loggerHandle, x.trustManagerHandle})
      /\ reused' = reused \cup got
  BY DEF createDynatraceOpenKit, Live
<1>2. bt \in free /\ bl \in free /\ bt # bl
  BY <1>1, TwoUnused
<1>3. /\ bt \in OwnBlocks /\ bl \in OwnBlocks /\ block[bt].state = "none" /\ block[bl].state = "none"
      /\ kitHandle[k].state = "none"
  BY <1>1, <1>2 DEF Unused
<1> HIDE DEF free, bt, bl
<1>4. /\ x \in ConfigRecord /\ x.state = "live"
      /\ \/ x.trustManagerHandle = bt /\ x.ownsTrustManagerHandle
         \/ /\ x.trustManagerHandle \in TrustManagers /\ ~x.ownsTrustManagerHandle
            /\ block[x.trustManagerHandle].state = "live"
         \/ x.trustManagerHandle \in got \cap OwnBlocks
      /\ \/ x.loggerHandle = bl /\ x.ownsLoggerHandle
         \/ /\ x.loggerHandle \in Loggers /\ ~x.ownsLoggerHandle /\ block[x.loggerHandle].state # "none"
            /\ block[x.loggerHandle].state = "live" \/ x.loggerHandle \in reused
         \/ x.loggerHandle \in got /\ x.ownsLoggerHandle
      /\ \A a \in got : a \in OwnBlocks \cup Loggers /\ block[a].state # "none"
  BY <1>1, <1>3, BuilderOwnsItsOwn
<1> HIDE DEF x, got
<1>5. /\ made \subseteq OwnBlocks /\ \A a \in made : block[a].state = "none"
      /\ made \subseteq Owned(createOpenKitHandle(x))
      /\ Owned(createOpenKitHandle(x)) \subseteq made \cup reused'
  <2>1. \A a \in made : a \in OwnBlocks /\ block[a].state = "none"
    BY <1>3
  <2>2. x.trustManagerHandle # bl /\ x.loggerHandle # bt
    BY <1>2, <1>3, <1>4, BlockKinds
  <2>3. made \subseteq Owned(createOpenKitHandle(x))
    BY <1>1, <1>3, <1>4, <2>2, BlockKinds DEF Owned, createOpenKitHandle
  <2>4. Owned(createOpenKitHandle(x)) \subseteq made \cup reused'
    BY <1>1, <1>4 DEF Owned, createOpenKitHandle
  <2> QED BY <2>1, <2>3, <2>4
<1>6. /\ x.trustManagerHandle \in Blocks /\ x.loggerHandle \in Blocks
      /\ \/ x.trustManagerHandle \in made
         \/ x.trustManagerHandle \in TrustManagers /\ block[x.trustManagerHandle].state = "live"
         \/ x.trustManagerHandle \in reused' \cap OwnBlocks /\ block[x.trustManagerHandle].state # "none"
      /\ x.loggerHandle \in OwnBlocks \cup Loggers
      /\ \/ x.loggerHandle \in made
         \/ /\ block[x.loggerHandle].state # "none"
            /\ block[x.loggerHandle].state = "live" \/ x.loggerHandle \in reused'
      /\ x.ownsLoggerHandle \/ x.loggerHandle \in Loggers
  BY <1>1, <1>3, <1>4, BlockKinds
<1>got. got \subseteq OwnBlocks \cup Loggers
  BY <1>4
<1> HIDE DEF made
<1>7. /\ block' \in [Blocks -> [state : {"none", "live", "destroyed"}]]
      /\ \A a \in Blocks : a \in made => block'[a].state = "live"
      /\ \A a \in Blocks : a \notin made => block'[a] = block[a]
  BY <1>1 DEF BlocksInv, BlockTypeOK, Allocated
<1>8. /\ \/ x.trustManagerHandle \in OwnBlocks
         \/ x.trustManagerHandle \in TrustManagers /\ block'[x.trustManagerHandle].state = "live"
      /\ block'[x.trustManagerHandle].state = "live" \/ x.trustManagerHandle \in reused'
      /\ block'[x.trustManagerHandle].state # "none"
      /\ block'[x.loggerHandle].state = "live" \/ x.loggerHandle \in reused'
      /\ block'[x.loggerHandle].state # "none"
  BY <1>5, <1>6, <1>7
<1>9. ReusedFit' /\ reused \subseteq reused'
  BY <1>1, <1>8, <1>got DEF Freed, Live, BlocksInv, ReusedFit
<1>10. /\ config' \in [Configs -> ConfigRecord] /\ config'[c] = x
       /\ \A d \in Configs : d # c => config'[d] = config[d]
  BY <1>1, <1>4 DEF BlocksInv, BlockTypeOK
<1>11. /\ kitHandle' \in [Kits -> KitHandleRecord]
       /\ kitHandle'[k] = createOpenKitHandle(x) /\ kitHandle'[k].state = "live"
       /\ \A j \in Kits : j # k => kitHandle'[j] = kitHandle[j]
  <2>1. createOpenKitHandle(x) \in KitHandleRecord
        /\ createOpenKitHandle(x).state = "live"
    BY <1>4 DEF createOpenKitHandle, ConfigRecord, KitHandleRecord
  <2> QED BY <1>1, <2>1 DEF BlocksInv, BlockTypeOK
<1>12. BlockTypeOK'
  BY <1>7, <1>10, <1>11 DEF BlockTypeOK
<1>13. ConfigsFit'
  <2>1. ConfigFits(config[c])' /\ config'[c].state = "live"
    BY <1>4, <1>6, <1>8, <1>10 DEF ConfigFits
  <2>2. \A a \in Blocks : block[a].state # "none" => block'[a].state # "none"
    BY <1>5, <1>7
  <2>3. \A a \in Loggers \cup TrustManagers : block[a].state = "live" => block'[a].state = "live"
    BY <1>5, <1>7, BlockKinds
  <2>4. ASSUME NEW d \in Configs, d # c
        PROVE  /\ config'[d].state = "live" => ConfigFits(config[d])'
               /\ config'[d].state = "none" =>
                     config'[d].loggerHandle = Null /\ config'[d].trustManagerHandle = Null
    BY <1>9, <1>10, <2>2, <2>3, <2>4, ConfigStays
  <2> QED BY <2>1, <2>4 DEF ConfigsFit
<1>14. /\ InUse(k)' /\ ~InUse(k) /\ made \subseteq Owned(kitHandle[k])'
       /\ Owned(kitHandle[k])' \subseteq made \cup reused'
       /\ \A j \in Kits : j # k => /\ InUse(j)' <=> InUse(j)
                                   /\ Owned(kitHandle[j])' = Owned(kitHandle[j])
  BY <1>3, <1>5, <1>11 DEF InUse, Owned
<1>15. OwnersFit'
  <2>1. ASSUME NEW j \in Kits, InUse(j)', NEW b \in Owned(kitHandle[j])' \ reused'
        PROVE  b \in OwnBlocks /\ block'[b].state = "live"
    <3>1. CASE j = k
      BY <1>5, <1>7, <1>14, <2>1, <3>1, BlockKinds
    <3>2. CASE j # k
      <4>1. b \in OwnBlocks /\ block[b].state = "live"
        BY <1>9, <1>14, <2>1, <3>2 DEF BlocksInv, OwnersFit
      <4> QED BY <1>7, <4>1, BlockKinds
    <3> QED BY <3>1, <3>2
  <2>2. ASSUME NEW i \in Kits, NEW j \in Kits, NEW b \in Blocks \ reused', InUse(i)', InUse(j)',
               b \in Owned(kitHandle[i])', b \in Owned(kitHandle[j])'
        PROVE  i = j
    <3>1. ASSUME NEW h \in Kits, h # k, InUse(h)', b \in Owned(kitHandle[h])' PROVE b \notin made
      <4>1. block[b].state = "live"
        BY <1>9, <1>14, <2>2, <3>1 DEF BlocksInv, OwnersFit
      <4> QED BY <1>5, <4>1
    <3>2. CASE i = k \/ j = k
      BY <1>14, <2>2, <3>1, <3>2
    <3>3. CASE i # k /\ j # k
      BY <1>9, <1>14, <2>2, <3>3 DEF BlocksInv, OwnersFit
    <3> QED BY <3>2, <3>3
  <2>3. ASSUME NEW b \in OwnBlocks \ reused', block'[b].state = "live"
        PROVE  \E j \in Kits : InUse(j)' /\ b \in Owned(kitHandle[j])'
    <3>1. CASE b \in made
      BY <1>14, <3>1
    <3>2. CASE b \notin made
      <4>1. PICK j \in Kits : InUse(j) /\ b \in Owned(kitHandle[j])
        BY <1>7, <1>9, <2>3, <3>2, BlockKinds DEF BlocksInv, OwnersFit
      <4> QED BY <1>14, <4>1
    <3> QED BY <3>1, <3>2
  <2> QED BY <2>1, <2>2, <2>3 DEF OwnersFit
<1> QED BY <1>9, <1>12, <1>13, <1>15 DEF BlocksInv

(* No instance, configuration or block at the beginning. *)
LEMMA InitBlocksInv == Init => BlocksInv
<1> SUFFICES ASSUME Init PROVE BlocksInv
  OBVIOUS
<1>1. /\ config = [c \in Configs |-> NoConfig] /\ block = [b \in Blocks |-> [state |-> "none"]]
      /\ kitHandle = [k \in Kits |-> NoKitHandle] /\ faults = {} /\ reused = {}
  BY DEF Init
<1>2. BlockTypeOK
  BY <1>1 DEF BlockTypeOK, KitHandleRecord, NoConfig, NoKitHandle, ConfigRecord, TRUST_MODE
<1>3. ConfigsFit
  BY <1>1 DEF ConfigsFit, NoConfig
<1>4. OwnersFit
  BY <1>1, BlockKinds DEF OwnersFit, InUse, NoKitHandle
<1> QED BY <1>1, <1>2, <1>3, <1>4 DEF BlocksInv, ReusedFit

(* Every step keeps the inductive invariant about blocks. *)
LEMMA NextBlocksInv == BlocksInv /\ [Next]_vars => BlocksInv'
<1> SUFFICES ASSUME BlocksInv, [Next]_vars PROVE BlocksInv'
  OBVIOUS
<1> DEFINE Same == UNCHANGED <<config, block, kitHandle, faults, reused>>
<1>1. CASE UNCHANGED vars
  <2>1. Same
    BY <1>1 DEF vars, cVars
  <2> QED BY <2>1, OthersKeepBlocks
<1>2. CASE ConfigurationCall
  <2>1. CASE createOpenKitConfiguration
    <3>1. CASE Configs = {}
      BY <2>1, <3>1 DEF createOpenKitConfiguration, Unused, BlocksInv, BlockTypeOK
    <3>2. CASE Configs # {}
      BY <2>1, <3>2, ConfigurationCallsKeepBlocks DEF TRUST_MODE
    <3> QED BY <3>1, <3>2
  <2>2. ASSUME NEW b \in Blocks, createLogger(b) PROVE BlocksInv'
    <3>1. /\ b \in Loggers \cup TrustManagers /\ block[b].state = "none" /\ block' = Allocated({b})
          /\ UNCHANGED <<config, kitHandle, faults, reused>>
      BY <2>2 DEF createLogger, Unused
    <3> QED BY <3>1, AllocationKeepsBlocks
  <2>3. ASSUME NEW b \in Blocks, createCustomTrustManager(b) PROVE BlocksInv'
    <3>1. /\ b \in Loggers \cup TrustManagers /\ block[b].state = "none" /\ block' = Allocated({b})
          /\ UNCHANGED <<config, kitHandle, faults, reused>>
      BY <2>3 DEF createCustomTrustManager, Unused
    <3> QED BY <3>1, AllocationKeepsBlocks
  <2>4. ASSUME NEW b \in Blocks, destroyByApplication(b) PROVE BlocksInv'
    BY <2>4, DestructionKeepsBlocks
  <2>5. ASSUME NEW c \in Configs, destroyOpenKitConfiguration(c) PROVE BlocksInv'
    BY <2>5, ConfigurationCallsKeepBlocks DEF TRUST_MODE
  <2>6. ASSUME NEW c \in Configs, NEW b \in Blocks, useLoggerForConfiguration(c, b) PROVE BlocksInv'
    BY <2>6, ConfigurationCallsKeepBlocks DEF TRUST_MODE
  <2>7. ASSUME NEW c \in Configs, NEW b \in Blocks \cup {Null}, NEW m \in TRUST_MODE,
               useTrustModeForConfiguration(c, m, b)
        PROVE  BlocksInv'
    BY <2>7, ConfigurationCallsKeepBlocks
  <2>8. ASSUME NEW c \in Configs, NEW k \in Kits, createDynatraceOpenKit(c, k) PROVE BlocksInv'
    BY <2>8, CreationKeepsBlocks
  <2> QED BY <1>2, <2>1, <2>2, <2>3, <2>4, <2>5, <2>6, <2>7, <2>8 DEF ConfigurationCall
<1>3. ASSUME NEW k \in Kits, shutdownOpenKit(k) PROVE BlocksInv'
  BY <1>3, ShutdownKeepsBlocks
<1>4. ASSUME NEW k \in Kits, releaseOpenKit(k) PROVE BlocksInv'
  BY <1>4, ReleaseKeepsBlocks
<1>5. ASSUME NEW k \in Kits, createSessionHandle(k) PROVE Same
  BY <1>5 DEF createSessionHandle
<1>6. ASSUME NEW k \in Kits, ShutdownStep(k) PROVE releaseOpenKit(k) \/ Same
  BY <1>6 DEF ShutdownStep, cVars
<1>7. ASSUME NEW k \in Kits, ThreadStep(k) PROVE Same
  BY <1>7 DEF ThreadStep, cVars
<1>8. ASSUME NEW h \in Handles, ObjectCall(h) PROVE Same
  <2>1. CASE enterRootAction(h) \/ enterAction(h) \/ traceWebRequest(h)
    BY <2>1 DEF enterRootAction, enterAction, traceWebRequest, Opened
  <2>2. CASE reportOnSession(h) \/ reportOnRootAction(h) \/ reportOnAction(h)
    BY <2>2 DEF reportOnSession, reportOnRootAction, reportOnAction, report, cVars
  <2>3. CASE endSession(h) \/ endReturns(h)
    BY <2>3 DEF endSession, endReturns, ReleaseHandle
  <2>4. CASE \/ leaveRootAction(h) \/ cancelRootAction(h) \/ leaveAction(h) \/ cancelAction(h)
             \/ stopWebRequestWithResponseCode(h)
    BY <2>4 DEF leaveRootAction, cancelRootAction, leaveAction, cancelAction,
                stopWebRequestWithResponseCode, ReleaseHandle
  <2> QED BY <1>8, <2>1, <2>2, <2>3, <2>4 DEF ObjectCall
<1>9. Same => BlocksInv'
  BY OthersKeepBlocks
<1> HIDE DEF Same
<1> QED BY <1>1, <1>2, <1>3, <1>4, <1>5, <1>6, <1>7, <1>8, <1>9 DEF Next

(* What the inductive invariant says of owners: exactly one, or none. *)
LEMMA BlocksInvOwnedOnce == BlocksInv => OwnedOnce
<1> SUFFICES ASSUME BlocksInv, NEW b \in Blocks \ reused, block[b].state = "live"
             PROVE  Cardinality({k \in Kits : InUse(k) /\ b \in Owned(kitHandle[k])})
                      = IF b \in OwnBlocks THEN 1 ELSE 0
  BY DEF OwnedOnce, Live, InUse, BlocksInv, ReusedFit
<1> DEFINE S == {k \in Kits : InUse(k) /\ b \in Owned(kitHandle[k])}
<1>1. CASE b \in OwnBlocks
  <2>1. PICK k \in Kits : InUse(k) /\ b \in Owned(kitHandle[k])
    BY <1>1 DEF BlocksInv, OwnersFit
  <2>2. S = {k}
    BY <2>1 DEF BlocksInv, OwnersFit
  <2> QED BY <1>1, <2>2, FS_Singleton
<1>2. CASE b \notin OwnBlocks
  <2>1. S = {}
    BY <1>2 DEF BlocksInv, OwnersFit
  <2> QED BY <1>2, <2>1, FS_EmptySet
<1> QED BY <1>1, <1>2

(***************************************************************************)
(* Whatever the application configures, creates, shares between instances  *)
(* and frees, in any order that keeps to the interface's terms: every      *)
(* handle that createDynatraceOpenKit() made has exactly one owner until   *)
(* shutdownOpenKit() frees it, none of the application's has one, and      *)
(* nothing is freed twice or used after it was freed - except the handles  *)
(* that a further instance got from an earlier one through the             *)
(* configuration they share, which the flag there gives two owners.        *)
(***************************************************************************)
THEOREM FreedExactlyOnce == Spec => []OwnedOnce
<1>1. Init => BlocksInv
  BY InitBlocksInv
<1>2. BlocksInv /\ [Next]_vars => BlocksInv'
  BY NextBlocksInv
<1>3. BlocksInv => OwnedOnce
  BY BlocksInvOwnedOnce
<1> QED BY <1>1, <1>2, <1>3, PTL DEF Spec

-----------------------------------------------------------------------------
(* The threads by name. *)
LEMMA ThreadsAre == Threads = ThreadNames
<1>1. ThreadOrder = <<"evictor", "watchdog", "sender">> /\ DOMAIN ThreadOrder = 1..3
  BY DEF ThreadOrder
<1>2. Threads = {ThreadOrder[i] : i \in 1..3}
  BY <1>1 DEF Threads, Range
<1>3. ThreadOrder[1] = "evictor" /\ ThreadOrder[2] = "watchdog" /\ ThreadOrder[3] = "sender"
  BY <1>1
<1> QED BY <1>2, <1>3 DEF ThreadNames

(* What is freed changes in nothing else. *)
LEMMA ReleaseFrees ==
    ASSUME NEW K \in [Kits -> KitRecord], NEW H, Release(K, H)
    PROVE  /\ kit' \in [Kits -> KitRecord]
           /\ \A k \in Kits :
                /\ kit'[k].mIsShutdown = K[k].mIsShutdown /\ kit'[k].children = K[k].children
                /\ kit'[k].context = K[k].context /\ kit'[k].initialized = K[k].initialized
                /\ kit'[k].stage = K[k].stage /\ kit'[k].toClose = K[k].toClose
                /\ kit'[k].thread = K[k].thread
                /\ \/ kit'[k].phase = K[k].phase
                   \/ kit'[k].phase = "freed" /\ K[k].phase = "alive" /\ k \notin H
<1> DEFINE dead == {k \in Kits : K[k].phase = "alive" /\ k \notin H /\ ~Referenced(K[k])}
<1>1. kit' = [k \in Kits |-> IF k \in dead THEN [K[k] EXCEPT !.phase = "freed"] ELSE K[k]]
  BY DEF Release
<1>2. \A k \in dead : k \in Kits /\ K[k].phase = "alive" /\ k \notin H
  OBVIOUS
<1> HIDE DEF dead
<1>3. ASSUME NEW k \in Kits
      PROVE  LET freed == [K[k] EXCEPT !.phase = "freed"]
             IN /\ freed \in KitRecord /\ freed.phase = "freed"
                /\ freed.mIsShutdown = K[k].mIsShutdown /\ freed.children = K[k].children
                /\ freed.context = K[k].context /\ freed.initialized = K[k].initialized
                /\ freed.stage = K[k].stage /\ freed.toClose = K[k].toClose
                /\ freed.thread = K[k].thread
  BY DEF KitRecord
<1>4. ASSUME NEW k \in Kits
      PROVE  /\ kit'[k] \in KitRecord
             /\ kit'[k].mIsShutdown = K[k].mIsShutdown /\ kit'[k].children = K[k].children
             /\ kit'[k].context = K[k].context /\ kit'[k].initialized = K[k].initialized
             /\ kit'[k].stage = K[k].stage /\ kit'[k].toClose = K[k].toClose
             /\ kit'[k].thread = K[k].thread
             /\ \/ kit'[k].phase = K[k].phase
                \/ kit'[k].phase = "freed" /\ K[k].phase = "alive" /\ k \notin H
  <2>1. CASE k \in dead
    BY <1>1, <1>2, <1>3, <2>1
  <2>2. CASE k \notin dead
    BY <1>1, <2>2
  <2> QED BY <2>1, <2>2
<1> QED BY <1>1, <1>4

(* The count of instances goes down by as many as are freed. *)
LEMMA ReleaseCounts ==
    ASSUME KitsInv, NEW K \in [Kits -> KitRecord], NEW H, Release(K, H),
           \A k \in Kits : K[k].phase = kit[k].phase
    PROVE  CountFits' /\ gInstanceCount' \in Nat /\ curl' \in BOOLEAN
<1> DEFINE dead == {k \in Kits : K[k].phase = "alive" /\ k \notin H /\ ~Referenced(K[k])}
           n == Cardinality(dead)
<1>1. /\ kit' = [k \in Kits |-> IF k \in dead THEN [K[k] EXCEPT !.phase = "freed"] ELSE K[k]]
      /\ gInstanceCount' = gInstanceCount - n
      /\ curl' = (curl /\ (n = 0 \/ gInstanceCount - n > 0))
  BY DEF Release, globalShutdown
<1>2. dead \subseteq AliveKits /\ IsFiniteSet(AliveKits)
  BY BlockKinds, FS_Subset DEF AliveKits
<1>3. AliveKits' = AliveKits \ dead
  BY <1>1 DEF AliveKits, KitRecord
<1>4. AliveKits \cap dead = dead
  BY <1>2
<1>5. /\ Cardinality(AliveKits \ dead) = Cardinality(AliveKits) - n
      /\ n \in Nat /\ Cardinality(AliveKits) \in Nat /\ n <= Cardinality(AliveKits)
  BY ZenonT(60), <1>2, <1>4, FS_Difference, FS_Subset, FS_CardinalityType
<1>6. gInstanceCount = Cardinality(AliveKits) /\ (curl <=> gInstanceCount # 0)
      /\ gInstanceCount \in Nat /\ curl \in BOOLEAN
  BY DEF KitsInv, CountFits, KitTypeOK
<1> HIDE DEF dead, n
<1>7. gInstanceCount' = Cardinality(AliveKits)' /\ gInstanceCount' \in Nat
  BY <1>1, <1>3, <1>5, <1>6
<1>8. curl' <=> gInstanceCount' # 0
  <2>1. CASE curl
    <3>1. gInstanceCount # 0 /\ (gInstanceCount' # 0 <=> n = 0 \/ gInstanceCount - n > 0)
      BY <1>1, <1>5, <1>6, <2>1
    <3> QED BY <1>1, <2>1, <3>1
  <2>2. CASE ~curl
    <3>1. gInstanceCount = 0 /\ gInstanceCount' = 0
      BY <1>1, <1>5, <1>6, <2>2
    <3> QED BY <1>1, <2>2, <3>1
  <2> QED BY <2>1, <2>2
<1>9. curl' \in BOOLEAN
  BY <1>1
<1> QED BY <1>7, <1>8, <1>9 DEF CountFits

(***************************************************************************)
(* A step in which the instances become those of K, and those of them that *)
(* nothing refers to any more may be freed: it is enough to look at K.     *)
(***************************************************************************)
LEMMA StepKeeps ==
    ASSUME KitsInv, NEW K \in [Kits -> KitRecord], NEW H,
           Keep(K) \/ Release(K, H),
           \A k \in Kits : kitHandle'[k].state \in {"live", "closing"} => k \in H,
           \A k \in Kits : K[k].phase = kit[k].phase,
           \A k \in Kits : KitFits(K[k], kitHandle'[k].state),
           session' \in [Sessions -> SessionRecord],
           \A s \in Sessions :
              /\ session'[s].kit \in Kits => SessionFits(session'[s], K[session'[s].kit], s)
              /\ session'[s].kit \notin Kits => session'[s].state = "none",
           kitHandle' \in [Kits -> KitHandleRecord], handle' \in [Handles -> HandleRecord], OneCallEnds'
    PROVE  KitsInv'
<1>1. CASE Keep(K)
  <2>1. kit' = K /\ gInstanceCount' = gInstanceCount /\ curl' = curl
    BY <1>1 DEF Keep
  <2>2. CountFits'
    <3>1. AliveKits' = AliveKits
      BY <2>1 DEF AliveKits
    <3> QED BY <2>1, <3>1 DEF CountFits, KitsInv
  <2>3. KitTypeOK'
    BY <2>1 DEF KitTypeOK, KitsInv
  <2>4. KitsFit' /\ SessionsFit'
    BY <2>1 DEF KitsFit, SessionsFit
  <2> QED BY <2>2, <2>3, <2>4 DEF KitsInv
<1>2. CASE Release(K, H)
  <2>1. CountFits' /\ gInstanceCount' \in Nat /\ curl' \in BOOLEAN
    BY <1>2, ReleaseCounts
  <2>2. /\ kit' \in [Kits -> KitRecord]
        /\ \A k \in Kits :
                /\ kit'[k].mIsShutdown = K[k].mIsShutdown /\ kit'[k].children = K[k].children
                /\ kit'[k].context = K[k].context /\ kit'[k].initialized = K[k].initialized
                /\ kit'[k].stage = K[k].stage /\ kit'[k].toClose = K[k].toClose
                /\ kit'[k].thread = K[k].thread
                /\ \/ kit'[k].phase = K[k].phase
                   \/ kit'[k].phase = "freed" /\ K[k].phase = "alive" /\ k \notin H
    BY <1>2, ReleaseFrees
  <2>3. KitTypeOK'
    BY <2>1, <2>2 DEF KitTypeOK
  <2>4. ASSUME NEW k \in Kits PROVE KitFits(kit[k], kitHandle[k].state)'
    BY <2>2, <2>4 DEF KitFits
  <2>5. SessionsFit'
    BY <2>2 DEF SessionsFit, SessionFits
  <2> QED BY <2>1, <2>3, <2>4, <2>5 DEF KitsInv, KitsFit
<1> QED BY <1>1, <1>2

(* The application has the instances whose handles are in use. *)
LEMMA InUseIsHeld ==
    ASSUME NEW kh, NEW oh, NEW k \in Kits, kh[k].state \in {"live", "closing"}
    PROVE  k \in Held(kh, oh)
BY DEF Held

(* A step that changes one instance, and no session. *)
LEMMA OneKitKeeps ==
    ASSUME KitsInv, NEW k \in Kits, NEW x \in KitRecord, x.phase = kit[k].phase,
           Keep([kit EXCEPT ![k] = x]), UNCHANGED <<session, handle>>,
           kitHandle' \in [Kits -> KitHandleRecord], KitFits(x, kitHandle'[k].state),
           \A j \in Kits : j # k => kitHandle'[j] = kitHandle[j],
           \A s \in Sessions : session[s].kit = k /\ SessionFits(session[s], kit[k], s)
                                  => SessionFits(session[s], x, s)
    PROVE  KitsInv'
<1> DEFINE K == [kit EXCEPT ![k] = x]
<1>1. /\ K \in [Kits -> KitRecord] /\ K[k] = x
      /\ \A j \in Kits : j # k => K[j] = kit[j]
  BY DEF KitsInv, KitTypeOK
<1>2. session' = session /\ handle' = handle /\ Keep(K)
  OBVIOUS
<1> HIDE DEF K
<1>3. \A j \in Kits : KitFits(K[j], kitHandle'[j].state) /\ K[j].phase = kit[j].phase
  BY <1>1 DEF KitsInv, KitsFit
<1>4. \A s \in Sessions :
         /\ session'[s].kit \in Kits => SessionFits(session'[s], K[session'[s].kit], s)
         /\ session'[s].kit \notin Kits => session'[s].state = "none"
  BY <1>1, <1>2 DEF KitsInv, SessionsFit
<1>5. OneCallEnds'
  BY <1>2 DEF KitsInv, OneCallEnds
<1>6. session' \in [Sessions -> SessionRecord] /\ handle' \in [Handles -> HandleRecord]
  BY <1>2 DEF KitsInv, KitTypeOK
<1> QED BY <1>1, <1>2, <1>3, <1>4, <1>5, <1>6, StepKeeps

(* What the invariant says of one instance. *)
LEMMA KitFacts ==
    ASSUME KitsInv, NEW k \in Kits
    PROVE  /\ kit[k] \in KitRecord /\ KitFits(kit[k], kitHandle[k].state)
           /\ kitHandle[k] \in KitHandleRecord
BY DEF KitsInv, KitTypeOK, KitsFit

(* shutdownOpenKit(). *)
LEMMA ShutdownKeepsKits ==
    ASSUME KitsInv, NEW k \in Kits, shutdownOpenKit(k)
    PROVE  KitsInv'
<1> DEFINE x == [kit[k] EXCEPT !.mIsShutdown = TRUE, !.stage = "marked", !.toClose = kit[k].children]
<1>1. /\ kitHandle[k].state = "live" /\ Keep([kit EXCEPT ![k] = x]) /\ UNCHANGED <<session, handle>>
      /\ kitHandle' = [kitHandle EXCEPT ![k].state = "closing"]
  <2>1. Keep([kit EXCEPT ![k].mIsShutdown = TRUE, ![k].stage = "marked",
                        ![k].toClose = kit[k].children])
    BY DEF shutdownOpenKit, shutdown
  <2>2. [kit EXCEPT ![k].mIsShutdown = TRUE, ![k].stage = "marked", ![k].toClose = kit[k].children]
          = [kit EXCEPT ![k] = x]
    BY DEF KitsInv, KitTypeOK
  <2> QED BY <2>1, <2>2 DEF shutdownOpenKit, shutdown, Live
<1>2. /\ x \in KitRecord /\ x.phase = kit[k].phase /\ x.mIsShutdown = TRUE /\ x.stage = "marked"
      /\ x.toClose = kit[k].children /\ x.children = kit[k].children /\ x.context = kit[k].context
      /\ x.initialized = kit[k].initialized /\ x.thread = kit[k].thread
  BY KitFacts DEF KitRecord
<1> HIDE DEF x
<1>3. /\ kitHandle' \in [Kits -> KitHandleRecord] /\ kitHandle'[k].state = "closing"
      /\ \A j \in Kits : j # k => kitHandle'[j] = kitHandle[j]
  BY <1>1 DEF KitsInv, KitTypeOK, KitHandleRecord
<1>4. KitFits(x, kitHandle'[k].state)
  BY <1>1, <1>2, <1>3, KitFacts DEF KitFits, ThreadsInOrder
<1>5. \A s \in Sessions : SessionFits(session[s], kit[k], s) => SessionFits(session[s], x, s)
  BY <1>2 DEF SessionFits
<1> QED BY <1>1, <1>2, <1>3, <1>4, <1>5, OneKitKeeps

(* Steps of shutdown() that stop threads, and steps of the threads. *)
LEMMA StopKeepsKits ==
    ASSUME KitsInv, NEW k \in Kits, NEW t \in Threads,
           requestStop(k, t) \/ join(k) \/ threadEnds(k, t) \/ initCompleted(k),
           UNCHANGED cVars
    PROVE  KitsInv'
<1>1. /\ kit[k] \in KitRecord /\ KitFits(kit[k], kitHandle[k].state) /\ t \in ThreadNames
      /\ kit[k].thread \in [ThreadNames -> {"none", "running", "stopping"} \cup Ended]
  BY KitFacts, ThreadsAre DEF KitRecord
<1>2. /\ kitHandle' = kitHandle /\ session' = session /\ handle' = handle
      /\ kitHandle' \in [Kits -> KitHandleRecord]
  BY DEF cVars, requestStop, join, threadEnds, initCompleted, KitsInv, KitTypeOK
<1>3. CASE requestStop(k, t)
  <2> DEFINE y == [kit[k].thread EXCEPT ![t] = IF kit[k].thread[t] = "running" THEN "stopping" ELSE @]
             x == [kit[k] EXCEPT !.stage = t, !.thread = y]
  <2>1. Keep([kit EXCEPT ![k] = x])
    <3>1. [kit EXCEPT ![k].stage = t, ![k].thread[t] = IF @ = "running" THEN "stopping" ELSE @]
            = [kit EXCEPT ![k] = x]
      BY <1>1 DEF KitsInv, KitTypeOK, KitRecord
    <3> QED BY <1>3, <3>1 DEF requestStop
  <2>2. /\ y \in [ThreadNames -> {"none", "running", "stopping"} \cup Ended]
        /\ y[t] = IF kit[k].thread[t] = "running" THEN "stopping" ELSE kit[k].thread[t]
        /\ \A u \in ThreadNames : u # t => y[u] = kit[k].thread[u]
    BY <1>1
  <2> HIDE DEF y
  <2>3. /\ x \in KitRecord /\ x.phase = kit[k].phase /\ x.mIsShutdown = kit[k].mIsShutdown
        /\ x.stage = t /\ x.children = kit[k].children /\ x.context = kit[k].context
        /\ x.initialized = kit[k].initialized /\ x.thread = y /\ x.toClose = kit[k].toClose
    BY <1>1, <2>2 DEF KitRecord
  <2> HIDE DEF x
  <2>4. /\ \/ kit[k].stage = "marked" /\ kit[k].toClose = {} /\ t = "evictor"
           \/ kit[k].stage = "evictor" /\ kit[k].thread["evictor"] # "stopping" /\ t = "watchdog"
           \/ kit[k].stage = "watchdog" /\ kit[k].thread["watchdog"] # "stopping" /\ t = "sender"
    BY <1>1, <1>3, ThreadsAre DEF requestStop, NextStage, ThreadNames
  <2>5. kit[k].phase # "none" /\ kitHandle[k].state = "closing" /\ kit[k].mIsShutdown
    BY <1>1, <2>4, KitFacts DEF KitFits, KitHandleRecord
  <2>6. ThreadsInOrder(t, y) /\ y["sender"] # "stopped" /\ \A u \in ThreadNames : y[u] # "none"
    BY <1>1, <2>2, <2>4, <2>5 DEF KitFits, ThreadsInOrder, ThreadNames, Ended
  <2>7. KitFits(x, kitHandle'[k].state)
    BY <1>1, <1>2, <2>3, <2>5, <2>6 DEF KitFits, ThreadNames
  <2>8. \A s \in Sessions : SessionFits(session[s], kit[k], s) => SessionFits(session[s], x, s)
    BY <2>3, <2>4, <2>6 DEF SessionFits
  <2> QED BY <1>2, <2>1, <2>3, <2>7, <2>8, OneKitKeeps
<1>4. CASE join(k)
  <2> DEFINE u == kit[k].stage
             y == [kit[k].thread EXCEPT ![u] = "lost"]
             x == [kit[k] EXCEPT !.thread = y]
  <2>1. Keep([kit EXCEPT ![k] = x]) /\ u \in ThreadNames /\ kit[k].thread[u] = "stopping"
    <3>1. [kit EXCEPT ![k].thread[u] = "lost"] = [kit EXCEPT ![k] = x]
      BY <1>1 DEF KitsInv, KitTypeOK, KitRecord
    <3> QED BY <1>4, <3>1, ThreadsAre DEF join
  <2>2. /\ y \in [ThreadNames -> {"none", "running", "stopping"} \cup Ended]
        /\ y[u] = "lost" /\ \A v \in ThreadNames : v # u => y[v] = kit[k].thread[v]
    BY <1>1, <2>1 DEF Ended
  <2> HIDE DEF y
  <2>3. /\ x \in KitRecord /\ x.phase = kit[k].phase /\ x.mIsShutdown = kit[k].mIsShutdown
        /\ x.stage = u /\ x.children = kit[k].children /\ x.context = kit[k].context
        /\ x.initialized = kit[k].initialized /\ x.thread = y /\ x.toClose = kit[k].toClose
    BY <1>1, <2>2 DEF KitRecord
  <2> HIDE DEF x
  <2>4. KitFits(x, kitHandle'[k].state)
    BY <1>1, <1>2, <2>1, <2>2, <2>3 DEF KitFits, ThreadsInOrder, ThreadNames, Ended
  <2>5. \A s \in Sessions : SessionFits(session[s], kit[k], s) => SessionFits(session[s], x, s)
    BY <2>1, <2>2, <2>3 DEF SessionFits, ThreadNames
  <2> QED BY <1>2, <2>1, <2>3, <2>4, <2>5, OneKitKeeps
<1>5. CASE threadEnds(k, t)
  <2> DEFINE y == [kit[k].thread EXCEPT ![t] = "stopped"]
             x == [kit[k] EXCEPT !.thread = y]
  <2>1. Keep([kit EXCEPT ![k] = x]) /\ t # "sender" /\ kit[k].thread[t] \in {"stopping", "lost"}
    <3>1. [kit EXCEPT ![k].thread[t] = "stopped"] = [kit EXCEPT ![k] = x]
      BY <1>1 DEF KitsInv, KitTypeOK, KitRecord
    <3> QED BY <1>5, <3>1 DEF threadEnds
  <2>2. /\ y \in [ThreadNames -> {"none", "running", "stopping"} \cup Ended]
        /\ y[t] = "stopped" /\ \A v \in ThreadNames : v # t => y[v] = kit[k].thread[v]
    BY <1>1 DEF Ended
  <2> HIDE DEF y
  <2>3. /\ x \in KitRecord /\ x.phase = kit[k].phase /\ x.mIsShutdown = kit[k].mIsShutdown
        /\ x.stage = kit[k].stage /\ x.children = kit[k].children /\ x.context = kit[k].context
        /\ x.initialized = kit[k].initialized /\ x.thread = y /\ x.toClose = kit[k].toClose
    BY <1>1, <2>2 DEF KitRecord
  <2> HIDE DEF x
  <2>4. KitFits(x, kitHandle'[k].state)
    BY <1>1, <1>2, <2>1, <2>2, <2>3 DEF KitFits, ThreadsInOrder, ThreadNames, Ended
  <2>5. \A s \in Sessions : SessionFits(session[s], kit[k], s) => SessionFits(session[s], x, s)
    BY <1>1, <2>1, <2>2, <2>3 DEF SessionFits, ThreadNames
  <2> QED BY <1>2, <2>1, <2>3, <2>4, <2>5, OneKitKeeps
<1>6. CASE initCompleted(k)
  <2> DEFINE x == [kit[k] EXCEPT !.initialized = TRUE]
  <2>1. Keep([kit EXCEPT ![k] = x]) /\ kit[k].thread["sender"] = "running"
    BY <1>6 DEF initCompleted
  <2>2. /\ x \in KitRecord /\ x.phase = kit[k].phase /\ x.mIsShutdown = kit[k].mIsShutdown
        /\ x.stage = kit[k].stage /\ x.children = kit[k].children /\ x.context = kit[k].context
        /\ x.thread = kit[k].thread /\ x.toClose = kit[k].toClose
    BY <1>1 DEF KitRecord
  <2> HIDE DEF x
  <2>3. KitFits(x, kitHandle'[k].state)
    BY <1>1, <1>2, <2>2 DEF KitFits
  <2>4. \A s \in Sessions : SessionFits(session[s], kit[k], s) => SessionFits(session[s], x, s)
    BY <2>1, <2>2 DEF SessionFits
  <2> QED BY <1>2, <2>1, <2>2, <2>3, <2>4, OneKitKeeps
<1> QED BY <1>3, <1>4, <1>5, <1>6

(* What the invariant says of one session of an instance. *)
LEMMA SessionFacts ==
    ASSUME KitsInv, NEW s \in Sessions
    PROVE  /\ session[s] \in SessionRecord
           /\ session[s].state # "none" => session[s].kit \in Kits
           /\ session[s].kit \in Kits => SessionFits(session[s], kit[session[s].kit], s)
           /\ session[s].kit \notin Kits => session[s].state = "none"
BY DEF KitsInv, KitTypeOK, SessionsFit

(* A session is open only while the sending thread runs. *)
LEMMA OpenWhileRunning ==
    ASSUME KitsInv, NEW s \in Sessions, session[s].state = "open"
    PROVE  session[s].kit \in Kits /\ kit[session[s].kit].thread["sender"] = "running"
<1>1. /\ session[s].kit \in Kits /\ kit[session[s].kit].stage \in {"none", "marked"}
      /\ kit[session[s].kit].phase # "none"
  BY SessionFacts DEF SessionFits
<1> QED BY <1>1, KitFacts DEF KitFits, ThreadsInOrder

(* A call that ends a session has one to end. *)
LEMMA EndingIsSession ==
    ASSUME KitsInv
    PROVE  \A h \in Handles : handle[h].state = "ending" =>
              handle[h].session \in Sessions /\ session[handle[h].session].state = "ending"
BY DEF KitsInv, OneCallEnds, KitTypeOK, HandleRecord

(* What is left when an instance is told that one of its sessions has ended. *)
LEMMA ChildClosedFacts ==
    ASSUME NEW K0 \in [Kits -> KitRecord], NEW s \in Sessions
    PROVE  /\ onChildClosed(K0, s) \in [Kits -> KitRecord]
           /\ \A j \in Kits :
                /\ onChildClosed(K0, s)[j].phase = K0[j].phase
                /\ onChildClosed(K0, s)[j].mIsShutdown = K0[j].mIsShutdown
                /\ onChildClosed(K0, s)[j].context = K0[j].context
                /\ onChildClosed(K0, s)[j].initialized = K0[j].initialized
                /\ onChildClosed(K0, s)[j].stage = K0[j].stage
                /\ onChildClosed(K0, s)[j].thread = K0[j].thread
                /\ onChildClosed(K0, s)[j].toClose = K0[j].toClose
                /\ K0[j].children \ {s} \subseteq onChildClosed(K0, s)[j].children
<1> DEFINE i == session[s].kit
           x == [K0[i] EXCEPT !.children = @ \ {s}]
           K == [K0 EXCEPT ![i] = x]
<1>1. onChildClosed(K0, s) = K
  BY DEF onChildClosed
<1>2. CASE i \in Kits
  <2>1. /\ x \in KitRecord /\ x.phase = K0[i].phase /\ x.mIsShutdown = K0[i].mIsShutdown
        /\ x.context = K0[i].context /\ x.initialized = K0[i].initialized /\ x.stage = K0[i].stage
        /\ x.thread = K0[i].thread /\ x.toClose = K0[i].toClose /\ x.children = K0[i].children \ {s}
    BY <1>2 DEF KitRecord
  <2> HIDE DEF x, i
  <2>2. K \in [Kits -> KitRecord] /\ K[i] = x /\ \A j \in Kits : j # i => K[j] = K0[j]
    BY <1>2, <2>1
  <2> HIDE DEF K
  <2> QED BY <1>1, <2>1, <2>2
<1>3. CASE i \notin Kits
  <2>1. K = K0
    BY <1>3
  <2> QED BY <1>1, <2>1
<1> QED BY <1>2, <1>3

(* close() of a child, by shutdown(). *)
LEMMA CloseChildKeepsKits ==
    ASSUME KitsInv, NEW k \in Kits, NEW s \in Sessions, closeChild(k, s), UNCHANGED cVars
    PROVE  KitsInv'
<1> DEFINE K0 == [kit EXCEPT ![k].toClose = @ \ {s}]
           K == IF session[s].state = "open" THEN onChildClosed(K0, s) ELSE K0
<1>1. /\ Keep(K) /\ kitHandle' = kitHandle /\ handle' = handle
      /\ session' = IF session[s].state = "open" THEN Finished(s) ELSE session
  BY DEF closeChild, cVars
<1>2. /\ K0 \in [Kits -> KitRecord]
      /\ \A j \in Kits :
           /\ K0[j].phase = kit[j].phase /\ K0[j].mIsShutdown = kit[j].mIsShutdown
           /\ K0[j].context = kit[j].context /\ K0[j].initialized = kit[j].initialized
           /\ K0[j].stage = kit[j].stage /\ K0[j].thread = kit[j].thread
           /\ K0[j].children = kit[j].children /\ kit[j].toClose \ {s} \subseteq K0[j].toClose
  BY ZenonT(60) DEF KitsInv, KitTypeOK, KitRecord
<1> HIDE DEF K0
<1>3. /\ K \in [Kits -> KitRecord]
      /\ \A j \in Kits :
           /\ K[j].phase = kit[j].phase /\ K[j].mIsShutdown = kit[j].mIsShutdown
           /\ K[j].context = kit[j].context /\ K[j].initialized = kit[j].initialized
           /\ K[j].stage = kit[j].stage /\ K[j].thread = kit[j].thread
           /\ kit[j].children \ {s} \subseteq K[j].children
           /\ kit[j].toClose \ {s} \subseteq K[j].toClose
  <2>1. CASE session[s].state = "open"
    BY <1>2, <2>1, ChildClosedFacts
  <2>2. CASE session[s].state # "open"
    BY <1>2, <2>2
  <2> QED BY <2>1, <2>2
<1> HIDE DEF K
<1>4. /\ session' \in [Sessions -> SessionRecord]
      /\ session'[s].kit = session[s].kit
      /\ session'[s].state # "open" /\ (session[s].state # "open" => session'[s] = session[s])
      /\ session[s].state = "open" => session'[s].state = "finished"
      /\ \A r \in Sessions : r # s => session'[r] = session[r]
  BY <1>1 DEF KitsInv, KitTypeOK, SessionRecord, Finished
<1>5. \A j \in Kits : KitFits(K[j], kitHandle'[j].state)
  BY <1>1, <1>3, KitFacts DEF KitFits
<1>6. ASSUME NEW r \in Sessions
      PROVE  /\ session'[r].kit \in Kits => SessionFits(session'[r], K[session'[r].kit], r)
             /\ session'[r].kit \notin Kits => session'[r].state = "none"
  <2>1. CASE r # s
    BY <1>3, <1>4, <2>1, SessionFacts DEF SessionFits
  <2>2. CASE r = s /\ session[s].state # "open"
    BY <1>3, <1>4, <2>2, SessionFacts DEF SessionFits
  <2>3. CASE r = s /\ session[s].state = "open"
    BY <1>3, <1>4, <2>3, SessionFacts, OpenWhileRunning DEF SessionFits
  <2> QED BY <2>1, <2>2, <2>3
<1>7. OneCallEnds'
  BY <1>1, <1>4, EndingIsSession DEF KitsInv, OneCallEnds
<1>8. kitHandle' \in [Kits -> KitHandleRecord] /\ handle' \in [Handles -> HandleRecord]
  BY <1>1 DEF KitsInv, KitTypeOK
<1> QED BY <1>1, <1>3, <1>4, <1>5, <1>6, <1>7, <1>8, StepKeeps

(* The end of shutdownOpenKit(): the handle is released. *)
LEMMA ReleaseKeepsKits ==
    ASSUME KitsInv, NEW k \in Kits, releaseOpenKit(k)
    PROVE  KitsInv'
<1> DEFINE K == [kit EXCEPT ![k].stage = "done"]
           H == Held(kitHandle', handle)
<1>1. /\ Release(K, H) /\ handle' = handle /\ session' = session
      /\ kitHandle' = [kitHandle EXCEPT ![k].state = "released"]
      /\ kit[k].stage = "sender" /\ kit[k].thread["sender"] \in Ended
  BY DEF releaseOpenKit, shutdownReturns, Ended
<1>2. /\ K \in [Kits -> KitRecord] /\ K[k].stage = "done"
      /\ \A j \in Kits :
           /\ K[j].phase = kit[j].phase /\ K[j].mIsShutdown = kit[j].mIsShutdown
           /\ K[j].context = kit[j].context /\ K[j].initialized = kit[j].initialized
           /\ K[j].thread = kit[j].thread
           /\ K[j].children = kit[j].children /\ kit[j].toClose = K[j].toClose
           /\ j # k => K[j].stage = kit[j].stage
  BY ZenonT(60) DEF KitsInv, KitTypeOK, KitRecord
<1> HIDE DEF K
<1>3. /\ kitHandle' \in [Kits -> KitHandleRecord] /\ kitHandle'[k].state = "released"
      /\ \A j \in Kits : j # k => kitHandle'[j] = kitHandle[j]
  BY <1>1 DEF KitsInv, KitTypeOK, KitHandleRecord
<1>4. \A j \in Kits : kitHandle'[j].state \in {"live", "closing"} => j \in H
  BY InUseIsHeld
<1> HIDE DEF H
<1>5. ASSUME NEW j \in Kits PROVE KitFits(K[j], kitHandle'[j].state)
  <2>1. CASE j # k
    BY <1>2, <1>3, <2>1, KitFacts DEF KitFits
  <2>2. CASE j = k
    BY <1>1, <1>2, <1>3, <2>2, KitFacts DEF KitFits, ThreadsInOrder
  <2> QED BY <2>1, <2>2
<1>6. \A r \in Sessions :
         /\ session'[r].kit \in Kits => SessionFits(session'[r], K[session'[r].kit], r)
         /\ session'[r].kit \notin Kits => session'[r].state = "none"
  BY <1>1, <1>2, SessionFacts DEF SessionFits
<1>7. OneCallEnds'
  BY <1>1 DEF KitsInv, OneCallEnds
<1>8. session' \in [Sessions -> SessionRecord] /\ handle' \in [Handles -> HandleRecord]
  BY <1>1 DEF KitsInv, KitTypeOK
<1> QED BY <1>1, <1>2, <1>3, <1>4, <1>5, <1>6, <1>7, <1>8, StepKeeps

(* A step in which instances are at most freed, and a session may capture. *)
LEMMA CaptureKeepsKits ==
    ASSUME KitsInv, NEW H, \A k \in Kits : kitHandle'[k].state \in {"live", "closing"} => k \in H,
           Keep(kit) \/ Release(kit, H), kitHandle' = kitHandle,
           NEW g \in Handles, session' = Captured(g) \/ session' = session,
           handle' \in [Handles -> HandleRecord],
           \A h \in Handles : handle'[h].state = "ending" =>
              handle[h].state = "ending" /\ handle'[h].session = handle[h].session
    PROVE  KitsInv'
<1>1. /\ session' \in [Sessions -> SessionRecord]
      /\ \A s \in Sessions :
           /\ session'[s].kit = session[s].kit /\ session'[s].state = session[s].state
           /\ session'[s].missed = session[s].missed
           /\ \/ session'[s].data = session[s].data
              \/ session[s].state \in {"open", "ending"}
  <2>1. CASE session' = session
    BY <2>1 DEF KitsInv, KitTypeOK
  <2>2. CASE session' = Captured(g) /\ ~Capturing(g)
    BY <2>2 DEF KitsInv, KitTypeOK, Captured
  <2>3. CASE session' = Captured(g) /\ Capturing(g)
    <3> DEFINE r == handle[g].session
    <3>1. r \in Sessions /\ session[r].state \in {"open", "ending"}
      BY <2>3 DEF Capturing, KitsInv, KitTypeOK, HandleRecord
    <3>2. session' = [session EXCEPT ![r].data = TRUE]
      BY <2>3 DEF Captured
    <3> HIDE DEF r
    <3> QED BY ZenonT(60), <3>1, <3>2 DEF KitsInv, KitTypeOK, SessionRecord
  <2> QED BY <2>1, <2>2, <2>3
<1>2. ASSUME NEW s \in Sessions
      PROVE  /\ session'[s].kit \in Kits => SessionFits(session'[s], kit[session'[s].kit], s)
             /\ session'[s].kit \notin Kits => session'[s].state = "none"
  <2>1. CASE session[s].state = "open"
    BY <1>1, <2>1, SessionFacts, OpenWhileRunning DEF SessionFits
  <2>2. CASE session[s].state # "open"
    BY <1>1, <2>2, SessionFacts DEF SessionFits
  <2> QED BY <2>1, <2>2
<1>3. OneCallEnds'
  BY <1>1, EndingIsSession DEF KitsInv, OneCallEnds
<1>4. /\ kit \in [Kits -> KitRecord] /\ kitHandle' \in [Kits -> KitHandleRecord]
      /\ \A k \in Kits : KitFits(kit[k], kitHandle'[k].state)
  BY DEF KitsInv, KitTypeOK, KitsFit
<1> QED BY <1>1, <1>2, <1>3, <1>4, StepKeeps

(* The handle of an object is released. *)
LEMMA ReleasedHandle ==
    ASSUME KitsInv, NEW h \in Handles, handle' = [handle EXCEPT ![h].state = "released"]
    PROVE  /\ handle' \in [Handles -> HandleRecord] /\ handle'[h].state = "released"
           /\ \A g \in Handles : g # h => handle'[g] = handle[g]
           /\ \A g \in Handles : handle'[g].state = "ending" =>
                 handle[g].state = "ending" /\ handle'[g].session = handle[g].session
BY DEF KitsInv, KitTypeOK, HandleRecord

(* The application gets a new handle. *)
LEMMA NewHandleType ==
    ASSUME KitsInv, NEW kind \in {"session", "rootAction", "action", "tracer"},
           NEW s \in Sessions \cup {Null}, NewHandle(kind, s)
    PROVE  /\ handle' \in [Handles -> HandleRecord]
           /\ \A g \in Handles : handle'[g].state = "ending" =>
                 handle[g].state = "ending" /\ handle'[g].session = handle[g].session
<1> DEFINE n == New(handle)
           x == [state |-> "live", kind |-> kind, session |-> s]
<1>1. handle' = [handle EXCEPT ![n] = x]
  BY DEF NewHandle
<1>2. x \in HandleRecord /\ x.state = "live"
  BY DEF HandleRecord
<1> HIDE DEF x, n
<1> QED BY <1>1, <1>2 DEF KitsInv, KitTypeOK

(* Calls on handles that end no session. *)
LEMMA HandleCallsKeepKits ==
    ASSUME KitsInv, NEW h \in Handles,
           \/ enterRootAction(h) \/ enterAction(h) \/ traceWebRequest(h)
           \/ reportOnSession(h) \/ reportOnRootAction(h) \/ reportOnAction(h)
           \/ leaveRootAction(h) \/ cancelRootAction(h) \/ leaveAction(h) \/ cancelAction(h)
           \/ stopWebRequestWithResponseCode(h)
    PROVE  KitsInv'
<1> DEFINE H == Held(kitHandle', handle')
<1>1. \A k \in Kits : kitHandle'[k].state \in {"live", "closing"} => k \in H
  BY InUseIsHeld
<1>2. CASE enterRootAction(h) \/ enterAction(h) \/ traceWebRequest(h)
  <2>1. PICK kind \in {"session", "rootAction", "action", "tracer"} :
           /\ NewHandle(kind, ObjectOf(h)) /\ kitHandle' = kitHandle /\ session' = session
           /\ Keep(kit)
    BY <1>2 DEF enterRootAction, enterAction, traceWebRequest, Opened, kitVars, Keep
  <2>2. ObjectOf(h) \in Sessions \cup {Null}
    BY DEF ObjectOf, KitsInv, KitTypeOK, HandleRecord
  <2>3. /\ handle' \in [Handles -> HandleRecord]
        /\ \A g \in Handles : handle'[g].state = "ending" =>
              handle[g].state = "ending" /\ handle'[g].session = handle[g].session
    BY <2>1, <2>2, NewHandleType
  <2> HIDE DEF H
  <2> QED BY <1>1, <2>1, <2>3, CaptureKeepsKits
<1>3. CASE reportOnSession(h) \/ reportOnRootAction(h) \/ reportOnAction(h)
  <2>1. /\ session' = Captured(h) /\ kitHandle' = kitHandle /\ handle' = handle /\ Keep(kit)
    BY <1>3 DEF reportOnSession, reportOnRootAction, reportOnAction, report, cVars, Keep
  <2>2. handle' \in [Handles -> HandleRecord]
    BY <2>1 DEF KitsInv, KitTypeOK
  <2> HIDE DEF H
  <2> QED BY <1>1, <2>1, <2>2, CaptureKeepsKits
<1>4. CASE \/ leaveRootAction(h) \/ cancelRootAction(h) \/ leaveAction(h) \/ cancelAction(h)
           \/ stopWebRequestWithResponseCode(h)
  <2>1. /\ session' = Captured(h) \/ session' = session
        /\ ReleaseHandle(h, kit)
    BY <1>4 DEF leaveRootAction, cancelRootAction, leaveAction, cancelAction,
                stopWebRequestWithResponseCode
  <2>2. /\ kitHandle' = kitHandle /\ Release(kit, H)
        /\ handle' = [handle EXCEPT ![h].state = "released"]
    BY <2>1 DEF ReleaseHandle
  <2>3. /\ handle' \in [Handles -> HandleRecord]
        /\ \A g \in Handles : handle'[g].state = "ending" =>
              handle[g].state = "ending" /\ handle'[g].session = handle[g].session
    BY <2>2, ReleasedHandle
  <2> HIDE DEF H
  <2> QED BY <1>1, <2>1, <2>2, <2>3, CaptureKeepsKits
<1> QED BY <1>2, <1>3, <1>4

(* createSession(), or the NullSession. *)
LEMMA CreateSessionKeepsKits ==
    ASSUME KitsInv, NEW k \in Kits, createSessionHandle(k)
    PROVE  KitsInv'
<1>1. kitHandle' = kitHandle /\ kitHandle[k].state \in {"live", "closing"}
      /\ kitHandle' \in [Kits -> KitHandleRecord]
  BY DEF createSessionHandle, KitsInv, KitTypeOK
<1>2. CASE kit[k].mIsShutdown /\ NewHandle("session", Null) /\ UNCHANGED kitVars
  <2>1. /\ handle' \in [Handles -> HandleRecord]
        /\ \A g \in Handles : handle'[g].state = "ending" =>
              handle[g].state = "ending" /\ handle'[g].session = handle[g].session
    BY <1>2, NewHandleType
  <2>2. Keep(kit) /\ session' = session
    BY <1>2 DEF kitVars, Keep
  <2>3. OneCallEnds'
    BY <2>1, <2>2 DEF KitsInv, OneCallEnds
  <2>4. \A j \in Kits : KitFits(kit[j], kitHandle'[j].state) /\ j \in Kits
    BY <1>1, KitFacts
  <2>5. \A s \in Sessions :
           /\ session'[s].kit \in Kits => SessionFits(session'[s], kit[session'[s].kit], s)
           /\ session'[s].kit \notin Kits => session'[s].state = "none"
    BY <2>2, SessionFacts
  <2>6. kit \in [Kits -> KitRecord] /\ session' \in [Sessions -> SessionRecord]
    BY <2>2 DEF KitsInv, KitTypeOK
  <2> QED BY <1>1, <2>1, <2>2, <2>3, <2>4, <2>5, <2>6, StepKeeps
<1>3. CASE /\ Unused(session) # {} /\ createSession(k, New(session))
           /\ NewHandle("session", New(session))
  <2> DEFINE n == New(session)
             K == [kit EXCEPT ![k].children = @ \cup {n}, ![k].context = @ \cup {n}]
             y == [kit |-> k, state |-> "open", data |-> TRUE, missed |-> FALSE]
  <2>1. n \in Sessions /\ session[n].state = "none"
    <3>1. n \in Unused(session)
      BY <1>3 DEF New
    <3> QED BY <3>1 DEF Unused, KitsInv, KitTypeOK
  <2>2. ~kit[k].mIsShutdown /\ Keep(K) /\ session' = [session EXCEPT ![n] = y]
    BY <1>3 DEF createSession
  <2>3. /\ handle' \in [Handles -> HandleRecord]
        /\ \A g \in Handles : handle'[g].state = "ending" =>
              handle[g].state = "ending" /\ handle'[g].session = handle[g].session
    BY <1>3, <2>1, NewHandleType
  <2> HIDE DEF n
  <2>4. y \in SessionRecord /\ y.kit = k /\ y.state = "open"
    BY DEF SessionRecord
  <2> HIDE DEF y
  <2>5. /\ session' \in [Sessions -> SessionRecord] /\ session'[n] = y
        /\ \A s \in Sessions : s # n => session'[s] = session[s]
    BY <2>1, <2>2, <2>4 DEF KitsInv, KitTypeOK
  <2>6. /\ K \in [Kits -> KitRecord]
        /\ n \in K[k].children /\ n \in K[k].context
        /\ \A j \in Kits :
             /\ K[j].phase = kit[j].phase /\ K[j].mIsShutdown = kit[j].mIsShutdown
             /\ K[j].initialized = kit[j].initialized
             /\ K[j].stage = kit[j].stage /\ K[j].thread = kit[j].thread
             /\ K[j].toClose = kit[j].toClose
             /\ kit[j].children \subseteq K[j].children /\ kit[j].context \subseteq K[j].context
    <3> DEFINE x == [kit[k] EXCEPT !.children = @ \cup {n}, !.context = @ \cup {n}]
    <3>1. K = [kit EXCEPT ![k] = x]
      BY DEF KitsInv, KitTypeOK
    <3>2. /\ x \in KitRecord /\ x.phase = kit[k].phase /\ x.mIsShutdown = kit[k].mIsShutdown
          /\ x.initialized = kit[k].initialized /\ x.stage = kit[k].stage
          /\ x.thread = kit[k].thread /\ x.toClose = kit[k].toClose
          /\ x.children = kit[k].children \cup {n} /\ x.context = kit[k].context \cup {n}
      BY <2>1, KitFacts DEF KitRecord
    <3> HIDE DEF x, K
    <3>3. K \in [Kits -> KitRecord] /\ K[k] = x /\ \A j \in Kits : j # k => K[j] = kit[j]
      BY <3>1, <3>2 DEF KitsInv, KitTypeOK
    <3> QED BY <3>2, <3>3
  <2> HIDE DEF K
  <2>7. kit[k].stage = "none" /\ kit[k].phase = "alive" /\ kit[k].thread["sender"] = "running"
    BY <1>1, <2>2, KitFacts DEF KitFits, ThreadsInOrder
  <2>8. ASSUME NEW s \in Sessions
        PROVE  /\ session'[s].kit \in Kits => SessionFits(session'[s], K[session'[s].kit], s)
               /\ session'[s].kit \notin Kits => session'[s].state = "none"
    <3>1. CASE s = n
      BY <2>4, <2>5, <2>6, <2>7, <3>1 DEF SessionFits
    <3>2. CASE s # n
      BY <2>5, <2>6, <3>2, SessionFacts DEF SessionFits
    <3> QED BY <3>1, <3>2
  <2>9. \A j \in Kits : KitFits(K[j], kitHandle'[j].state) /\ K[j].phase = kit[j].phase
    BY <1>1, <2>6, KitFacts DEF KitFits
  <2>10. OneCallEnds'
    BY <2>1, <2>3, <2>5, EndingIsSession DEF KitsInv, OneCallEnds
  <2> QED BY ZenonT(60), <1>1, <2>2, <2>3, <2>5, <2>6, <2>8, <2>9, <2>10, StepKeeps
<1> QED BY <1>2, <1>3 DEF createSessionHandle

(* endSession(): it begins to end the session, or there is none to end. *)
LEMMA EndSessionKeepsKits ==
    ASSUME KitsInv, NEW h \in Handles, endSession(h)
    PROVE  KitsInv'
<1>1. CASE ObjectOf(h) = Null
  <2> DEFINE H == Held(kitHandle', handle')
  <2>1. /\ kitHandle' = kitHandle /\ Release(kit, H) /\ session' = session
        /\ handle' = [handle EXCEPT ![h].state = "released"]
    BY <1>1 DEF endSession, ReleaseHandle
  <2>2. /\ handle' \in [Handles -> HandleRecord]
        /\ \A g \in Handles : handle'[g].state = "ending" =>
              handle[g].state = "ending" /\ handle'[g].session = handle[g].session
    BY <2>1, ReleasedHandle
  <2>3. \A k \in Kits : kitHandle'[k].state \in {"live", "closing"} => k \in H
    BY InUseIsHeld
  <2> HIDE DEF H
  <2> QED BY <2>1, <2>2, <2>3, CaptureKeepsKits
<1>2. CASE ObjectOf(h) # Null
  <2> DEFINE n == handle[h].session
  <2>1. n \in Sessions /\ n # Null /\ session[n].state = "open"
    BY <1>2 DEF ObjectOf, KitsInv, KitTypeOK, HandleRecord
  <2>2. /\ session' = [session EXCEPT ![n].state = "ending"]
        /\ handle' = [handle EXCEPT ![h].state = "ending"]
        /\ Keep(kit) /\ kitHandle' = kitHandle
    BY <1>2 DEF endSession, end, Keep
  <2>3. /\ handle' \in [Handles -> HandleRecord] /\ handle'[h].state = "ending"
        /\ handle'[h].session = n
        /\ \A g \in Handles : g # h => handle'[g] = handle[g]
    BY <2>2 DEF KitsInv, KitTypeOK, HandleRecord
  <2> HIDE DEF n
  <2>4. /\ session' \in [Sessions -> SessionRecord]
        /\ session'[n].state = "ending" /\ session'[n].kit = session[n].kit
        /\ \A s \in Sessions : s # n => session'[s] = session[s]
    BY <2>1, <2>2 DEF KitsInv, KitTypeOK, SessionRecord
  <2>5. ASSUME NEW s \in Sessions
        PROVE  /\ session'[s].kit \in Kits => SessionFits(session'[s], kit[session'[s].kit], s)
               /\ session'[s].kit \notin Kits => session'[s].state = "none"
    <3>1. CASE s = n
      BY <2>1, <2>4, <3>1, SessionFacts, OpenWhileRunning DEF SessionFits
    <3>2. CASE s # n
      BY <2>4, <3>2, SessionFacts
    <3> QED BY <3>1, <3>2
  <2>6. OneCallEnds'
    BY <2>1, <2>3, <2>4, EndingIsSession DEF KitsInv, OneCallEnds
  <2>7. /\ kit \in [Kits -> KitRecord] /\ kitHandle' \in [Kits -> KitHandleRecord]
        /\ \A k \in Kits : KitFits(kit[k], kitHandle'[k].state) /\ k \in Kits
    BY <2>2 DEF KitsInv, KitTypeOK, KitsFit
  <2> QED BY <2>2, <2>3, <2>4, <2>5, <2>6, <2>7, StepKeeps
<1> QED BY <1>1, <1>2

(* The end of the session is done, and its handle is released. *)
LEMMA EndReturnsKeepsKits ==
    ASSUME KitsInv, NEW h \in Handles, endReturns(h)
    PROVE  KitsInv'
<1> DEFINE n == handle[h].session
           K == onChildClosed(kit, n)
           H == Held(kitHandle', handle')
<1>1. /\ handle[h].state = "ending" /\ session' = Finished(n)
      /\ Release(K, H) /\ kitHandle' = kitHandle
      /\ handle' = [handle EXCEPT ![h].state = "released"]
  BY DEF endReturns, ReleaseHandle
<1>2. n \in Sessions /\ session[n].state = "ending"
  BY <1>1, EndingIsSession
<1>3. /\ handle' \in [Handles -> HandleRecord] /\ handle'[h].state = "released"
      /\ \A g \in Handles : g # h => handle'[g] = handle[g]
  BY <1>1, ReleasedHandle
<1>4. \A k \in Kits : kitHandle'[k].state \in {"live", "closing"} => k \in H
  BY InUseIsHeld
<1>5. \A g \in Handles : g # h /\ handle[g].state = "ending" => handle[g].session # n
  BY <1>1 DEF KitsInv, OneCallEnds
<1> HIDE DEF n, H
<1>6. /\ K \in [Kits -> KitRecord]
      /\ \A j \in Kits :
           /\ K[j].phase = kit[j].phase /\ K[j].mIsShutdown = kit[j].mIsShutdown
           /\ K[j].context = kit[j].context /\ K[j].initialized = kit[j].initialized
           /\ K[j].stage = kit[j].stage /\ K[j].thread = kit[j].thread
           /\ K[j].toClose = kit[j].toClose /\ kit[j].children \ {n} \subseteq K[j].children
  BY <1>2, ChildClosedFacts DEF KitsInv, KitTypeOK
<1> HIDE DEF K
<1>7. /\ session' \in [Sessions -> SessionRecord]
      /\ session'[n].state = "finished" /\ session'[n].kit = session[n].kit
      /\ session'[n].missed = session[n].missed
      /\ \A s \in Sessions : s # n => session'[s] = session[s]
  BY <1>1, <1>2 DEF KitsInv, KitTypeOK, SessionRecord, Finished
<1>8. ASSUME NEW s \in Sessions
      PROVE  /\ session'[s].kit \in Kits => SessionFits(session'[s], K[session'[s].kit], s)
             /\ session'[s].kit \notin Kits => session'[s].state = "none"
  <2>1. CASE s = n
    BY <1>2, <1>6, <1>7, <2>1, SessionFacts DEF SessionFits
  <2>2. CASE s # n
    BY <1>6, <1>7, <2>2, SessionFacts DEF SessionFits
  <2> QED BY <2>1, <2>2
<1>9. OneCallEnds'
  BY <1>2, <1>3, <1>5, <1>7, EndingIsSession DEF KitsInv, OneCallEnds
<1>10. \A j \in Kits : KitFits(K[j], kitHandle'[j].state) /\ K[j].phase = kit[j].phase
  BY <1>1, <1>6, KitFacts DEF KitFits
<1>11. kitHandle' \in [Kits -> KitHandleRecord]
  BY <1>1 DEF KitsInv, KitTypeOK
<1> QED BY <1>1, <1>3, <1>4, <1>6, <1>7, <1>8, <1>9, <1>10, <1>11, StepKeeps

(* The sending thread sends, and forgets a finished session. *)
LEMMA SendKeepsKits ==
    ASSUME KitsInv, NEW k \in Kits, NEW n \in Sessions, sendBeacon(k, n, held), UNCHANGED cVars
    PROVE  KitsInv'
<1> DEFINE K == IF session[n].state = "finished" THEN [kit EXCEPT ![k].context = @ \ {n}] ELSE kit
           H == Held(kitHandle, handle)
<1>1. /\ kitHandle' = kitHandle /\ handle' = handle /\ Release(K, H)
      /\ session' = [session EXCEPT ![n].data = FALSE]
  BY DEF sendBeacon, cVars, held
<1>2. \A j \in Kits : kitHandle'[j].state \in {"live", "closing"} => j \in H
  BY <1>1, InUseIsHeld
<1>3. /\ K \in [Kits -> KitRecord]
      /\ \A j \in Kits :
           /\ K[j].phase = kit[j].phase /\ K[j].mIsShutdown = kit[j].mIsShutdown
           /\ K[j].children = kit[j].children /\ K[j].initialized = kit[j].initialized
           /\ K[j].stage = kit[j].stage /\ K[j].thread = kit[j].thread
           /\ K[j].toClose = kit[j].toClose /\ kit[j].context \ {n} \subseteq K[j].context
      /\ session[n].state # "finished" => K = kit
  BY ZenonT(60) DEF KitsInv, KitTypeOK, KitRecord
<1> HIDE DEF K, H
<1>4. /\ session' \in [Sessions -> SessionRecord]
      /\ session'[n].state = session[n].state /\ session'[n].kit = session[n].kit
      /\ session'[n].missed = session[n].missed /\ session'[n].data = FALSE
      /\ \A s \in Sessions : s # n => session'[s] = session[s]
  BY <1>1 DEF KitsInv, KitTypeOK, SessionRecord
<1>5. ASSUME NEW s \in Sessions
      PROVE  /\ session'[s].kit \in Kits => SessionFits(session'[s], K[session'[s].kit], s)
             /\ session'[s].kit \notin Kits => session'[s].state = "none"
  <2>1. CASE s = n /\ session[n].state = "finished"
    BY <1>3, <1>4, <2>1, SessionFacts DEF SessionFits
  <2>2. CASE s = n /\ session[n].state # "finished"
    BY <1>3, <1>4, <2>2, SessionFacts DEF SessionFits
  <2>3. CASE s # n
    BY <1>3, <1>4, <2>3, SessionFacts DEF SessionFits
  <2> QED BY <2>1, <2>2, <2>3
<1>6. OneCallEnds'
  BY <1>1, <1>4, EndingIsSession DEF KitsInv, OneCallEnds
<1>7. \A j \in Kits : KitFits(K[j], kitHandle'[j].state) /\ K[j].phase = kit[j].phase
  BY <1>1, <1>3, KitFacts DEF KitFits
<1>8. kitHandle' \in [Kits -> KitHandleRecord] /\ handle' \in [Handles -> HandleRecord]
  BY <1>1 DEF KitsInv, KitTypeOK
<1> QED BY ZenonT(60), <1>1, <1>2, <1>3, <1>4, <1>5, <1>6, <1>7, <1>8, StepKeeps

(* The sending thread sends what is left, and ends. *)
LEMMA SenderEndsKeepsKits ==
    ASSUME KitsInv, NEW k \in Kits, senderEnds(k, held), UNCHANGED cVars
    PROVE  KitsInv'
<1> DEFINE F == Flushed(k)
           y == [kit[k].thread EXCEPT !["sender"] = "stopped"]
           x == [kit[k] EXCEPT !.thread = y, !.context = @ \ F]
           K == [kit EXCEPT ![k] = x]
           H == Held(kitHandle, handle)
<1>1. /\ kitHandle' = kitHandle /\ handle' = handle /\ Release(K, H)
      /\ kit[k].thread["sender"] \in {"stopping", "lost"}
      /\ session' = [s \in Sessions |->
                       IF s \in F THEN [session[s] EXCEPT !.data = FALSE]
                       ELSE IF s \in kit[k].context /\ session[s].state = "ending"
                            THEN [session[s] EXCEPT !.missed = TRUE] ELSE session[s]]
  <2>1. [kit EXCEPT ![k].thread["sender"] = "stopped", ![k].context = @ \ F] = K
    BY KitFacts DEF KitsInv, KitTypeOK, KitRecord
  <2>2. UNCHANGED <<kitHandle, handle>> /\ Release([kit EXCEPT ![k].thread["sender"] = "stopped", ![k].context = @ \ F], H)
    BY DEF senderEnds, cVars, held
  <2> QED BY <2>1, <2>2 DEF senderEnds
<1>2. \A j \in Kits : kitHandle'[j].state \in {"live", "closing"} => j \in H
  BY <1>1, InUseIsHeld
<1>3. /\ \A s \in F : session[s].state = "finished" /\ s \in kit[k].context
      /\ kit[k].initialized => \A s \in kit[k].context : session[s].state = "finished" => s \in F
      /\ F \subseteq Sessions
  BY KitFacts DEF Flushed, KitRecord
<1> HIDE DEF F
<1>4. /\ y \in [ThreadNames -> {"none", "running", "stopping"} \cup Ended]
      /\ y["sender"] = "stopped" /\ \A u \in ThreadNames : u # "sender" => y[u] = kit[k].thread[u]
  BY KitFacts DEF KitRecord, ThreadNames, Ended
<1> HIDE DEF y
<1>5. /\ x \in KitRecord /\ x.phase = kit[k].phase /\ x.mIsShutdown = kit[k].mIsShutdown
      /\ x.stage = kit[k].stage /\ x.children = kit[k].children /\ x.context = kit[k].context \ F
      /\ x.initialized = kit[k].initialized /\ x.thread = y /\ x.toClose = kit[k].toClose
  BY <1>4, KitFacts DEF KitRecord
<1> HIDE DEF x
<1>6. /\ K \in [Kits -> KitRecord] /\ K[k] = x
      /\ \A j \in Kits : j # k => K[j] = kit[j]
  BY <1>5 DEF KitsInv, KitTypeOK
<1> HIDE DEF K, H
<1>7. /\ session' \in [Sessions -> SessionRecord]
      /\ \A s \in Sessions :
           /\ session'[s].kit = session[s].kit /\ session'[s].state = session[s].state
           /\ s \in F => session'[s].data = FALSE /\ session'[s].missed = session[s].missed
           /\ s \notin F => /\ session'[s].data = session[s].data
                            /\ session[s].missed => session'[s].missed
                            /\ s \in kit[k].context /\ session[s].state = "ending" => session'[s].missed
  BY <1>1, <1>3 DEF KitsInv, KitTypeOK, SessionRecord
<1>8. ASSUME NEW j \in Kits PROVE KitFits(K[j], kitHandle'[j].state) /\ K[j].phase = kit[j].phase
  <2>1. CASE j # k
    BY <1>1, <1>6, <2>1, KitFacts DEF KitFits
  <2>2. CASE j = k
    BY SMTT(60), <1>1, <1>4, <1>5, <1>6, <2>2, KitFacts DEF KitFits, ThreadsInOrder, ThreadNames, Ended
  <2> QED BY <2>1, <2>2
<1>9. ASSUME NEW s \in Sessions
      PROVE  /\ session'[s].kit \in Kits => SessionFits(session'[s], K[session'[s].kit], s)
             /\ session'[s].kit \notin Kits => session'[s].state = "none"
  <2>1. CASE session[s].kit \notin Kits
    BY <1>7, <2>1, SessionFacts
  <2>2. CASE session[s].kit \in Kits /\ session[s].kit # k
    <3>1. CASE s \in F
      BY <1>3, <1>6, <1>7, <2>2, <3>1, SessionFacts DEF SessionFits
    <3>2. CASE s \notin F
      BY <1>6, <1>7, <2>2, <3>2, SessionFacts DEF SessionFits
    <3> QED BY <3>1, <3>2
  <2>3. CASE session[s].kit = k
    <3>1. session[s].state # "open"
      BY <1>1, <2>3, OpenWhileRunning
    <3>2. CASE s \in F
      BY <1>3, <1>5, <1>6, <1>7, <2>3, <3>1, <3>2, SessionFacts DEF SessionFits
    <3>3. CASE s \notin F /\ session[s].state = "ending"
      BY <1>3, <1>5, <1>6, <1>7, <2>3, <3>1, <3>3, SessionFacts DEF SessionFits
    <3>4. CASE s \notin F /\ session[s].state = "finished"
      BY <1>3, <1>4, <1>5, <1>6, <1>7, <2>3, <3>1, <3>4, SessionFacts DEF SessionFits
    <3> QED BY <2>3, <3>1, <3>2, <3>3, <3>4, SessionFacts DEF SessionRecord, SessionFits
  <2> QED BY <2>1, <2>2, <2>3
<1>10. OneCallEnds'
  BY <1>1, <1>7, EndingIsSession DEF KitsInv, OneCallEnds
<1>11. kitHandle' \in [Kits -> KitHandleRecord] /\ handle' \in [Handles -> HandleRecord]
  BY <1>1 DEF KitsInv, KitTypeOK
<1> QED BY <1>1, <1>2, <1>6, <1>7, <1>8, <1>9, <1>10, <1>11, StepKeeps

(* createDynatraceOpenKit(): one more instance, and curl with the first. *)
LEMMA CreationKeepsKits ==
    ASSUME KitsInv, BlocksInv, NEW c \in Configs, NEW k \in Kits, createDynatraceOpenKit(c, k)
    PROVE  KitsInv'
<1> DEFINE y == [t \in Threads |-> "running"]
           x == [NoInstance EXCEPT !.phase = "alive", !.thread = y]
<1>1. /\ kit[k].phase = "none" /\ kit' = [kit EXCEPT ![k] = x]
      /\ gInstanceCount' = gInstanceCount + 1 /\ curl' = (curl \/ gInstanceCount = 0)
      /\ session' = session /\ handle' = handle
  BY DEF createDynatraceOpenKit, build, globalInit
<1>2. y \in [ThreadNames -> {"none", "running", "stopping"} \cup Ended]
      /\ \A t \in ThreadNames : y[t] = "running"
  BY ThreadsAre
<1> HIDE DEF y
<1>3. /\ x \in KitRecord /\ x.phase = "alive" /\ x.stage = "none" /\ x.mIsShutdown = FALSE
      /\ x.thread = y
  BY <1>2 DEF NoInstance, KitRecord
<1> HIDE DEF x
<1>4. kit' \in [Kits -> KitRecord] /\ kit'[k] = x /\ \A j \in Kits : j # k => kit'[j] = kit[j]
  BY <1>1, <1>3 DEF KitsInv, KitTypeOK
<1>5. /\ kitHandle' \in [Kits -> KitHandleRecord] /\ kitHandle'[k].state = "live"
      /\ \A j \in Kits : j # k => kitHandle'[j] = kitHandle[j]
  <2>1. kitHandle' \in [Kits -> KitHandleRecord]
    BY CreationKeepsBlocks DEF BlocksInv, BlockTypeOK
  <2>2. PICK cfg : kitHandle' = [kitHandle EXCEPT ![k] = createOpenKitHandle(cfg)]
    BY DEF createDynatraceOpenKit
  <2>3. createOpenKitHandle(cfg).state = "live"
    BY DEF createOpenKitHandle
  <2> QED BY <2>1, <2>2, <2>3 DEF KitsInv, KitTypeOK
<1>6. CountFits' /\ gInstanceCount' \in Nat /\ curl' \in BOOLEAN
  <2>1. AliveKits' = AliveKits \cup {k} /\ k \notin AliveKits
    BY <1>1, <1>3, <1>4 DEF AliveKits
  <2>2. IsFiniteSet(AliveKits)
    BY BlockKinds, FS_Subset DEF AliveKits
  <2>3. Cardinality(AliveKits)' = Cardinality(AliveKits) + 1
    BY <2>1, <2>2, FS_AddElement
  <2>4. gInstanceCount \in Nat /\ gInstanceCount = Cardinality(AliveKits) /\ (curl <=> gInstanceCount # 0)
    BY DEF KitsInv, KitTypeOK, CountFits
  <2>5. gInstanceCount' = Cardinality(AliveKits)' /\ gInstanceCount' \in Nat /\ gInstanceCount' # 0
    BY <1>1, <2>3, <2>4
  <2>6. curl' = TRUE
    BY <1>1, <2>4
  <2> QED BY <2>5, <2>6 DEF CountFits
<1>7. KitTypeOK'
  BY <1>1, <1>4, <1>5, <1>6 DEF KitsInv, KitTypeOK
<1>8. ASSUME NEW j \in Kits PROVE KitFits(kit[j], kitHandle[j].state)'
  <2>1. CASE j = k
    BY <1>2, <1>3, <1>4, <1>5, <2>1 DEF KitFits, ThreadsInOrder, ThreadNames
  <2>2. CASE j # k
    BY <1>4, <1>5, <2>2, KitFacts DEF KitFits
  <2> QED BY <2>1, <2>2
<1>9. SessionsFit'
  <2>1. \A s \in Sessions : session[s].kit # k
    BY <1>1, SessionFacts DEF SessionFits
  <2> QED BY <1>1, <1>4, <2>1, SessionFacts DEF SessionsFit, SessionFits
<1>10. OneCallEnds'
  BY <1>1 DEF KitsInv, OneCallEnds
<1> QED BY <1>6, <1>7, <1>8, <1>9, <1>10 DEF KitsInv, KitsFit

(* No instance and no session at the beginning. *)
LEMMA InitKitsInv == Init => KitsInv
<1> SUFFICES ASSUME Init PROVE KitsInv
  OBVIOUS
<1>1. /\ kit = [k \in Kits |-> NoInstance] /\ session = [s \in Sessions |-> NoSession]
      /\ gInstanceCount = 0 /\ curl = FALSE
      /\ kitHandle = [k \in Kits |-> NoKitHandle] /\ handle = [h \in Handles |-> NoHandle]
  BY DEF Init, KitInit
<1>2. /\ NoInstance \in KitRecord /\ NoInstance.phase = "none" /\ NoInstance.stage = "none"
      /\ NoInstance.mIsShutdown = FALSE
      /\ \A t \in ThreadNames : NoInstance.thread[t] = "none"
  BY ThreadsAre DEF NoInstance, KitRecord
<1>3. NoSession \in SessionRecord /\ NoSession.kit = NoKit /\ NoSession.state = "none"
  BY DEF NoSession, SessionRecord
<1>4. /\ NoKitHandle \in KitHandleRecord /\ NoKitHandle.state = "none"
      /\ NoHandle \in HandleRecord /\ NoHandle.state = "none"
  BY DEF NoKitHandle, KitHandleRecord, NoHandle, HandleRecord
<1>5. KitTypeOK
  BY <1>1, <1>2, <1>3, <1>4 DEF KitTypeOK
<1>6. KitsFit
  BY <1>1, <1>2, <1>4 DEF KitsFit, KitFits
<1>7. SessionsFit
  BY <1>1, <1>3, BlockKinds DEF SessionsFit
<1>8. OneCallEnds
  BY <1>1, <1>4 DEF OneCallEnds
<1>9. CountFits
  <2>1. AliveKits = {}
    BY <1>1, <1>2 DEF AliveKits
  <2> QED BY <1>1, <2>1, FS_EmptySet DEF CountFits
<1> QED BY <1>5, <1>6, <1>7, <1>8, <1>9 DEF KitsInv

(* A step that is not about instances. *)
LEMMA OthersKeepKits ==
    ASSUME KitsInv, UNCHANGED <<kitVars, kitHandle, handle>>
    PROVE  KitsInv'
<1>1. /\ kit' = kit /\ session' = session /\ gInstanceCount' = gInstanceCount /\ curl' = curl
      /\ kitHandle' = kitHandle /\ handle' = handle
  BY DEF kitVars
<1>2. KitTypeOK'
  BY <1>1 DEF KitsInv, KitTypeOK
<1>3. KitsFit' /\ SessionsFit'
  BY <1>1 DEF KitsInv, KitsFit, SessionsFit
<1>4. OneCallEnds'
  BY <1>1 DEF KitsInv, OneCallEnds
<1>5. CountFits'
  BY <1>1 DEF KitsInv, CountFits, AliveKits
<1> QED BY <1>2, <1>3, <1>4, <1>5 DEF KitsInv

(* Every step keeps the inductive invariant about instances. *)
LEMMA NextKitsInv == KitsInv /\ BlocksInv /\ [Next]_vars => KitsInv'
<1> SUFFICES ASSUME KitsInv, BlocksInv, [Next]_vars PROVE KitsInv'
  OBVIOUS
<1>1. CASE UNCHANGED vars
  <2>1. UNCHANGED <<kitVars, kitHandle, handle>>
    BY <1>1 DEF vars, cVars
  <2> QED BY <2>1, OthersKeepKits
<1>2. CASE ConfigurationCall
  <2>1. ASSUME NEW c \in Configs, NEW k \in Kits, createDynatraceOpenKit(c, k) PROVE KitsInv'
    BY <2>1, CreationKeepsKits
  <2>2. \/ UNCHANGED <<kitVars, kitHandle, handle>>
        \/ \E c \in Configs, k \in Kits : createDynatraceOpenKit(c, k)
    BY <1>2 DEF ConfigurationCall, createOpenKitConfiguration, createLogger, createCustomTrustManager,
                destroyByApplication, destroyOpenKitConfiguration, useLoggerForConfiguration,
                useTrustModeForConfiguration
  <2> QED BY <2>1, <2>2, OthersKeepKits
<1>3. ASSUME NEW k \in Kits, shutdownOpenKit(k) PROVE KitsInv'
  BY <1>3, ShutdownKeepsKits
<1>4. ASSUME NEW k \in Kits, createSessionHandle(k) PROVE KitsInv'
  BY <1>4, CreateSessionKeepsKits
<1>5. ASSUME NEW k \in Kits, ShutdownStep(k) PROVE KitsInv'
  <2>1. ASSUME NEW s \in Sessions, closeChild(k, s), UNCHANGED cVars PROVE KitsInv'
    BY <2>1, CloseChildKeepsKits
  <2>2. ASSUME NEW t \in Threads, requestStop(k, t), UNCHANGED cVars PROVE KitsInv'
    BY <2>2, StopKeepsKits
  <2>3. ASSUME join(k), UNCHANGED cVars PROVE KitsInv'
    <3>1. "sender" \in Threads
      BY ThreadsAre DEF ThreadNames
    <3> QED BY <2>3, <3>1, StopKeepsKits
  <2>4. ASSUME releaseOpenKit(k) PROVE KitsInv'
    BY <2>4, ReleaseKeepsKits
  <2> QED BY <1>5, <2>1, <2>2, <2>3, <2>4 DEF ShutdownStep
<1>6. ASSUME NEW k \in Kits, ThreadStep(k) PROVE KitsInv'
  <2>1. ASSUME NEW t \in Threads, threadEnds(k, t), UNCHANGED cVars PROVE KitsInv'
    BY <2>1, StopKeepsKits
  <2>2. ASSUME initCompleted(k), UNCHANGED cVars PROVE KitsInv'
    <3>1. "sender" \in Threads
      BY ThreadsAre DEF ThreadNames
    <3> QED BY <2>2, <3>1, StopKeepsKits
  <2>3. ASSUME NEW s \in Sessions, sendBeacon(k, s, held), UNCHANGED cVars PROVE KitsInv'
    BY <2>3, SendKeepsKits
  <2>4. ASSUME senderEnds(k, held), UNCHANGED cVars PROVE KitsInv'
    BY <2>4, SenderEndsKeepsKits
  <2> QED BY <1>6, <2>1, <2>2, <2>3, <2>4 DEF ThreadStep
<1>7. ASSUME NEW h \in Handles, ObjectCall(h) PROVE KitsInv'
  BY <1>7, HandleCallsKeepKits, EndSessionKeepsKits, EndReturnsKeepsKits DEF ObjectCall
<1> QED BY <1>1, <1>2, <1>3, <1>4, <1>5, <1>6, <1>7 DEF Next

(* The inductive invariant holds in every state. *)
LEMMA KitsInvHolds == Spec => []KitsInv
<1>1. Init => KitsInv /\ BlocksInv
  BY InitKitsInv, InitBlocksInv
<1>2. (KitsInv /\ BlocksInv) /\ [Next]_vars => (KitsInv /\ BlocksInv)'
  BY NextKitsInv, NextBlocksInv
<1> QED BY <1>1, <1>2, PTL DEF Spec

(***************************************************************************)
(* A thread that runs has its instance and curl, for any number of         *)
(* instances, however their creation, shutdown and the release of the last *)
(* reference interleave.  The count of instances is the number of those    *)
(* alive, which is what decides about curl.                                *)
(***************************************************************************)
THEOREM RunningThreadsAreSafe == Spec => []ThreadsHaveTheirInstance
<1>1. KitsInv => ThreadsHaveTheirInstance
  <2> SUFFICES ASSUME KitsInv, NEW k \in Kits, NEW t \in Threads,
                      kit[k].thread[t] \in {"running", "stopping"}
               PROVE  kit[k].phase = "alive" /\ curl
    BY DEF ThreadsHaveTheirInstance, Alive
  <2>1. t \in ThreadNames
    BY ThreadsAre
  <2>2. kit[k].phase # "none" /\ kit[k].stage # "done"
    BY <2>1, KitFacts DEF KitFits, ThreadsInOrder, ThreadNames, Ended
  <2>3. kit[k].phase = "alive"
    BY <2>2, KitFacts DEF KitFits, KitRecord, KitHandleRecord
  <2>4. k \in AliveKits /\ IsFiniteSet(AliveKits)
    BY <2>3, BlockKinds, FS_Subset DEF AliveKits
  <2>5. Cardinality(AliveKits) # 0
    BY <2>4, FS_EmptySet
  <2> QED BY <2>3, <2>5 DEF KitsInv, CountFits
<1> QED BY <1>1, KitsInvHolds, PTL

(***************************************************************************)
(* shutdown() ends every session that createSession() ever gave out, and   *)
(* what was captured is sent if the sending thread was initialised and     *)
(* stopped in time, whatever other threads create and end meanwhile.       *)
(***************************************************************************)
THEOREM ShutdownIsThorough == Spec => []ShutdownEndsAndSends
<1>1. KitsInv => ShutdownEndsAndSends
  <2> SUFFICES ASSUME KitsInv, NEW k \in Kits, kit[k].stage = "done",
                      NEW s \in Sessions, session[s].kit = k
               PROVE  /\ session[s].state # "open"
                      /\ (kit[k].initialized /\ kit[k].thread["sender"] = "stopped" /\ session[s].data)
                            => session[s].missed
    BY DEF ShutdownEndsAndSends, SessionsOf
  <2> QED BY SessionFacts DEF SessionFits
<1> QED BY <1>1, KitsInvHolds, PTL
=============================================================================
