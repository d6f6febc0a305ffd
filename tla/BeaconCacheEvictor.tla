--------------------------- MODULE BeaconCacheEvictor ---------------------------
(***************************************************************************)
(* The beacon cache with its eviction thread: BeaconCacheEvictor.cxx and   *)
(* the two strategies it runs after each notification, first               *)
(* TimeEvictionStrategy, then SpaceEvictionStrategy.  The cache and its    *)
(* other clients are those of BeaconCache; their notification of the       *)
(* observers is where they meet this thread.                               *)
(***************************************************************************)
EXTENDS BeaconCache

CONSTANTS MaxRecordAge,     \* configured maximum age, disabled when <= 0
          LowerBound,       \* configured lower memory boundary
          UpperBound        \* configured upper memory boundary

ASSUME EvictorAssumption == /\ MaxRecordAge \in Int
                            /\ LowerBound \in Int
                            /\ UpperBound \in Int

VARIABLES
    observers,          \* TRUE once the evictor has registered itself
    mRecordAdded,       \* raised by update(), cleared by the eviction thread
    mStop,              \* raised by stop()
    mLastRunTimestamp,  \* when the time strategy ran last, -1 for never
    untold,             \* history: data was added before the evictor registered
    ev                  \* the eviction thread: where it is and what it holds

evictorVars == <<observers, mRecordAdded, mStop, mLastRunTimestamp, untold, ev>>

vars == <<cacheVars, evictorVars>>

(***************************************************************************)
(* ev.keys: keys of the snapshot not visited yet; ev.entry: the entry      *)
(* looked up for the next eviction; ev.now: when the time strategy began.  *)
(***************************************************************************)
EvictorInit ==
    /\ observers = FALSE
    /\ mRecordAdded = FALSE
    /\ mStop = FALSE
    /\ mLastRunTimestamp = -1
    /\ untold = FALSE
    /\ ev = [pc |-> "start", keys |-> {}, entry |-> 0, now |-> 0]

(* update() of the registered observer; without one nobody is told. *)
onDataAdded ==
    /\ mRecordAdded' = (mRecordAdded \/ observers)
    /\ untold' = (untold \/ ~observers)
    /\ UNCHANGED <<observers, mStop, mLastRunTimestamp, ev>>

(* The other clients of the cache, notifying where the code does. *)
ClientNext ==
    \/ NotifyStep /\ onDataAdded
    \/ ClientStep /\ UNCHANGED evictorVars

(* stop(): called once by OpenKit's shutdown. *)
stop ==
    /\ ~mStop
    /\ ev.pc # "stopped"
    /\ mStop' = TRUE
    /\ UNCHANGED <<cacheVars, observers, mRecordAdded, mLastRunTimestamp, untold, ev>>

(* The thread starts and registers itself. *)
Register ==
    /\ ev.pc = "start"
    /\ observers' = TRUE
    /\ ev' = [ev EXCEPT !.pc = "wait"]
    /\ UNCHANGED <<cacheVars, mRecordAdded, mStop, mLastRunTimestamp, untold>>

(* Woken up: leave the loop, or clear the flag and run the strategies. *)
WakeUp ==
    /\ ev.pc = "wait"
    /\ mRecordAdded \/ mStop
    /\ IF mStop
       THEN ev' = [ev EXCEPT !.pc = "stopped"] /\ UNCHANGED mRecordAdded
       ELSE ev' = [ev EXCEPT !.pc = "time"] /\ mRecordAdded' = FALSE
    /\ UNCHANGED <<cacheVars, observers, mStop, mLastRunTimestamp, untold>>

SnapshotOfKeys == {k \in Keys : mBeacons[k] # 0}

(* TimeEvictionStrategy::execute, and doExecute up to its loop. *)
TimeExecute ==
    LET last == IF mLastRunTimestamp < 0 THEN clock ELSE mLastRunTimestamp
        run == MaxRecordAge > 0 /\ clock - last >= MaxRecordAge
    IN /\ ev.pc = "time"
       /\ mLastRunTimestamp' =
            IF MaxRecordAge <= 0 THEN mLastRunTimestamp
            ELSE IF run /\ SnapshotOfKeys = {} THEN clock ELSE last
       /\ ev' = IF run /\ SnapshotOfKeys # {}
                THEN [pc |-> "timeLoop", keys |-> SnapshotOfKeys, entry |-> 0,
                      now |-> clock]
                ELSE [ev EXCEPT !.pc = "space"]
       /\ UNCHANGED <<cacheVars, observers, mRecordAdded, mStop, untold>>

(* evictRecordsByAge of the next key, up to the lookup of its entry. *)
TimeLookup(k) ==
    /\ ev.pc = "timeLoop"
    /\ ~mStop
    /\ k \in ev.keys
    /\ ev' = [ev EXCEPT !.keys = @ \ {k}, !.entry = mBeacons[k],
                        !.pc = IF mBeacons[k] = 0 THEN "timeLoop" ELSE "timeEvict"]
    /\ UNCHANGED <<cacheVars, observers, mRecordAdded, mStop, mLastRunTimestamp, untold>>

TimeEvict ==
    /\ ev.pc = "timeEvict"
    /\ evictRecordsByAge(ev.entry, ev.now - MaxRecordAge)
    /\ ev' = [ev EXCEPT !.pc = "timeLoop", !.entry = 0]
    /\ UNCHANGED <<observers, mRecordAdded, mStop, mLastRunTimestamp, untold>>

TimeDone ==
    /\ ev.pc = "timeLoop"
    /\ mStop \/ ev.keys = {}
    /\ mLastRunTimestamp' = ev.now
    /\ ev' = [ev EXCEPT !.pc = "space", !.keys = {}, !.now = 0]
    /\ UNCHANGED <<cacheVars, observers, mRecordAdded, mStop, untold>>

SpaceDisabled == LowerBound <= 0 \/ UpperBound <= 0 \/ UpperBound < LowerBound

(* SpaceEvictionStrategy::execute. *)
SpaceExecute ==
    /\ ev.pc = "space"
    /\ ev' = [ev EXCEPT !.pc = IF ~SpaceDisabled /\ mCacheSizeInBytes > UpperBound
                               THEN "spaceOuter" ELSE "wait"]
    /\ UNCHANGED <<cacheVars, observers, mRecordAdded, mStop, mLastRunTimestamp, untold>>

(* Mutant: the condition of the outer loop without the stop request. *)
MustEvict_IgnoresStop == mCacheSizeInBytes > LowerBound

(* The condition both loops of doExecute share. *)
MustEvict == ~mStop /\ mCacheSizeInBytes > LowerBound

(* The outer loop: a snapshot of the keys, or back to waiting. *)
SpaceOuter ==
    /\ ev.pc = "spaceOuter"
    /\ ev' = IF MustEvict
             THEN [ev EXCEPT !.pc = "spaceInner", !.keys = SnapshotOfKeys]
             ELSE [ev EXCEPT !.pc = "wait"]
    /\ UNCHANGED <<cacheVars, observers, mRecordAdded, mStop, mLastRunTimestamp, untold>>

(* evictRecordsByNumber(k, 1), up to the lookup of the entry. *)
SpaceLookup(k) ==
    /\ ev.pc = "spaceInner"
    /\ MustEvict
    /\ k \in ev.keys
    /\ ev' = [ev EXCEPT !.keys = @ \ {k}, !.entry = mBeacons[k],
                        !.pc = IF mBeacons[k] = 0 THEN "spaceInner" ELSE "spaceEvict"]
    /\ UNCHANGED <<cacheVars, observers, mRecordAdded, mStop, mLastRunTimestamp, untold>>

(* Mutant: the whole entry is emptied, records being sent included. *)
SpaceEvict_Everything ==
    /\ ev.pc = "spaceEvict"
    /\ Evict(ev.entry, EmptyEntry)
    /\ ev' = [ev EXCEPT !.pc = "spaceInner", !.entry = 0]
    /\ UNCHANGED <<observers, mRecordAdded, mStop, mLastRunTimestamp, untold>>

SpaceEvict ==
    /\ ev.pc = "spaceEvict"
    /\ evictRecordsByNumber(ev.entry)
    /\ ev' = [ev EXCEPT !.pc = "spaceInner", !.entry = 0]
    /\ UNCHANGED <<observers, mRecordAdded, mStop, mLastRunTimestamp, untold>>

SpaceInnerDone ==
    /\ ev.pc = "spaceInner"
    /\ ~MustEvict \/ ev.keys = {}
    /\ ev' = [ev EXCEPT !.pc = "spaceOuter", !.keys = {}]
    /\ UNCHANGED <<cacheVars, observers, mRecordAdded, mStop, mLastRunTimestamp, untold>>

EvictorThread ==
    \/ Register
    \/ WakeUp
    \/ TimeExecute
    \/ \E k \in Keys : TimeLookup(k)
    \/ TimeEvict
    \/ TimeDone
    \/ SpaceExecute
    \/ SpaceOuter
    \/ \E k \in Keys : SpaceLookup(k)
    \/ SpaceEvict
    \/ SpaceInnerDone

EvictorNext == ClientNext \/ stop \/ EvictorThread

EvictorSpec == Init /\ EvictorInit /\ [][EvictorNext]_vars

(* The eviction thread is scheduled whenever it is not waiting. *)
FairEvictorSpec == EvictorSpec /\ WF_vars(EvictorThread)

------------------------------------------------------------------------------
(***************************************************************************)
(* No notification is lost: when every caller is done and the evictor      *)
(* sleeps with nothing to wake it, the counter is within the upper bound,  *)
(* however the adds interleaved with its last run.  (Data added before the *)
(* thread registered itself is the exception.)                             *)
(***************************************************************************)
SleepsOnlyWithinBound ==
    /\ Quiescent
    /\ ev.pc = "wait"
    /\ ~mRecordAdded
    /\ ~mStop
    /\ ~untold
    /\ ~SpaceDisabled
    => mCacheSizeInBytes <= UpperBound

(***************************************************************************)
(* A stop request ends the thread, whatever it is doing: in the loop of    *)
(* the space strategy nothing else may ever end it.                        *)
(***************************************************************************)
StopRequestEndsThread == mStop ~> ev.pc = "stopped"

(***************************************************************************)
(* The eviction thread is one of the clients BeaconCache allows for: the   *)
(* cache with its evictor implements BeaconCache!Spec.                     *)
(***************************************************************************)
ImplementsCache == Spec
==============================================================================
