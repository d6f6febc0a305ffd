----------------------------- MODULE EvictorProofs -----------------------------
(***************************************************************************)
(* What is proved about the beacon cache with its eviction thread, for     *)
(* every configuration of the two strategies: the thread is one of the     *)
(* clients BeaconCache allows for, so all that is proved of the cache      *)
(* holds with it, and it does not sleep while there is something to evict. *)
(***************************************************************************)
EXTENDS BeaconCacheEvictor, BeaconCacheProofs

(* Erasing nothing leaves a list as it is. *)
LEMMA EraseNothing ==
    ASSUME NEW S, NEW s \in Seq(S), NEW R, \A i \in 1..Len(s) : s[i] \notin R
    PROVE  Erase(s, R) = s
<1> DEFINE m == Len(s)
<1>1. m \in Nat /\ s = [k \in 1..m |-> s[k]]
  OBVIOUS
<1>2. KeptPositions(s, R) = 1..m
  BY DEF KeptPositions
<1>3. ASSUME NEW i \in 1..m
      PROVE  Cardinality({j \in 1..m : j <= i}) = i
  <2>1. {j \in 1..m : j <= i} = 1..i
    BY <1>1
  <2>2. Cardinality(1..i) = i
    BY FS_Interval
  <2> QED BY <2>1, <2>2
<1>4. Cardinality(1..m) = m
  BY <1>1, FS_Interval
<1>5. ASSUME NEW k \in 1..m
      PROVE  (CHOOSE i \in 1..m : Cardinality({j \in 1..m : j <= i}) = k) = k
  BY <1>3
<1> HIDE DEF m
<1>6. Erase(s, R) = [k \in 1..m |->
                       s[CHOOSE i \in 1..m : Cardinality({j \in 1..m : j <= i}) = k]]
  BY <1>2, <1>4 DEF Erase
<1> QED BY <1>1, <1>5, <1>6

(* No record is older than time 0: evicting by that age does nothing. *)
LEMMA NothingTooOld ==
    ASSUME CacheInv, NEW e \in EntryIds
    PROVE  removeRecordsOlderThan(records, entries[e], 0) = entries[e]
<1> DEFINE n == Len(records)
           x == entries[e]
<1>1. x \in EntryType(n) /\ records \in Seq(Record)
  BY DEF CacheInv, TypeOK, EntryIds
<1>2. TooOld(records, 0) = {}
  <2> SUFFICES ASSUME NEW r \in DOMAIN records PROVE ~(records[r].timestamp < 0)
    BY DEF TooOld
  <2>1. records[r] \in Record
    BY <1>1
  <2>2. records[r].timestamp \in Nat
    BY <2>1 DEF Record
  <2> QED BY <2>2
<1>3. Erase(x.mEventData, {}) = x.mEventData /\ Erase(x.mActionData, {}) = x.mActionData
  <2>1. x.mEventData \in Seq(1..n) /\ x.mActionData \in Seq(1..n)
    BY <1>1 DEF EntryType
  <2> QED BY <2>1, EraseNothing
<1>4. removeRecordsOlderThan(records, x, 0) =
        [x EXCEPT !.mEventData = x.mEventData, !.mActionData = x.mActionData]
  BY <1>2, <1>3 DEF removeRecordsOlderThan
<1> HIDE DEF x
<1> QED BY <1>1, <1>4 DEF EntryType, x

(* Entries stay in the heap, and time does not go back. *)
LEMMA HeapGrows ==
    ASSUME CacheInv, [Next]_cacheVars
    PROVE  EntryIds \subseteq EntryIds' /\ clock <= clock'
<1> USE DEF EntryIds
<1>0. /\ entries \in Seq(EntryType(Len(records)))
      /\ clock \in Nat
      /\ Len(entries) \in Nat
  BY DEF CacheInv, TypeOK
<1>1. ASSUME UNCHANGED <<entries, clock>> PROVE EntryIds \subseteq EntryIds' /\ clock <= clock'
  BY <1>0, <1>1
<1>2. ASSUME NEW e, NEW new, entries' = [entries EXCEPT ![e] = new], clock' = clock
      PROVE  EntryIds \subseteq EntryIds' /\ clock <= clock'
  <2>1. Len(entries') = Len(entries)
    BY <1>0, <1>2
  <2> QED BY <1>0, <1>2, <2>1
<1>3. CASE Tick
  BY <1>0, <1>3 DEF Tick
<1>4. CASE AddStep
  <2>1. PICK t \in AppThreads :
          \/ \E k \in Keys, list \in {"event", "action"}, timestamp \in 0..clock, size \in 1..MaxSize :
                AddLookup(t, k, list, timestamp, size)
          \/ AddInsert(t) \/ AddAppend(t) \/ AddCount(t)
    BY <1>4 DEF AddStep
  <2>2. CASE AddCount(t) \/ \E k \in Keys, list \in {"event", "action"}, timestamp \in 0..clock, size \in 1..MaxSize :
                AddLookup(t, k, list, timestamp, size)
    BY <1>1, <2>2 DEF AddCount, AddLookup
  <2>3. CASE AddInsert(t)
    <3>1. clock' = clock /\ (entries' = entries \/ entries' = Append(entries, EmptyEntry))
      BY <2>3 DEF AddInsert
    <3>2. Len(entries') \in Nat /\ Len(entries) <= Len(entries')
      BY <1>0, <3>1
    <3> QED BY <1>0, <3>1, <3>2
  <2>4. CASE AddAppend(t)
    BY <1>2, <2>4 DEF AddAppend
  <2> QED BY <2>1, <2>2, <2>3, <2>4
<1>5. CASE SendStep
  <2>1. CASE SendCopyCount \/ SendDone \/ SendResetCount
    BY <1>1, <2>1 DEF SendCopyCount, SendDone, SendResetCount, sndUnchanged
  <2>2. CASE SendCopy \/ SendChunk \/ SendOk \/ SendFail
    BY <1>2, <2>2 DEF SendCopy, SendChunk, SendOk, SendFail, sndUnchanged
  <2> QED BY <1>5, <2>1, <2>2 DEF SendStep
<1>6. CASE NotifyStep \/ UNCHANGED cacheVars
           \/ \E k \in Keys : SendBegin(k) \/ deleteCacheEntry(k)
  BY <1>1, <1>6 DEF NotifyStep, SendResetNotify, AddNotify, SendBegin, deleteCacheEntry,
                    sndUnchanged, cacheVars
<1>7. CASE EvictionStep
  BY <1>2, <1>7 DEF EvictionStep, evictRecordsByNumber, evictRecordsByAge, Evict
<1> QED BY <1>3, <1>4, <1>5, <1>6, <1>7 DEF Next, ClientStep

------------------------------------------------------------------------------
(***************************************************************************)
(* What the eviction thread holds: an entry it looked up exists, deleted   *)
(* or not, and the time strategy runs only when at least MaxRecordAge has  *)
(* passed since its last run, so the age it evicts by is a time that was.  *)
(***************************************************************************)
EvType == [pc : {"start", "wait", "time", "timeLoop", "timeEvict", "space",
                 "spaceOuter", "spaceInner", "spaceEvict", "stopped"},
           keys : SUBSET Keys, entry : Nat, now : Nat]

EvictorTypeOK == /\ ev \in EvType
                 /\ mLastRunTimestamp \in Int
                 /\ mRecordAdded \in BOOLEAN
                 /\ mStop \in BOOLEAN
                 /\ observers \in BOOLEAN
                 /\ untold \in BOOLEAN

EvRefs == /\ ev.pc \in {"timeEvict", "spaceEvict"} => ev.entry \in EntryIds
          /\ ev.pc \in {"timeLoop", "timeEvict"} =>
               ev.now <= clock /\ MaxRecordAge > 0 /\ ev.now - MaxRecordAge >= 0

EvictorInv == CacheInv /\ EvictorTypeOK /\ EvRefs

(* Every step of the system is one of the cache's, or none. *)
LEMMA StepsOfCache ==
    ASSUME EvictorInv, [EvictorNext]_vars
    PROVE  [Next]_cacheVars
<1>1. CASE ClientNext
  BY <1>1 DEF ClientNext, Next
<1>2. CASE TimeEvict
  <2> DEFINE m == ev.now - MaxRecordAge
  <2>1. /\ ev.entry \in EntryIds
        /\ m \in Nat /\ m <= clock /\ clock \in Nat
    BY <1>2, EvictorAssumption
       DEF TimeEvict, EvictorInv, EvRefs, EvictorTypeOK, EvType, CacheInv, TypeOK
  <2>2. evictRecordsByAge(ev.entry, m)
    BY <1>2 DEF TimeEvict
  <2> HIDE DEF m
  <2>3. CASE m = 0
    <3>1. Evict(ev.entry, entries[ev.entry])
      BY <2>1, <2>2, <2>3, NothingTooOld DEF evictRecordsByAge, EvictorInv
    <3>2. entries' = entries
      <4>1. entries' = [entries EXCEPT ![ev.entry] = entries[ev.entry]]
        BY <3>1 DEF Evict
      <4>2. entries \in Seq(EntryType(Len(records)))
        BY DEF EvictorInv, CacheInv, TypeOK
      <4> QED BY <4>1, <4>2
    <3>3. evicted' = evicted
      BY <3>1 DEF Evict
    <3> QED BY <3>1, <3>2, <3>3 DEF Evict, cacheVars
  <2>4. CASE m # 0
    <3>1. m \in 1..clock
      BY <2>1, <2>4
    <3> QED BY <2>1, <2>2, <3>1 DEF Next, EvictionStep
  <2> QED BY <2>3, <2>4
<1>3. CASE SpaceEvict
  BY <1>3 DEF SpaceEvict, EvictorInv, EvRefs, Next, EvictionStep
<1>4. CASE stop \/ Register \/ WakeUp \/ TimeExecute \/ TimeDone \/ SpaceExecute
           \/ SpaceOuter \/ SpaceInnerDone \/ \E k \in Keys : TimeLookup(k) \/ SpaceLookup(k)
  BY <1>4 DEF stop, Register, WakeUp, TimeExecute, TimeDone, SpaceExecute, SpaceOuter,
              SpaceInnerDone, TimeLookup, SpaceLookup
<1>5. CASE UNCHANGED vars
  BY <1>5 DEF vars
<1> QED BY <1>1, <1>2, <1>3, <1>4, <1>5 DEF EvictorNext, EvictorThread

(* Every step preserves the invariant. *)
LEMMA NextEvictorInv == EvictorInv /\ [EvictorNext]_vars => EvictorInv'
<1> SUFFICES ASSUME EvictorInv, [EvictorNext]_vars PROVE EvictorInv'
  OBVIOUS
<1>1. [Next]_cacheVars
  BY StepsOfCache
<1>2. CacheInv /\ CacheInv'
  BY <1>1, NextCacheInv DEF EvictorInv
<1>3. EntryIds \subseteq EntryIds' /\ clock <= clock'
  BY <1>1, <1>2, HeapGrows
<1>4. /\ clock \in Nat /\ clock' \in Nat
      /\ mBeacons \in [Keys -> 0..Len(entries)]
      /\ Len(entries) \in Nat
  BY <1>2 DEF CacheInv, TypeOK
<1>5. ev \in EvType
  BY DEF EvictorInv, EvictorTypeOK
<1>6. ASSUME UNCHANGED ev PROVE EvRefs'
  BY <1>3, <1>4, <1>5, <1>6, EvictorAssumption DEF EvictorInv, EvRefs, EvType
<1>7. ASSUME ev'.pc \notin {"timeEvict", "spaceEvict", "timeLoop"} PROVE EvRefs'
  BY <1>7 DEF EvRefs
<1>8. CASE ClientNext
  BY <1>2, <1>6, <1>8 DEF ClientNext, onDataAdded, evictorVars, EvictorInv, EvictorTypeOK
<1>9. CASE stop \/ UNCHANGED vars
  BY <1>2, <1>6, <1>9 DEF stop, vars, evictorVars, EvictorInv, EvictorTypeOK
<1>10. CASE Register \/ WakeUp \/ SpaceExecute \/ SpaceInnerDone
  <2>1. ev'.pc \in {"wait", "stopped", "time", "spaceOuter"} /\ ev' \in EvType
    BY <1>5, <1>10 DEF Register, WakeUp, SpaceExecute, SpaceInnerDone, EvType
  <2>2. EvictorTypeOK'
    BY <1>10, <2>1 DEF Register, WakeUp, SpaceExecute, SpaceInnerDone, EvictorInv, EvictorTypeOK
  <2> QED BY <1>2, <1>7, <2>1, <2>2 DEF EvictorInv
<1>11. CASE SpaceOuter
  <2>1. ev'.pc \in {"wait", "spaceInner"} /\ ev' \in EvType
    BY <1>5, <1>11 DEF SpaceOuter, SnapshotOfKeys, EvType
  <2>2. EvictorTypeOK'
    BY <1>11, <2>1 DEF SpaceOuter, EvictorInv, EvictorTypeOK
  <2> QED BY <1>2, <1>7, <2>1, <2>2 DEF EvictorInv
<1>12. CASE TimeExecute
  <2> DEFINE last == IF mLastRunTimestamp < 0 THEN clock ELSE mLastRunTimestamp
             run == MaxRecordAge > 0 /\ clock - last >= MaxRecordAge
  <2>1. /\ mLastRunTimestamp \in Int
        /\ MaxRecordAge \in Int
        /\ last \in Nat
        /\ run => MaxRecordAge > 0 /\ clock - MaxRecordAge >= 0
    BY <1>4, EvictorAssumption DEF EvictorInv, EvictorTypeOK
  <2>2. /\ UNCHANGED <<observers, mRecordAdded, mStop, untold>>
        /\ mLastRunTimestamp' \in {mLastRunTimestamp, clock, last}
        /\ \/ /\ run
              /\ ev' = [pc |-> "timeLoop", keys |-> SnapshotOfKeys, entry |-> 0,
                        now |-> clock]
           \/ ev' = [ev EXCEPT !.pc = "space"]
    BY <1>12 DEF TimeExecute
  <2> HIDE DEF last, run
  <2>3. /\ ev' \in EvType
        /\ \/ run /\ ev'.pc = "timeLoop" /\ ev'.now = clock
           \/ ev'.pc = "space"
    BY <1>4, <1>5, <2>2 DEF EvType, SnapshotOfKeys
  <2>4. EvictorTypeOK'
    BY <1>4, <2>1, <2>2, <2>3 DEF EvictorInv, EvictorTypeOK
  <2>5. EvRefs'
    BY <1>3, <2>1, <2>3 DEF EvRefs
  <2> QED BY <1>2, <2>4, <2>5 DEF EvictorInv
<1>13. ASSUME NEW k \in Keys, TimeLookup(k) \/ SpaceLookup(k)
       PROVE  EvictorInv'
  <2>1. /\ UNCHANGED <<cacheVars, observers, mRecordAdded, mStop, mLastRunTimestamp, untold>>
        /\ \/ /\ ev.pc = "timeLoop"
              /\ ev' = [ev EXCEPT !.keys = @ \ {k}, !.entry = mBeacons[k],
                          !.pc = IF mBeacons[k] = 0 THEN "timeLoop" ELSE "timeEvict"]
           \/ /\ ev.pc = "spaceInner"
              /\ ev' = [ev EXCEPT !.keys = @ \ {k}, !.entry = mBeacons[k],
                          !.pc = IF mBeacons[k] = 0 THEN "spaceInner" ELSE "spaceEvict"]
    BY <1>13 DEF TimeLookup, SpaceLookup
  <2>2. mBeacons[k] \in Nat /\ (mBeacons[k] # 0 => mBeacons[k] \in EntryIds)
    BY <1>4 DEF EntryIds
  <2>3. /\ ev' \in EvType
        /\ ev'.entry = mBeacons[k] /\ ev'.now = ev.now
        /\ ev'.pc \in {"timeEvict", "spaceEvict"} => mBeacons[k] # 0
        /\ ev'.pc \in {"timeLoop", "timeEvict"} => ev.pc = "timeLoop"
    <3>1. ASSUME NEW pc \in {"timeLoop", "timeEvict", "spaceInner", "spaceEvict"},
                 ev' = [ev EXCEPT !.keys = @ \ {k}, !.entry = mBeacons[k], !.pc = pc]
          PROVE  /\ ev' \in EvType /\ ev'.pc = pc
                 /\ ev'.entry = mBeacons[k] /\ ev'.now = ev.now
      BY <1>5, <2>2, <3>1 DEF EvType
    <3>2. CASE ev.pc = "timeLoop" /\ mBeacons[k] = 0
      BY <2>1, <3>1, <3>2
    <3>3. CASE ev.pc = "timeLoop" /\ mBeacons[k] # 0
      BY <2>1, <3>1, <3>3
    <3>4. CASE ev.pc = "spaceInner" /\ mBeacons[k] = 0
      BY <2>1, <3>1, <3>4
    <3>5. CASE ev.pc = "spaceInner" /\ mBeacons[k] # 0
      BY <2>1, <3>1, <3>5
    <3> QED BY <2>1, <3>2, <3>3, <3>4, <3>5
  <2>4. EvictorTypeOK'
    BY <2>1, <2>3 DEF EvictorInv, EvictorTypeOK
  <2>5. EvRefs'
    BY <1>3, <2>1, <2>2, <2>3 DEF EvictorInv, EvRefs, cacheVars, EntryIds
  <2> QED BY <1>2, <2>4, <2>5 DEF EvictorInv
<1>14. CASE TimeEvict \/ SpaceEvict
  <2>1. /\ UNCHANGED <<observers, mRecordAdded, mStop, mLastRunTimestamp, untold, clock>>
        /\ \/ ev.pc = "timeEvict" /\ ev' = [ev EXCEPT !.pc = "timeLoop", !.entry = 0]
           \/ ev.pc = "spaceEvict" /\ ev' = [ev EXCEPT !.pc = "spaceInner", !.entry = 0]
    BY <1>14 DEF TimeEvict, SpaceEvict, evictRecordsByAge, evictRecordsByNumber, Evict
  <2>2. /\ ev' \in EvType
        /\ ev'.now = ev.now
        /\ \/ ev.pc = "timeEvict" /\ ev'.pc = "timeLoop"
           \/ ev'.pc = "spaceInner"
    <3>1. CASE ev.pc = "timeEvict" /\ ev' = [ev EXCEPT !.pc = "timeLoop", !.entry = 0]
      BY <1>5, <3>1 DEF EvType
    <3>2. CASE ev.pc = "spaceEvict" /\ ev' = [ev EXCEPT !.pc = "spaceInner", !.entry = 0]
      BY <1>5, <3>2 DEF EvType
    <3> QED BY <2>1, <3>1, <3>2
  <2>3. EvictorTypeOK' /\ EvRefs'
    BY <2>1, <2>2 DEF EvictorInv, EvictorTypeOK, EvRefs
  <2> QED BY <1>2, <2>3 DEF EvictorInv
<1>15. CASE TimeDone
  <2>1. ev'.pc = "space" /\ ev' \in EvType /\ ev.now \in Nat
    BY <1>5, <1>15 DEF TimeDone, EvType
  <2>2. EvictorTypeOK'
    BY <1>15, <2>1 DEF TimeDone, EvictorInv, EvictorTypeOK
  <2> QED BY <1>2, <1>7, <2>1, <2>2 DEF EvictorInv
<1> QED BY <1>8, <1>9, <1>10, <1>11, <1>12, <1>13, <1>14, <1>15 DEF EvictorNext, EvictorThread

(* The invariant holds throughout. *)
LEMMA EvictorInvariant == EvictorSpec => []EvictorInv
<1>1. ASSUME Init, EvictorInit PROVE EvictorInv
  <2>1. CacheInv
    BY <1>1, InitCacheInv
  <2>2. ev \in EvType /\ ev.pc = "start"
    BY <1>1 DEF EvictorInit, EvType
  <2>3. EvictorTypeOK
    <3>1. -1 \in Int
      OBVIOUS
    <3> QED BY <1>1, <2>2, <3>1, Zenon DEF EvictorInit, EvictorTypeOK
  <2> QED BY <2>1, <2>2, <2>3 DEF EvictorInv, EvRefs
<1> QED BY <1>1, NextEvictorInv, PTL DEF EvictorSpec

(***************************************************************************)
(* The cache with its evictor implements the cache on its own: whatever    *)
(* the strategies are configured to, the eviction thread does nothing that *)
(* BeaconCache does not allow for, even on an entry that was deleted after *)
(* it was looked up.                                                       *)
(***************************************************************************)
THEOREM EvictorImplementsCache == EvictorSpec => ImplementsCache
<1>1. EvictorInv /\ [EvictorNext]_vars => [Next]_cacheVars
  BY StepsOfCache
<1> QED BY <1>1, EvictorInvariant, PTL DEF EvictorSpec, ImplementsCache, Spec

------------------------------------------------------------------------------
(***************************************************************************)
(* Why no notification is lost.  Whoever makes the counter grow notifies   *)
(* the observers afterwards: until then the growth is TellsSoon.  Once the *)
(* evictor has registered, telling it raises mRecordAdded, which it clears *)
(* before it looks at the counter, never after.                            *)
(***************************************************************************)
TellsSoon == snd.pc = "resetNotify" \/ \E t \in AppThreads : call[t].pc = "notify"

WakesIfAbove ==
    /\ observers <=> ev.pc # "start"
    /\ ev.pc = "start" /\ ~untold /\ ~TellsSoon => mCacheSizeInBytes <= 0
    /\ /\ ev.pc = "wait"
       /\ ~mRecordAdded /\ ~mStop /\ ~untold /\ ~TellsSoon /\ ~SpaceDisabled
       => mCacheSizeInBytes <= UpperBound

(* A step of a client that notifies nobody leaves the counter where it is or
   below, or it is the update before a notification. *)
LEMMA ClientsTellSoon ==
    ASSUME CacheInv, ClientStep
    PROVE  \/ TellsSoon'
           \/ ~TellsSoon /\ mCacheSizeInBytes' <= mCacheSizeInBytes
<1>1. /\ mCacheSizeInBytes \in Int
      /\ call \in [AppThreads -> CallType(Len(entries))]
      /\ snd \in SndType
  BY DEF CacheInv, TypeOK
<1>2. CASE Tick
  BY <1>1, <1>2 DEF Tick, TellsSoon
<1>3. ASSUME NEW t \in AppThreads,
             \/ \E k \in Keys, list \in {"event", "action"}, timestamp \in 0..clock, size \in 1..MaxSize :
                   AddLookup(t, k, list, timestamp, size)
             \/ AddInsert(t)
             \/ AddAppend(t)
      PROVE  TellsSoon' \/ (~TellsSoon /\ mCacheSizeInBytes' <= mCacheSizeInBytes)
  <2>1. /\ mCacheSizeInBytes' = mCacheSizeInBytes /\ snd' = snd
        /\ call[t].pc # "notify"
        /\ \A u \in AppThreads : u # t => call'[u] = call[u]
    BY <1>1, <1>3 DEF AddLookup, AddInsert, AddAppend
  <2> QED BY <1>1, <2>1 DEF TellsSoon
<1>4. ASSUME NEW t \in AppThreads, AddCount(t) PROVE TellsSoon'
  <2>1. call'[t].pc = "notify"
    BY <1>1, <1>4 DEF AddCount, RecordIsIn
  <2> QED BY <2>1 DEF TellsSoon
<1>5. ASSUME NEW k \in Keys, SendBegin(k)
      PROVE  TellsSoon' \/ (~TellsSoon /\ mCacheSizeInBytes' <= mCacheSizeInBytes)
  BY <1>1, <1>5 DEF SendBegin, sndUnchanged, TellsSoon
<1>6. ASSUME NEW k \in Keys, deleteCacheEntry(k)
      PROVE  TellsSoon' \/ (~TellsSoon /\ mCacheSizeInBytes' <= mCacheSizeInBytes)
  <2>1. entries[mBeacons[k]].mTotalNumBytes \in Nat
    <3>1. mBeacons[k] \in 1..Len(entries)
      BY <1>6 DEF deleteCacheEntry, CacheInv, TypeOK
    <3>2. entries[mBeacons[k]] \in EntryType(Len(records))
      BY <3>1 DEF CacheInv, TypeOK
    <3> QED BY <3>2 DEF EntryType
  <2> DEFINE b == entries[mBeacons[k]].mTotalNumBytes
  <2>2. mCacheSizeInBytes' = mCacheSizeInBytes - b /\ UNCHANGED <<call, snd>>
    BY <1>6 DEF deleteCacheEntry
  <2> HIDE DEF b
  <2>3. mCacheSizeInBytes' <= mCacheSizeInBytes
    BY <1>1, <2>1, <2>2 DEF b
  <2> QED BY <2>2, <2>3 DEF TellsSoon
<1>7. CASE SendCopyCount
  <2>1. /\ snd.numBytes \in Nat
        /\ mCacheSizeInBytes' = mCacheSizeInBytes - snd.numBytes
        /\ call' = call /\ snd.pc = "copyCount"
    BY <1>1, <1>7 DEF SendCopyCount, SndType, sndUnchanged
  <2>2. mCacheSizeInBytes' <= mCacheSizeInBytes
    BY <1>1, <2>1
  <2> QED BY <2>1, <2>2 DEF TellsSoon
<1>8. CASE SendResetCount
  <2>1. snd'.pc = "resetNotify"
    BY <1>1, <1>8 DEF SendResetCount, SndType
  <2> QED BY <2>1 DEF TellsSoon
<1>9. CASE SendCopy \/ SendChunk \/ SendDone \/ SendOk \/ SendFail
  <2>1. /\ mCacheSizeInBytes' = mCacheSizeInBytes /\ call' = call
        /\ snd.pc # "resetNotify"
    BY <1>9 DEF SendCopy, SendChunk, SendDone, SendOk, SendFail, sndUnchanged
  <2> QED BY <1>1, <2>1 DEF TellsSoon
<1> QED BY <1>2, <1>3, <1>4, <1>5, <1>6, <1>7, <1>8, <1>9
        DEF ClientStep, AddStep, SendStep

(* Every step preserves it. *)
LEMMA NextWakes == EvictorInv /\ WakesIfAbove /\ [EvictorNext]_vars => WakesIfAbove'
<1> SUFFICES ASSUME EvictorInv, WakesIfAbove, [EvictorNext]_vars PROVE WakesIfAbove'
  OBVIOUS
<1>0. /\ mCacheSizeInBytes \in Int /\ UpperBound \in Int /\ LowerBound \in Int
      /\ ev \in EvType
      /\ CacheInv
  BY EvictorAssumption DEF EvictorInv, CacheInv, TypeOK, EvictorTypeOK
<1>1. CASE NotifyStep /\ onDataAdded
  <2>1. /\ mCacheSizeInBytes' = mCacheSizeInBytes /\ ev' = ev /\ observers' = observers
        /\ observers => mRecordAdded'
        /\ ~observers => untold'
    BY <1>1 DEF NotifyStep, SendResetNotify, AddNotify, onDataAdded
  <2> QED BY <2>1 DEF WakesIfAbove
<1>2. CASE ClientStep /\ UNCHANGED evictorVars
  <2>1. TellsSoon' \/ (~TellsSoon /\ mCacheSizeInBytes' <= mCacheSizeInBytes)
    BY <1>0, <1>2, ClientsTellSoon
  <2>2. mCacheSizeInBytes' \in Int
    <3>1. [Next]_cacheVars
      BY <1>2 DEF Next
    <3> QED BY <1>0, <3>1, NextCacheInv DEF CacheInv, TypeOK
  <2>3. CASE TellsSoon'
    BY <1>2, <2>3 DEF WakesIfAbove, evictorVars
  <2>4. CASE ~TellsSoon /\ mCacheSizeInBytes' <= mCacheSizeInBytes
    <3>1. ASSUME NEW b \in Int, mCacheSizeInBytes <= b PROVE mCacheSizeInBytes' <= b
      BY <1>0, <2>2, <2>4, <3>1
    <3>2. 0 \in Int
      OBVIOUS
    <3> QED BY <1>0, <1>2, <2>4, <3>1, <3>2, Zenon DEF WakesIfAbove, evictorVars
  <2> QED BY <2>1, <2>3, <2>4
<1>3. CASE stop
  BY <1>3 DEF stop, WakesIfAbove, cacheVars, TellsSoon
<1>4. CASE Register
  <2>1. /\ UNCHANGED <<mCacheSizeInBytes, call, snd, untold>>
        /\ ev.pc = "start" /\ ev'.pc = "wait" /\ observers'
    BY <1>0, <1>4 DEF Register, cacheVars, EvType
  <2>2. TellsSoon' = TellsSoon
    BY <2>1 DEF TellsSoon
  <2>3. ~SpaceDisabled /\ mCacheSizeInBytes <= 0 => mCacheSizeInBytes <= UpperBound
    BY <1>0 DEF SpaceDisabled
  <2> QED BY <2>1, <2>2, <2>3 DEF WakesIfAbove
<1>5. CASE SpaceExecute \/ SpaceOuter
  <2>1. /\ UNCHANGED <<mCacheSizeInBytes, observers, mStop>>
        /\ ev.pc # "start" /\ ev'.pc # "start"
        /\ ev'.pc = "wait" /\ ~mStop /\ ~SpaceDisabled => mCacheSizeInBytes <= UpperBound
    <3>1. CASE SpaceExecute
      BY <1>0, <3>1 DEF SpaceExecute, cacheVars, EvType
    <3>2. CASE SpaceOuter
      BY <1>0, <3>2 DEF SpaceOuter, MustEvict, SpaceDisabled, cacheVars, EvType
    <3> QED BY <1>5, <3>1, <3>2
  <2> QED BY <2>1 DEF WakesIfAbove
<1>6. CASE WakeUp \/ TimeExecute \/ TimeDone \/ SpaceInnerDone \/ TimeEvict \/ SpaceEvict
           \/ \E k \in Keys : TimeLookup(k) \/ SpaceLookup(k)
  <2>1. /\ ev.pc # "start" /\ ev'.pc \notin {"start", "wait"} /\ observers' = observers
    <3>1. CASE WakeUp \/ TimeDone \/ SpaceInnerDone
      BY <1>0, <3>1 DEF WakeUp, TimeDone, SpaceInnerDone, EvType
    <3>4. CASE TimeExecute
      <4>1. /\ ev.pc = "time" /\ observers' = observers
            /\ \/ ev' = [pc |-> "timeLoop", keys |-> SnapshotOfKeys, entry |-> 0, now |-> clock]
               \/ ev' = [ev EXCEPT !.pc = "space"]
        BY <3>4 DEF TimeExecute
      <4>2. ev'.pc \in {"timeLoop", "space"}
        BY <1>0, <4>1 DEF EvType
      <4> QED BY <4>1, <4>2
    <3>2. CASE TimeEvict \/ SpaceEvict
      BY <1>0, <3>2 DEF TimeEvict, SpaceEvict, EvType
    <3>3. ASSUME NEW k \in Keys, TimeLookup(k) \/ SpaceLookup(k)
          PROVE  ev.pc # "start" /\ ev'.pc \notin {"start", "wait"} /\ observers' = observers
      BY <1>0, <3>3 DEF TimeLookup, SpaceLookup, EvType
    <3> QED BY <1>6, <3>1, <3>2, <3>3, <3>4
  <2> QED BY <2>1 DEF WakesIfAbove
<1>7. CASE UNCHANGED vars
  BY <1>7 DEF vars, cacheVars, evictorVars, WakesIfAbove, TellsSoon
<1> QED BY <1>1, <1>2, <1>3, <1>4, <1>5, <1>6, <1>7 DEF EvictorNext, ClientNext, EvictorThread

(***************************************************************************)
(* The evictor never sleeps through an add: when all callers are done and  *)
(* nothing will wake it, the cache is within the upper bound, for every    *)
(* interleaving of the callers' updates of the counter and the thread's    *)
(* look at it.                                                             *)
(***************************************************************************)
THEOREM NeverSleepsThrough == EvictorSpec => []SleepsOnlyWithinBound
<1>1. ASSUME Init, EvictorInit PROVE WakesIfAbove
  BY <1>1 DEF Init, EvictorInit, WakesIfAbove
<1>2. WakesIfAbove => SleepsOnlyWithinBound
  BY DEF WakesIfAbove, SleepsOnlyWithinBound, Quiescent, TellsSoon
<1> QED BY <1>1, <1>2, NextWakes, EvictorInvariant, PTL DEF EvictorSpec
==============================================================================
