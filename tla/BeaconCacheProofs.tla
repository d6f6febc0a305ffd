--------------------------- MODULE BeaconCacheProofs ---------------------------
(***************************************************************************)
(* What is proved about BeaconCache for every number of keys, threads and  *)
(* records, and every record and chunk size: its type, its locks and       *)
(* counters first, its contents after them.                                *)
(***************************************************************************)
EXTENDS BeaconCache, ListsProofs

(***************************************************************************)
(* The bytes of a list are a natural number, positive unless it is empty:  *)
(* no record of the cache has size zero.                                   *)
(***************************************************************************)
LEMMA BytesType ==
    ASSUME NEW rs \in Seq(Record), NEW s \in Seq(1..Len(rs))
    PROVE  /\ Bytes(rs, s) \in Nat
           /\ s # <<>> => Bytes(rs, s) > 0
<1>1. IsFiniteSet(1..Len(s)) /\ IsFiniteSet(1..MaxSize)
  BY FS_Interval, SizeAssumption
<1>2. IsFiniteSet((1..Len(s)) \X (1..MaxSize))
  BY <1>1, FS_Product
<1>3. BytesOf(rs, s) \in SUBSET ((1..Len(s)) \X (1..MaxSize))
  BY DEF BytesOf
<1>4. IsFiniteSet(BytesOf(rs, s))
  BY <1>2, <1>3, FS_Subset
<1>5. Bytes(rs, s) \in Nat
  BY <1>4, FS_CardinalityType DEF Bytes
<1>6. ASSUME s # <<>> PROVE Bytes(rs, s) > 0
  <2>1. 1 \in 1..Len(s) /\ 1 \in 1..MaxSize
    BY <1>6, SizeAssumption
  <2>2. s[1] \in 1..Len(rs)
    BY <2>1
  <2>3. rs[s[1]] \in Record
    BY <2>2
  <2>4. 1 <= rs[s[1]].size
    BY <2>3, SizeAssumption DEF Record
  <2>5. <<1, 1>> \in (1..Len(s)) \X (1..MaxSize)
    BY <2>1
  <2>6. <<1, 1>> \in BytesOf(rs, s)
    BY <2>4, <2>5 DEF BytesOf
  <2>7. BytesOf(rs, s) # {}
    BY <2>6
  <2> QED BY <1>4, <1>5, <2>7, FS_EmptySet DEF Bytes
<1> QED BY <1>5, <1>6

------------------------------------------------------------------------------
(***************************************************************************)
(* The entry's methods: each keeps the type, and each keeps the total of   *)
(* an entry with data in its active lists positive.                        *)
(***************************************************************************)
DataCounted(entry) ==
    entry.mEventData # <<>> \/ entry.mActionData # <<>> => entry.mTotalNumBytes > 0

(* An entry well typed for n records is so for n + 1, too: appending a
   record elsewhere leaves it well typed. *)
LEMMA EntryTypeGrows ==
    ASSUME NEW n \in Nat, NEW entry \in EntryType(n)
    PROVE  entry \in EntryType(n + 1)
<1>1. Seq(1..n) \subseteq Seq(1..(n + 1))
  OBVIOUS
<1>2. SUBSET (1..n) \subseteq SUBSET (1..(n + 1))
  OBVIOUS
<1> QED BY <1>1, <1>2 DEF EntryType

(* addEventData and addActionData append the new record and count it. *)
LEMMA AddData ==
    ASSUME NEW n \in Nat, NEW entry \in EntryType(n), NEW size \in 1..MaxSize
    PROVE  /\ addEventData(entry, n + 1, size) \in EntryType(n + 1)
           /\ DataCounted(addEventData(entry, n + 1, size))
           /\ addActionData(entry, n + 1, size) \in EntryType(n + 1)
           /\ DataCounted(addActionData(entry, n + 1, size))
<1>1. entry \in EntryType(n + 1)
  BY EntryTypeGrows
<1>2. /\ n + 1 \in 1..(n + 1)
      /\ size \in Nat \ {0}
      /\ entry.mTotalNumBytes \in Nat
      /\ entry.mEventData \in Seq(1..(n + 1))
      /\ entry.mActionData \in Seq(1..(n + 1))
  BY <1>1, SizeAssumption DEF EntryType
<1>3. /\ Append(entry.mEventData, n + 1) \in Seq(1..(n + 1))
      /\ Append(entry.mActionData, n + 1) \in Seq(1..(n + 1))
      /\ entry.mTotalNumBytes + size \in Nat
      /\ entry.mTotalNumBytes + size > 0
  BY <1>2
<1>4. addEventData(entry, n + 1, size) =
        [entry EXCEPT !.mEventData = Append(entry.mEventData, n + 1),
                      !.mTotalNumBytes = entry.mTotalNumBytes + size]
  BY DEF addEventData
<1>5. addActionData(entry, n + 1, size) =
        [entry EXCEPT !.mActionData = Append(entry.mActionData, n + 1),
                      !.mTotalNumBytes = entry.mTotalNumBytes + size]
  BY DEF addActionData
<1> QED BY <1>1, <1>3, <1>4, <1>5 DEF EntryType, DataCounted

(* copyDataForSending leaves nothing cached and nothing counted. *)
LEMMA CopyData ==
    ASSUME NEW n \in Nat, NEW entry \in EntryType(n)
    PROVE  /\ copyDataForSending(entry) \in EntryType(n)
           /\ DataCounted(copyDataForSending(entry))
           /\ copyDataForSending(entry).marked = entry.marked
<1>1. /\ entry.mActionData \o entry.mActionDataBeingSent \in Seq(1..n)
      /\ entry.mEventData \o entry.mEventDataBeingSent \in Seq(1..n)
  BY DEF EntryType
<1> QED BY <1>1 DEF EntryType, DataCounted, copyDataForSending

(* getNextChunk marks records, and changes nothing else. *)
LEMMA NextChunk ==
    ASSUME NEW n \in Nat, NEW rs, NEW entry \in EntryType(n)
    PROVE  LET chunk == getNextChunk(rs, entry) IN
           /\ chunk \in EntryType(n)
           /\ DataCounted(entry) => DataCounted(chunk)
           /\ hasDataToSend(chunk) <=> hasDataToSend(entry)
<1> DEFINE sent == entry.mEventDataBeingSent
           events == chunkifyDataList(rs, PrefixLength, sent)
           length == PrefixLength
                     + ChunkLength(rs, SubSeq(sent, 1, Cardinality(events)))
           actions == chunkifyDataList(rs, length, entry.mActionDataBeingSent)
<1>1. ASSUME NEW s \in Seq(1..n), NEW len
      PROVE  chunkifyDataList(rs, len, s) \in SUBSET (1..n)
  BY <1>1 DEF chunkifyDataList
<1>2. events \in SUBSET (1..n) /\ actions \in SUBSET (1..n)
  BY <1>1 DEF EntryType
<1>3. getNextChunk(rs, entry) = [entry EXCEPT !.marked = @ \cup events \cup actions]
  BY DEF getNextChunk
<1> HIDE DEF events, actions
<1> QED BY <1>2, <1>3 DEF EntryType, DataCounted, hasDataToSend

(* removeDataMarkedForSending leaves the cached lists and their count alone. *)
LEMMA RemoveMarked ==
    ASSUME NEW n \in Nat, NEW entry \in EntryType(n)
    PROVE  LET left == removeDataMarkedForSending(entry) IN
           /\ left \in EntryType(n)
           /\ DataCounted(entry) => DataCounted(left)
           /\ left.marked = {}
<1>1. /\ Erase(entry.mEventDataBeingSent, entry.marked) \in Seq(1..n)
      /\ Erase(entry.mActionDataBeingSent, entry.marked) \in Seq(1..n)
  BY EraseType DEF EntryType
<1> QED BY <1>1 DEF EntryType, DataCounted, removeDataMarkedForSending

(* resetDataMarkedForSending brings everything being sent back, unmarked, and
   counts it again. *)
LEMMA ResetMarked ==
    ASSUME NEW rs \in Seq(Record), NEW entry \in EntryType(Len(rs)),
           DataCounted(entry)
    PROVE  LET reset == resetDataMarkedForSending(rs, entry) IN
           /\ reset \in EntryType(Len(rs))
           /\ DataCounted(reset)
           /\ ~hasDataToSend(reset)
           /\ reset.marked = {}
           /\ reset.mTotalNumBytes - entry.mTotalNumBytes \in Nat
<1> DEFINE events == entry.mEventDataBeingSent
           actions == entry.mActionDataBeingSent
           n == Len(rs)
<1>1. /\ events \in Seq(1..n)
      /\ actions \in Seq(1..n)
      /\ entry.mEventData \in Seq(1..n)
      /\ entry.mActionData \in Seq(1..n)
      /\ entry.mTotalNumBytes \in Nat
  BY DEF EntryType
<1>2. /\ Bytes(rs, events) \in Nat
      /\ Bytes(rs, actions) \in Nat
      /\ events # <<>> => Bytes(rs, events) > 0
      /\ actions # <<>> => Bytes(rs, actions) > 0
  BY <1>1, BytesType
<1>3. /\ events \o entry.mEventData \in Seq(1..n)
      /\ actions \o entry.mActionData \in Seq(1..n)
      /\ events = <<>> /\ entry.mEventData = <<>> => events \o entry.mEventData = <<>>
      /\ actions = <<>> /\ entry.mActionData = <<>> => actions \o entry.mActionData = <<>>
  BY <1>1
<1> DEFINE allEvents == events \o entry.mEventData
           allActions == actions \o entry.mActionData
           total == entry.mTotalNumBytes + Bytes(rs, events) + Bytes(rs, actions)
           reset == resetDataMarkedForSending(rs, entry)
<1>4. reset = [mEventData |-> allEvents, mActionData |-> allActions,
               mEventDataBeingSent |-> <<>>, mActionDataBeingSent |-> <<>>,
               marked |-> {}, mTotalNumBytes |-> total]
  BY DEF resetDataMarkedForSending
<1>5. /\ total \in Nat
      /\ total - entry.mTotalNumBytes \in Nat
      /\ allEvents # <<>> \/ allActions # <<>> => total > 0
  <2> DEFINE b == Bytes(rs, events)
             c == Bytes(rs, actions)
             t == entry.mTotalNumBytes
  <2>1. t \in Nat /\ b \in Nat /\ c \in Nat /\ total = t + b + c
    BY <1>1, <1>2
  <2>2. ASSUME allEvents # <<>> \/ allActions # <<>>
        PROVE  t > 0 \/ b > 0 \/ c > 0
    <3>1. \/ events # <<>> \/ actions # <<>>
          \/ entry.mEventData # <<>> \/ entry.mActionData # <<>>
      BY <1>3, <2>2
    <3> QED BY <1>2, <3>1 DEF DataCounted
  <2> HIDE DEF b, c, t, total
  <2>3. total \in Nat /\ total - t \in Nat
    BY <2>1
  <2>4. t > 0 \/ b > 0 \/ c > 0 => total > 0
    BY <2>1
  <2> QED BY <2>2, <2>3, <2>4 DEF t
<1>6. allEvents \in Seq(1..n) /\ allActions \in Seq(1..n)
  BY <1>3
<1>e. entry \in EntryType(n)
  OBVIOUS
<1> HIDE DEF allEvents, allActions, total, reset, n
<1>7. reset \in EntryType(n)
  BY <1>e, <1>4, <1>5, <1>6 DEF EntryType
<1>8. /\ reset.mEventData = allEvents
      /\ reset.mActionData = allActions
      /\ reset.mEventDataBeingSent = <<>>
      /\ reset.mActionDataBeingSent = <<>>
      /\ reset.marked = {}
      /\ reset.mTotalNumBytes = total
  BY <1>e, <1>4, <1>5, <1>6 DEF EntryType
<1>9. DataCounted(reset) /\ ~hasDataToSend(reset)
  BY <1>5, <1>8 DEF DataCounted, hasDataToSend
<1> QED BY <1>5, <1>7, <1>8, <1>9 DEF reset, n

(* removeOldestRecords only removes cached records. *)
LEMMA EvictOldest ==
    ASSUME NEW n \in Nat, NEW rs, NEW entry \in EntryType(n), DataCounted(entry)
    PROVE  LET left == removeOldestRecords(rs, entry) IN
           /\ left \in EntryType(n)
           /\ DataCounted(left)
           /\ hasDataToSend(left) <=> hasDataToSend(entry)
           /\ left.marked = entry.marked
<1> DEFINE left == removeOldestRecords(rs, entry)
<1>1. CASE entry.mEventData = <<>> /\ entry.mActionData = <<>>
  BY <1>1 DEF removeOldestRecords
<1>2. CASE EventIsOlder(rs, entry)
  <2>1. entry.mEventData # <<>>
    BY <1>2 DEF EventIsOlder
  <2>2. left = [entry EXCEPT !.mEventData = Tail(entry.mEventData)]
    BY <1>2, <2>1 DEF removeOldestRecords
  <2>3. Tail(entry.mEventData) \in Seq(1..n) /\ entry.mTotalNumBytes > 0
    BY <2>1 DEF EntryType, DataCounted
  <2> QED BY <2>2, <2>3 DEF EntryType, DataCounted, hasDataToSend
<1>3. CASE /\ ~(entry.mEventData = <<>> /\ entry.mActionData = <<>>)
           /\ ~EventIsOlder(rs, entry)
  <2>1. entry.mActionData # <<>>
    BY <1>3, Zenon DEF EventIsOlder
  <2>2. left = [entry EXCEPT !.mActionData = Tail(entry.mActionData)]
    BY <1>3 DEF removeOldestRecords
  <2>3. Tail(entry.mActionData) \in Seq(1..n) /\ entry.mTotalNumBytes > 0
    BY <2>1 DEF EntryType, DataCounted
  <2> QED BY <2>2, <2>3 DEF EntryType, DataCounted, hasDataToSend
<1> QED BY <1>1, <1>2, <1>3

(* removeRecordsOlderThan only removes cached records. *)
LEMMA EvictByAge ==
    ASSUME NEW n \in Nat, NEW rs, NEW m, NEW entry \in EntryType(n), DataCounted(entry)
    PROVE  LET left == removeRecordsOlderThan(rs, entry, m) IN
           /\ left \in EntryType(n)
           /\ DataCounted(left)
           /\ hasDataToSend(left) <=> hasDataToSend(entry)
           /\ left.marked = entry.marked
<1> DEFINE events == Erase(entry.mEventData, TooOld(rs, m))
           actions == Erase(entry.mActionData, TooOld(rs, m))
<1>1. /\ events \in Seq(1..n)
      /\ actions \in Seq(1..n)
      /\ entry.mEventData = <<>> => events = <<>>
      /\ entry.mActionData = <<>> => actions = <<>>
  BY EraseType DEF EntryType
<1> DEFINE left == removeRecordsOlderThan(rs, entry, m)
<1>2. left = [entry EXCEPT !.mEventData = events, !.mActionData = actions]
  BY DEF removeRecordsOlderThan
<1> HIDE DEF events, actions, left
<1>3. left \in EntryType(n)
  BY <1>1, <1>2 DEF EntryType
<1>4. /\ left.mEventData = events
      /\ left.mActionData = actions
      /\ left.mEventDataBeingSent = entry.mEventDataBeingSent
      /\ left.mActionDataBeingSent = entry.mActionDataBeingSent
      /\ left.marked = entry.marked
      /\ left.mTotalNumBytes = entry.mTotalNumBytes
  BY <1>2 DEF EntryType
<1>5. DataCounted(left) /\ (hasDataToSend(left) <=> hasDataToSend(entry))
  BY <1>1, <1>4 DEF DataCounted, hasDataToSend
<1> QED BY <1>3, <1>4, <1>5 DEF left

------------------------------------------------------------------------------
(***************************************************************************)
(* The inductive invariant.  Beyond the types: a call that is about to     *)
(* append holds an entry, and a send that uses an entry without checking   *)
(* finds one, since only this thread deletes; data in an active list is    *)
(* counted by its entry; and only the entry being sent holds records being *)
(* sent, and marked ones only while the response is awaited.               *)
(***************************************************************************)
CallRefs ==
    \A t \in AppThreads :
        /\ call[t].pc = "insert" => call[t].key \in Keys
        /\ call[t].pc = "append" => call[t].entry \in EntryIds

SndRefs ==
    /\ snd.pc # "idle" => snd.key \in Keys
    /\ snd.pc \in {"copy", "response"} => mBeacons[snd.key] # 0

Counted == \A e \in EntryIds : DataCounted(entries[e])

SendingOnly ==
    \A e \in EntryIds :
        /\ hasDataToSend(entries[e]) =>
             snd.pc \in {"copyCount", "loop", "response"} /\ mBeacons[snd.key] = e
        /\ entries[e].marked # {} =>
             snd.pc = "response" /\ mBeacons[snd.key] = e

CacheInv == TypeOK /\ CallRefs /\ SndRefs /\ Counted /\ SendingOnly

(* The inductive invariant holds initially. *)
LEMMA InitCacheInv == Init => CacheInv
<1> SUFFICES ASSUME Init PROVE CacheInv
  OBVIOUS
<1> USE SizeAssumption DEF Init
<1>1. Len(entries) = 0 /\ EntryIds = {}
  BY DEF EntryIds
<1>2. IdleCall \in CallType(0) /\ IdleSnd \in SndType
  BY <1>1 DEF IdleCall, IdleSnd, CallType, SndType
<1>3. TypeOK
  BY <1>1, <1>2 DEF TypeOK
<1>4. CallRefs /\ SndRefs
  BY DEF CallRefs, SndRefs, IdleCall, IdleSnd
<1>5. Counted /\ SendingOnly
  BY <1>1 DEF Counted, SendingOnly
<1> QED BY <1>3, <1>4, <1>5 DEF CacheInv

(***************************************************************************)
(* A step that replaces one entry by another of the type, keeps map and    *)
(* records, and keeps the entry's data counted.                            *)
(***************************************************************************)
LEMMA ReplaceEntry ==
    ASSUME NEW T, NEW es \in Seq(T), NEW e \in 1..Len(es), NEW x \in T
    PROVE  LET new == [es EXCEPT ![e] = x] IN
           /\ new \in Seq(T)
           /\ Len(new) = Len(es)
           /\ new[e] = x
           /\ \A d \in 1..Len(es) : d # e => new[d] = es[d]
OBVIOUS

(* What is left of a call whose record is in. *)
LEMMA RecordIsInType ==
    ASSUME NEW n \in Nat, NEW pc \in {"count", "notify"}, NEW size \in 1..MaxSize
    PROVE  RecordIsIn(pc, size) \in CallType(n)
BY DEF RecordIsIn, CallType

(* The steps that touch no entry and not the map. *)
LEMMA LocalSteps ==
    ASSUME CacheInv,
           \/ Tick
           \/ \E t \in AppThreads, k \in Keys, list \in {"event", "action"}, timestamp \in 0..clock,
                 size \in 1..MaxSize : AddLookup(t, k, list, timestamp, size)
           \/ \E t \in AppThreads : AddCount(t) \/ AddNotify(t)
           \/ \E k \in Keys : SendBegin(k)
           \/ SendCopyCount \/ SendDone \/ SendResetCount \/ SendResetNotify
    PROVE  CacheInv'
<1> USE SizeAssumption DEF CacheInv, TypeOK, EntryIds
<1>1. CASE Tick
  <2>1. TypeOK'
    BY <1>1 DEF Tick, CallType
  <2> QED BY <1>1, <2>1 DEF Tick, CallRefs, SndRefs, Counted, SendingOnly
<1>2. ASSUME NEW t \in AppThreads, NEW k \in Keys, NEW list \in {"event", "action"},
             NEW timestamp \in 0..clock,
             NEW size \in 1..MaxSize, AddLookup(t, k, list, timestamp, size)
      PROVE  CacheInv'
  <2>1. TypeOK'
    BY <1>2 DEF AddLookup, CallType
  <2>2. CallRefs'
    BY <1>2 DEF AddLookup, CallRefs, CallType
  <2> QED BY <1>2, <2>1, <2>2 DEF AddLookup, SndRefs, Counted, SendingOnly
<1>3. ASSUME NEW t \in AppThreads, AddCount(t)
      PROVE  CacheInv'
  <2>0. /\ call[t] \in CallType(Len(entries)) /\ call[t].size \in Int
        /\ call[t].size \in 1..MaxSize /\ 1 \in 1..MaxSize
    BY DEF CallType
  <2>a. mCacheSizeInBytes' \in Int
    BY <1>3, <2>0 DEF AddCount
  <2>b. call' \in [AppThreads -> CallType(Len(entries))]
    BY <1>3, <2>0, RecordIsInType DEF AddCount
  <2>1. TypeOK'
    BY <1>3, <2>a, <2>b DEF AddCount, CallType
  <2>2. CallRefs'
    BY <1>3 DEF AddCount, CallRefs, CallType, RecordIsIn
  <2> QED BY <1>3, <2>1, <2>2 DEF AddCount, SndRefs, Counted, SendingOnly
<1>4. ASSUME NEW t \in AppThreads, AddNotify(t)
      PROVE  CacheInv'
  <2>1. TypeOK'
    BY <1>4 DEF AddNotify, CallType, IdleCall
  <2>2. CallRefs'
    BY <1>4 DEF AddNotify, CallRefs, CallType, IdleCall
  <2> QED BY <1>4, <2>1, <2>2 DEF AddNotify, SndRefs, Counted, SendingOnly
<1>5. ASSUME NEW k \in Keys, SendBegin(k)
      PROVE  CacheInv'
  <2>0. /\ UNCHANGED <<mBeacons, entries, records, call, clock, acked, evicted, lateBytes>>
        /\ mCacheSizeInBytes' \in Int
        /\ snd' \in SndType
    BY <1>5 DEF SendBegin, SndType, sndUnchanged
  <2>1. TypeOK'
    BY <2>0 DEF CallType
  <2>3. SndRefs'
    BY <1>5 DEF SendBegin, SndType, sndUnchanged, SndRefs
  <2>2. SendingOnly'
    BY <1>5 DEF SendBegin, sndUnchanged, SendingOnly
  <2> QED BY <2>0, <2>1, <2>2, <2>3 DEF CallRefs, Counted
<1>6. CASE SendCopyCount
  <2>0. /\ UNCHANGED <<mBeacons, entries, records, call, clock, acked, evicted, lateBytes>>
        /\ mCacheSizeInBytes' \in Int
        /\ snd' \in SndType
    <3>1. snd.numBytes \in Nat
      BY DEF SndType
    <3>2. mCacheSizeInBytes' \in Int
      BY <1>6, <3>1 DEF SendCopyCount
    <3>3. snd' \in SndType
      BY <1>6 DEF SendCopyCount, SndType
    <3> QED BY <1>6, <3>2, <3>3 DEF SendCopyCount, sndUnchanged
  <2>1. TypeOK'
    BY <2>0 DEF CallType
  <2>3. SndRefs'
    BY <1>6 DEF SendCopyCount, SndType, sndUnchanged, SndRefs
  <2>2. SendingOnly'
    BY <1>6 DEF SendCopyCount, SndType, sndUnchanged, SendingOnly
  <2> QED BY <2>0, <2>1, <2>2, <2>3 DEF CallRefs, Counted
<1>7. CASE SendDone
  <2>0. /\ UNCHANGED <<mBeacons, entries, records, call, clock, acked, evicted, lateBytes>>
        /\ mCacheSizeInBytes' \in Int
        /\ snd' \in SndType
    BY <1>7 DEF SendDone, SndType, sndUnchanged, IdleSnd
  <2>1. TypeOK'
    BY <2>0 DEF CallType
  <2>3. SndRefs'
    BY <1>7 DEF SendDone, SndType, sndUnchanged, SndRefs, IdleSnd
  <2>2. SendingOnly'
    BY <1>7 DEF SendDone, SndHasData, SndEntry, SndType, sndUnchanged, SendingOnly, IdleSnd
  <2> QED BY <2>0, <2>1, <2>2, <2>3 DEF CallRefs, Counted
<1>8. CASE SendResetCount
  <2>0. /\ UNCHANGED <<mBeacons, entries, records, call, clock, acked, evicted, lateBytes>>
        /\ mCacheSizeInBytes' \in Int
        /\ snd' \in SndType
    <3>1. snd.numBytes \in Nat
      BY DEF SndType
    <3>2. mCacheSizeInBytes' \in Int
      BY <1>8, <3>1 DEF SendResetCount
    <3>3. snd' \in SndType
      BY <1>8 DEF SendResetCount, SndType
    <3> QED BY <1>8, <3>2, <3>3 DEF SendResetCount, sndUnchanged
  <2>1. TypeOK'
    BY <2>0 DEF CallType
  <2>3. SndRefs'
    BY <1>8 DEF SendResetCount, SndType, sndUnchanged, SndRefs
  <2>2. SendingOnly'
    BY <1>8 DEF SendResetCount, SndType, sndUnchanged, SendingOnly
  <2> QED BY <2>0, <2>1, <2>2, <2>3 DEF CallRefs, Counted
<1>9. CASE SendResetNotify
  <2>0. /\ UNCHANGED <<mBeacons, entries, records, call, clock, acked, evicted, lateBytes>>
        /\ mCacheSizeInBytes' \in Int
        /\ snd' \in SndType
    BY <1>9 DEF SendResetNotify, SndType, sndUnchanged, IdleSnd
  <2>1. TypeOK'
    BY <2>0 DEF CallType
  <2>3. SndRefs'
    BY <1>9 DEF SendResetNotify, SndType, sndUnchanged, SndRefs, IdleSnd
  <2>2. SendingOnly'
    BY <1>9 DEF SendResetNotify, SndType, sndUnchanged, SendingOnly, IdleSnd
  <2> QED BY <2>0, <2>1, <2>2, <2>3 DEF CallRefs, Counted
<1> QED BY <1>1, <1>2, <1>3, <1>4, <1>5, <1>6, <1>7, <1>8, <1>9

(* A call that got its entry is well typed. *)
LEMMA HoldingType ==
    ASSUME NEW m \in Nat, NEW n \in Nat, NEW c \in CallType(m), NEW e \in 0..n
    PROVE  /\ Holding(c, e) \in CallType(n)
           /\ Holding(c, e).pc = "append"
           /\ Holding(c, e).entry = e
BY DEF Holding, CallType

(* Inserting a fresh entry, and appending a record to an entry. *)
LEMMA InsertStep ==
    ASSUME CacheInv, NEW t \in AppThreads, AddInsert(t)
    PROVE  CacheInv'
<1> USE DEF CacheInv, TypeOK, EntryIds
<1> DEFINE k == call[t].key
<1>1. k \in Keys /\ mBeacons[k] \in 0..Len(entries)
  BY DEF AddInsert, CallRefs
<1>2. CASE mBeacons[k] # 0
  <2> DEFINE c == Holding(call[t], mBeacons[k])
  <2>1. /\ UNCHANGED <<mBeacons, entries, records, mCacheSizeInBytes, snd, clock,
                       acked, evicted, lateBytes>>
        /\ call' = [call EXCEPT ![t] = c]
    BY <1>2 DEF AddInsert
  <2>a. c \in CallType(Len(entries)) /\ c.pc = "append" /\ c.entry \in EntryIds
    BY <1>1, <1>2, HoldingType
  <2> HIDE DEF c
  <2>2. TypeOK'
    BY <2>1, <2>a DEF CallType
  <2>3. CallRefs'
    BY <2>1, <2>a DEF CallRefs
  <2> QED BY <2>1, <2>2, <2>3 DEF SndRefs, Counted, SendingOnly
<1>3. CASE mBeacons[k] = 0
  <2> DEFINE e == Len(entries) + 1
             c == Holding(call[t], e)
  <2>1. /\ UNCHANGED <<records, mCacheSizeInBytes, snd, clock, acked, evicted, lateBytes>>
        /\ entries' = Append(entries, EmptyEntry)
        /\ mBeacons' = [mBeacons EXCEPT ![k] = e]
        /\ call' = [call EXCEPT ![t] = c]
    BY <1>3 DEF AddInsert
  <2>2. EmptyEntry \in EntryType(Len(records))
    BY DEF EmptyEntry, EntryType
  <2>3. /\ entries' \in Seq(EntryType(Len(records)))
        /\ Len(entries') = e
        /\ entries'[e] = EmptyEntry
        /\ \A d \in 1..Len(entries) : entries'[d] = entries[d]
    BY <2>1, <2>2
  <2>4. /\ mBeacons' \in [Keys -> 0..Len(entries')]
        /\ mBeacons'[k] = e
        /\ \A l \in Keys : l # k => mBeacons'[l] = mBeacons[l]
    BY <1>1, <2>1, <2>3
  <2>a. c \in CallType(Len(entries')) /\ c.pc = "append" /\ c.entry \in EntryIds'
    BY SMTT(60), <2>3, HoldingType
  <2> HIDE DEF c
  <2>5. TypeOK'
    <3>0. \A u \in AppThreads : call[u] \in CallType(Len(entries'))
      BY <2>3 DEF CallType
    <3>1. call' \in [AppThreads -> CallType(Len(entries'))]
      BY <2>1, <2>a, <3>0
    <3> QED BY <2>1, <2>3, <2>4, <3>1
  <2>6. CallRefs'
    BY <2>1, <2>3, <2>a DEF CallRefs
  <2>7. SndRefs'
    BY <2>1, <2>4 DEF SndRefs
  <2>8. DataCounted(EmptyEntry) /\ ~hasDataToSend(EmptyEntry) /\ EmptyEntry.marked = {}
    BY DEF DataCounted, hasDataToSend, EmptyEntry
  <2>9. Counted'
    BY <2>3, <2>8 DEF Counted
  <2>10. SendingOnly'
    <3>1. ASSUME NEW d \in 1..Len(entries),
                 hasDataToSend(entries[d]) \/ entries[d].marked # {}
          PROVE  mBeacons'[snd.key] = mBeacons[snd.key]
      <4>1. snd.key \in Keys /\ mBeacons[snd.key] = d
        BY <3>1 DEF SendingOnly, SndRefs
      <4> QED BY <1>3, <2>4, <4>1
    <3> SUFFICES ASSUME NEW d \in 1..Len(entries')
                 PROVE  /\ hasDataToSend(entries'[d]) =>
                             /\ snd.pc \in {"copyCount", "loop", "response"}
                             /\ mBeacons'[snd.key] = d
                        /\ entries'[d].marked # {} =>
                             snd.pc = "response" /\ mBeacons'[snd.key] = d
      BY <2>1 DEF SendingOnly
    <3>2. CASE d = e
      BY <2>3, <2>8, <3>2
    <3>3. CASE d \in 1..Len(entries)
      <4>1. entries'[d] = entries[d]
        BY <2>3, <3>3
      <4> QED BY <3>1, <3>3, <4>1 DEF SendingOnly
    <3> QED BY <2>3, <3>2, <3>3
  <2> QED BY <2>5, <2>6, <2>7, <2>9, <2>10
<1> QED BY <1>1, <1>2, <1>3

(* Appending a record to an entry, which may have been deleted since it was
   looked up, preserves the invariant. *)
LEMMA AppendStep ==
    ASSUME CacheInv, NEW t \in AppThreads, AddAppend(t)
    PROVE  CacheInv'
<1> USE DEF CacheInv, TypeOK, EntryIds
<1> DEFINE c == call[t]
           e == c.entry
           n == Len(records)
           new == IF c.list = "event" THEN addEventData(entries[e], n + 1, c.size)
                  ELSE addActionData(entries[e], n + 1, c.size)
<1>1. /\ c \in CallType(Len(entries))
      /\ e \in 1..Len(entries)
      /\ c.size \in 1..MaxSize
      /\ c.timestamp \in Nat
      /\ entries[e] \in EntryType(n)
      /\ n \in Nat
  BY DEF AddAppend, CallRefs, CallType
<1>2. /\ UNCHANGED <<mBeacons, mCacheSizeInBytes, snd, clock, acked, evicted>>
      /\ records' = Append(records, [timestamp |-> c.timestamp, size |-> c.size])
      /\ entries' = [entries EXCEPT ![e] = new]
      /\ call' = [call EXCEPT ![t] = RecordIsIn("count", c.size)]
      /\ lateBytes' = IF Detached(e) THEN lateBytes + c.size ELSE lateBytes
  BY DEF AddAppend
<1>3. records' \in Seq(Record) /\ Len(records') = n + 1
  BY <1>1, <1>2 DEF Record
<1>4. new \in EntryType(n + 1) /\ DataCounted(new)
  BY <1>1, AddData
<1>5. /\ hasDataToSend(new) <=> hasDataToSend(entries[e])
      /\ new.marked = entries[e].marked
  BY <1>1 DEF addEventData, addActionData, hasDataToSend, EntryType
<1> HIDE DEF new
<1>6. entries \in Seq(EntryType(n + 1))
  <2>1. \A d \in 1..Len(entries) : entries[d] \in EntryType(n + 1)
    BY <1>1, EntryTypeGrows
  <2> QED BY <2>1
<1>7. /\ entries' \in Seq(EntryType(n + 1))
      /\ Len(entries') = Len(entries)
      /\ entries'[e] = new
      /\ \A d \in 1..Len(entries) : d # e => entries'[d] = entries[d]
  BY <1>1, <1>2, <1>4, <1>6, ReplaceEntry
<1>8. TypeOK'
  <2>1. call' \in [AppThreads -> CallType(Len(entries'))]
    BY <1>1, <1>2, <1>7, RecordIsInType
  <2>2. lateBytes' \in Nat
    BY <1>1, <1>2
  <2>3. 1..n \subseteq 1..Len(records')
    BY <1>1, <1>3
  <2>4. entries' \in Seq(EntryType(Len(records')))
    BY <1>3, <1>7
  <2>5. mBeacons' \in [Keys -> 0..Len(entries')]
    BY <1>2, <1>7
  <2> QED BY <1>2, <1>3, <2>1, <2>2, <2>3, <2>4, <2>5
<1>9. CallRefs'
  BY <1>1, <1>2, <1>7 DEF CallRefs, CallType, RecordIsIn
<1>10. Counted'
  BY <1>4, <1>7 DEF Counted
<1>11. SndRefs' /\ SendingOnly'
  BY <1>1, <1>2, <1>5, <1>7 DEF SndRefs, SendingOnly
<1> QED BY <1>8, <1>9, <1>10, <1>11

(***************************************************************************)
(* The sender's steps on the entry it is sending, which exists and is of   *)
(* the type; `new' is what the step makes of it.                           *)
(***************************************************************************)
LEMMA SenderReplaces ==
    ASSUME CacheInv, snd.key \in Keys, mBeacons[snd.key] # 0,
           NEW new \in EntryType(Len(records)), DataCounted(new),
           entries' = [entries EXCEPT ![mBeacons[snd.key]] = new],
           UNCHANGED <<mBeacons, records, call, clock, evicted, lateBytes,
                       mCacheSizeInBytes>>,
           snd' \in SndType, snd'.key = snd.key,
           snd'.pc \in {"copyCount", "loop", "response", "resetCount"},
           acked' \subseteq 1..Len(records),
           hasDataToSend(new) => snd'.pc \in {"copyCount", "loop", "response"},
           new.marked # {} => snd'.pc = "response",
           \A e \in EntryIds : e # mBeacons[snd.key] =>
               ~hasDataToSend(entries[e]) /\ entries[e].marked = {}
    PROVE  CacheInv'
<1> USE DEF CacheInv, TypeOK, EntryIds
<1> DEFINE e == mBeacons[snd.key]
<1>1. e \in 1..Len(entries)
  OBVIOUS
<1>2. /\ entries' \in Seq(EntryType(Len(records)))
      /\ Len(entries') = Len(entries)
      /\ entries'[e] = new
      /\ \A d \in 1..Len(entries) : d # e => entries'[d] = entries[d]
  BY <1>1, ReplaceEntry
<1>3. TypeOK'
  BY <1>2
<1>4. CallRefs'
  BY <1>2 DEF CallRefs
<1>5. SndRefs'
  BY DEF SndRefs
<1>6. Counted'
  BY <1>2 DEF Counted
<1>7. SendingOnly'
  BY <1>2 DEF SendingOnly
<1> QED BY <1>3, <1>4, <1>5, <1>6, <1>7

(* The steps of Beacon::send that change an entry preserve the invariant. *)
LEMMA SenderSteps ==
    ASSUME CacheInv, SendCopy \/ SendChunk \/ SendOk \/ SendFail
    PROVE  CacheInv'
<1> DEFINE k == snd.key
           e == mBeacons[k]
           n == Len(records)
<1>1. /\ snd \in SndType
      /\ k \in Keys
      /\ e # 0
      /\ e \in EntryIds
      /\ entries[e] \in EntryType(n)
      /\ DataCounted(entries[e])
      /\ n \in Nat
      /\ records \in Seq(Record)
      /\ acked \subseteq 1..n
  BY DEF CacheInv, TypeOK, SndRefs, Counted, EntryIds, SendCopy, SendChunk, SendOk,
         SendFail, SndHasData
<1>2. \A d \in EntryIds : d # e => ~hasDataToSend(entries[d]) /\ entries[d].marked = {}
  BY <1>1 DEF CacheInv, SendingOnly
<1>3. CASE SendCopy
  <2> DEFINE new == copyDataForSending(entries[e])
  <2>1. new \in EntryType(n) /\ DataCounted(new) /\ new.marked = entries[e].marked
    BY <1>1, CopyData
  <2>2. entries[e].marked = {}
    BY <1>1, <1>3 DEF CacheInv, SendingOnly, SendCopy
  <2>3. /\ snd' \in SndType
        /\ snd'.key = k
        /\ snd'.pc = "copyCount"
    BY <1>1, <1>3 DEF SendCopy, SndType, SndEntry, EntryType
  <2>4. /\ UNCHANGED <<mBeacons, records, call, clock, evicted, lateBytes,
                       mCacheSizeInBytes, acked>>
        /\ entries' = [entries EXCEPT ![e] = new]
    BY <1>3 DEF SendCopy, sndUnchanged
  <2> HIDE DEF new
  <2> QED BY <1>1, <1>2, <2>1, <2>2, <2>3, <2>4, SenderReplaces
<1>4. CASE SendChunk
  <2> DEFINE new == getNextChunk(records, entries[e])
  <2>1. new \in EntryType(n) /\ DataCounted(new)
    BY <1>1, NextChunk
  <2>3. /\ snd' \in SndType
        /\ snd'.key = k
        /\ snd'.pc = "response"
    BY <1>1, <1>4 DEF SendChunk, SndType
  <2>4. /\ UNCHANGED <<mBeacons, records, call, clock, evicted, lateBytes,
                       mCacheSizeInBytes, acked>>
        /\ entries' = [entries EXCEPT ![e] = new]
    BY <1>4 DEF SendChunk, sndUnchanged
  <2> HIDE DEF new
  <2> QED BY <1>1, <1>2, <2>1, <2>3, <2>4, SenderReplaces
<1>5. CASE SendOk
  <2> DEFINE new == removeDataMarkedForSending(entries[e])
  <2>1. new \in EntryType(n) /\ DataCounted(new) /\ new.marked = {}
    BY <1>1, RemoveMarked
  <2>3. /\ snd' \in SndType
        /\ snd'.key = k
        /\ snd'.pc = "loop"
    BY <1>1, <1>5 DEF SendOk, SndType
  <2>4. /\ UNCHANGED <<mBeacons, records, call, clock, evicted, lateBytes,
                       mCacheSizeInBytes>>
        /\ entries' = [entries EXCEPT ![e] = new]
    BY <1>5 DEF SendOk, sndUnchanged
  <2>5. acked' \subseteq 1..n
    BY <1>1, <1>5 DEF SendOk, SndEntry, EntryType
  <2> HIDE DEF new
  <2> QED BY <1>1, <1>2, <2>1, <2>3, <2>4, <2>5, SenderReplaces
<1>6. CASE SendFail
  <2> DEFINE new == resetDataMarkedForSending(records, entries[e])
  <2>1. /\ new \in EntryType(n)
        /\ DataCounted(new)
        /\ ~hasDataToSend(new)
        /\ new.marked = {}
        /\ new.mTotalNumBytes - entries[e].mTotalNumBytes \in Nat
    BY <1>1, ResetMarked
  <2>2. /\ UNCHANGED <<mBeacons, records, call, clock, evicted, lateBytes,
                       mCacheSizeInBytes, acked>>
        /\ entries' = [entries EXCEPT ![e] = new]
        /\ snd' = [snd EXCEPT !.pc = "resetCount",
                     !.numBytes = new.mTotalNumBytes - entries[e].mTotalNumBytes]
    BY <1>6 DEF SendFail, sndUnchanged, SndEntry
  <2> HIDE DEF new
  <2>3. /\ snd' \in SndType
        /\ snd'.key = k
        /\ snd'.pc = "resetCount"
    BY <1>1, <2>1, <2>2 DEF SndType
  <2> QED BY <1>1, <1>2, <2>1, <2>2, <2>3, SenderReplaces
<1> QED BY <1>3, <1>4, <1>5, <1>6

(* deleteCacheEntry preserves the invariant: the entry it detaches has nothing
   being sent, since the same thread sends and deletes. *)
LEMMA DeleteStep ==
    ASSUME CacheInv, NEW k \in Keys, deleteCacheEntry(k)
    PROVE  CacheInv'
<1> USE DEF CacheInv, TypeOK, EntryIds
<1>1. /\ UNCHANGED <<entries, records, call, snd, clock, acked, evicted, lateBytes>>
      /\ mBeacons' = [mBeacons EXCEPT ![k] = 0]
      /\ snd.pc = "idle"
  BY DEF deleteCacheEntry
<1>2. mCacheSizeInBytes' \in Int
  <2>1. mBeacons[k] \in 1..Len(entries)
    BY DEF deleteCacheEntry
  <2>2. entries[mBeacons[k]] \in EntryType(Len(records))
    BY <2>1
  <2>3. entries[mBeacons[k]].mTotalNumBytes \in Nat
    BY <2>2 DEF EntryType
  <2> QED BY <2>3 DEF deleteCacheEntry
<1>3. TypeOK'
  BY <1>1, <1>2
<1>4. SendingOnly'
  BY <1>1 DEF SendingOnly
<1> QED BY <1>1, <1>3, <1>4 DEF CallRefs, SndRefs, Counted

(* Evicting from an entry preserves the invariant. *)
LEMMA EvictSteps ==
    ASSUME CacheInv, NEW e \in EntryIds,
           \/ evictRecordsByNumber(e)
           \/ \E m \in 1..clock : evictRecordsByAge(e, m)
    PROVE  CacheInv'
<1> USE DEF CacheInv, TypeOK, EntryIds
<1> DEFINE n == Len(records)
<1>1. entries[e] \in EntryType(n) /\ DataCounted(entries[e]) /\ n \in Nat
  BY DEF Counted
<1>2. PICK new : /\ Evict(e, new)
                 /\ new \in EntryType(n)
                 /\ DataCounted(new)
                 /\ hasDataToSend(new) <=> hasDataToSend(entries[e])
                 /\ new.marked = entries[e].marked
  <2>1. CASE evictRecordsByNumber(e)
    BY <1>1, <2>1, EvictOldest DEF evictRecordsByNumber
  <2>2. CASE \E m \in 1..clock : evictRecordsByAge(e, m)
    BY <1>1, <2>2, EvictByAge DEF evictRecordsByAge
  <2> QED BY <2>1, <2>2
<1>3. /\ UNCHANGED <<mBeacons, records, mCacheSizeInBytes, call, snd, clock, acked, lateBytes>>
      /\ entries' = [entries EXCEPT ![e] = new]
  BY <1>2 DEF Evict
<1>4. /\ entries' \in Seq(EntryType(n))
      /\ Len(entries') = Len(entries)
      /\ entries'[e] = new
      /\ \A d \in 1..Len(entries) : d # e => entries'[d] = entries[d]
  BY <1>2, <1>3, ReplaceEntry
<1>5. evicted' \subseteq 1..n
  <2>1. Cached(entries[e]) \subseteq 1..n
    <3>1. \A s \in Seq(1..n) : SeqRange(s) \subseteq 1..n
      BY DEF SeqRange
    <3>2. /\ entries[e].mEventData \in Seq(1..n)
          /\ entries[e].mActionData \in Seq(1..n)
      BY <1>1 DEF EntryType
    <3> QED BY <3>1, <3>2 DEF Cached
  <2> QED BY <1>2, <2>1 DEF Evict
<1>6. TypeOK'
  BY <1>3, <1>4, <1>5
<1>7. Counted'
  BY <1>2, <1>4 DEF Counted
<1>8. SendingOnly'
  BY <1>2, <1>3, <1>4 DEF SendingOnly
<1> QED BY <1>3, <1>4, <1>6, <1>7, <1>8 DEF CallRefs, SndRefs

(* Every step preserves the invariant. *)
LEMMA NextCacheInv == CacheInv /\ [Next]_cacheVars => CacheInv'
<1> SUFFICES ASSUME CacheInv, [Next]_cacheVars PROVE CacheInv'
  OBVIOUS
<1>1. CASE Tick
  BY <1>1, LocalSteps
<1>2. CASE AddStep
  BY <1>2, LocalSteps, InsertStep, AppendStep DEF AddStep
<1>3. ASSUME NEW k \in Keys, SendBegin(k) \/ deleteCacheEntry(k)
      PROVE  CacheInv'
  BY <1>3, LocalSteps, DeleteStep
<1>4. CASE SendStep
  BY <1>4, LocalSteps, SenderSteps DEF SendStep
<1>5. CASE NotifyStep
  BY <1>5, LocalSteps DEF NotifyStep
<1>6. CASE EvictionStep
  BY <1>6, EvictSteps DEF EvictionStep
<1>7. CASE UNCHANGED cacheVars
  BY <1>7 DEF cacheVars, CacheInv, TypeOK, CallRefs, SndRefs, Counted, SendingOnly,
              EntryIds
<1> QED BY <1>1, <1>2, <1>3, <1>4, <1>5, <1>6, <1>7 DEF Next, ClientStep

(* The inductive invariant holds throughout. *)
LEMMA CacheInvariant == Spec => []CacheInv
BY InitCacheInv, NextCacheInv, PTL DEF Spec

(* Type correctness of the cache and its clients. *)
THEOREM TypeCorrect == Spec => []TypeOK
<1>1. CacheInv => TypeOK
  BY DEF CacheInv
<1> QED BY <1>1, CacheInvariant, PTL

(***************************************************************************)
(* An entry that isEmpty calls empty holds no captured data, whatever was  *)
(* added, sent, reset, evicted or deleted before, in whatever order: so    *)
(* sendFinishedSessions, which drops a session it finds empty, never drops *)
(* data that could still be sent.                                          *)
(***************************************************************************)
THEOREM EmptyIsEmpty == Spec => []EmptyMeansNoData
<1>1. CacheInv => EmptyMeansNoData
  <2> SUFFICES ASSUME CacheInv, NEW k \in Keys, mBeacons[k] # 0, isEmpty(k)
               PROVE  /\ entries[mBeacons[k]].mEventData = <<>>
                      /\ entries[mBeacons[k]].mActionData = <<>>
    BY DEF EmptyMeansNoData
  <2>1. mBeacons[k] \in EntryIds
    BY DEF CacheInv, TypeOK, EntryIds
  <2>2. entries[mBeacons[k]].mTotalNumBytes = 0
    BY DEF isEmpty
  <2> QED BY <2>1, <2>2 DEF CacheInv, Counted, DataCounted
<1> QED BY <1>1, CacheInvariant, PTL

(***************************************************************************)
(* Outside Beacon::send, and for every entry but the one being sent, no    *)
(* record waits in the lists of records being sent and none is marked.     *)
(***************************************************************************)
THEOREM NothingStuck == Spec => []NothingStuckBeingSent
<1>1. CacheInv => NothingStuckBeingSent
  BY DEF CacheInv, SendingOnly, NothingStuckBeingSent
<1> QED BY <1>1, CacheInvariant, PTL

------------------------------------------------------------------------------
(***************************************************************************)
(* The contents of the cache: no record is lost or kept twice, the lists   *)
(* keep the order of the appends, and the byte counter of the cache agrees *)
(* with those of its entries.                                              *)
(***************************************************************************)

(* Lists of numbers: what is in them, and whether they increase. *)

(* What a list holds is within its type, and its head is one of them. *)
LEMMA RangeOf ==
    ASSUME NEW n \in Nat, NEW s \in Seq(1..n)
    PROVE  /\ SeqRange(s) \subseteq 1..n
           /\ SeqRange(s) = {s[i] : i \in 1..Len(s)}
           /\ SeqRange(<<>>) = {}
           /\ s # <<>> => Head(s) \in SeqRange(s)
BY DEF SeqRange

(* Appending to a list adds to what it holds. *)
LEMMA RangeAppend ==
    ASSUME NEW n \in Nat, NEW s \in Seq(1..n), NEW r \in 1..n
    PROVE  SeqRange(Append(s, r)) = SeqRange(s) \cup {r}
<1> DEFINE a == Append(s, r)
<1>1. /\ Len(a) = Len(s) + 1
      /\ \A i \in 1..Len(s) : a[i] = s[i]
      /\ a[Len(s) + 1] = r
      /\ DOMAIN a = 1..(Len(s) + 1)
      /\ DOMAIN s = 1..Len(s)
      /\ Len(s) \in Nat
  OBVIOUS
<1>2. \A i \in 1..(Len(s) + 1) : i \in 1..Len(s) \/ i = Len(s) + 1
  BY <1>1
<1>3. \A i \in 1..Len(s) : i \in 1..(Len(s) + 1)
  BY <1>1
<1>4. Len(s) + 1 \in 1..(Len(s) + 1)
  BY <1>1
<1> HIDE DEF a
<1>5. SeqRange(a) \subseteq SeqRange(s) \cup {r}
  BY <1>1, <1>2 DEF SeqRange
<1>6. SeqRange(s) \cup {r} \subseteq SeqRange(a)
  BY <1>1, <1>3, <1>4 DEF SeqRange
<1> QED BY <1>5, <1>6 DEF a

(* Two lists put together hold what both hold. *)
LEMMA RangeConcat ==
    ASSUME NEW n \in Nat, NEW s \in Seq(1..n), NEW u \in Seq(1..n)
    PROVE  SeqRange(s \o u) = SeqRange(s) \cup SeqRange(u)
<1> DEFINE c == s \o u
<1>1. /\ Len(c) = Len(s) + Len(u)
      /\ DOMAIN c = 1..(Len(s) + Len(u))
      /\ DOMAIN s = 1..Len(s)
      /\ DOMAIN u = 1..Len(u)
      /\ Len(s) \in Nat /\ Len(u) \in Nat
      /\ \A i \in 1..Len(s) : c[i] = s[i]
      /\ \A j \in 1..Len(u) : c[Len(s) + j] = u[j]
  OBVIOUS
<1>2. \A i \in 1..(Len(s) + Len(u)) : i \in 1..Len(s) \/ \E j \in 1..Len(u) : i = Len(s) + j
  <2> SUFFICES ASSUME NEW i \in 1..(Len(s) + Len(u)), i \notin 1..Len(s)
               PROVE  \E j \in 1..Len(u) : i = Len(s) + j
    OBVIOUS
  <2>1. i - Len(s) \in 1..Len(u) /\ i = Len(s) + (i - Len(s))
    BY <1>1
  <2> QED BY <2>1
<1>3. /\ \A i \in 1..Len(s) : i \in 1..(Len(s) + Len(u))
      /\ \A j \in 1..Len(u) : Len(s) + j \in 1..(Len(s) + Len(u))
  BY <1>1
<1> HIDE DEF c
<1>4. SeqRange(c) \subseteq SeqRange(s) \cup SeqRange(u)
  <2> SUFFICES ASSUME NEW i \in 1..(Len(s) + Len(u))
               PROVE  c[i] \in SeqRange(s) \cup SeqRange(u)
    BY <1>1 DEF SeqRange
  <2>1. CASE i \in 1..Len(s)
    BY <1>1, <2>1 DEF SeqRange
  <2>2. ASSUME NEW j \in 1..Len(u), i = Len(s) + j
        PROVE  c[i] \in SeqRange(u)
    BY <1>1, <2>2 DEF SeqRange
  <2> QED BY <1>2, <2>1, <2>2
<1>5. SeqRange(s) \cup SeqRange(u) \subseteq SeqRange(c)
  BY <1>1, <1>3 DEF SeqRange
<1> QED BY <1>4, <1>5 DEF c

(* Everything in the first set is below everything in the second. *)
Below(S, T) == \A x \in S, y \in T : x < y

(***************************************************************************)
(* A list of records being sent followed by a list of cached ones          *)
(* increases when both do and everything in the first is below everything  *)
(* in the second.                                                          *)
(***************************************************************************)
LEMMA IncreasingConcat ==
    ASSUME NEW n \in Nat, NEW s \in Seq(1..n), NEW u \in Seq(1..n)
    PROVE  Increasing(s \o u) <=>
             Increasing(s) /\ Increasing(u) /\ Below(SeqRange(s), SeqRange(u))
<1> DEFINE c == s \o u
<1>1. /\ Len(c) = Len(s) + Len(u)
      /\ DOMAIN c = 1..(Len(s) + Len(u))
      /\ DOMAIN s = 1..Len(s)
      /\ DOMAIN u = 1..Len(u)
      /\ Len(s) \in Nat /\ Len(u) \in Nat
      /\ \A i \in 1..Len(s) : c[i] = s[i]
      /\ \A i \in 1..(Len(s) + Len(u)) : i > Len(s) => c[i] = u[i - Len(s)]
      /\ \A j \in 1..Len(u) : c[Len(s) + j] = u[j]
  OBVIOUS
<1> HIDE DEF c
<1>2. ASSUME Increasing(c)
      PROVE  Increasing(s) /\ Increasing(u) /\ Below(SeqRange(s), SeqRange(u))
  <2>1. Increasing(s)
    BY <1>1, <1>2 DEF Increasing
  <2>2. Increasing(u)
    <3> SUFFICES ASSUME NEW i \in 1..Len(u), NEW j \in 1..Len(u), i < j
                 PROVE  u[i] < u[j]
      BY <1>1 DEF Increasing
    <3>1. /\ Len(s) + i \in 1..(Len(s) + Len(u))
          /\ Len(s) + j \in 1..(Len(s) + Len(u))
          /\ Len(s) + i < Len(s) + j
      BY <1>1
    <3> QED BY ZenonT(60), <1>1, <1>2, <3>1 DEF Increasing
  <2>3. ASSUME NEW i \in 1..Len(s), NEW j \in 1..Len(u)
        PROVE  s[i] < u[j]
    <3>1. /\ i \in 1..(Len(s) + Len(u))
          /\ Len(s) + j \in 1..(Len(s) + Len(u))
          /\ i < Len(s) + j
      BY <1>1
    <3> QED BY <1>1, <1>2, <3>1 DEF Increasing
  <2>4. Below(SeqRange(s), SeqRange(u))
    BY <1>1, <2>3 DEF Below, SeqRange
  <2> QED BY <2>1, <2>2, <2>4
<1>3. ASSUME Increasing(s), Increasing(u), Below(SeqRange(s), SeqRange(u))
      PROVE  Increasing(c)
  <2> SUFFICES ASSUME NEW i \in 1..(Len(s) + Len(u)), NEW j \in 1..(Len(s) + Len(u)), i < j
               PROVE  c[i] < c[j]
    BY <1>1 DEF Increasing
  <2>1. CASE j <= Len(s)
    <3>1. i \in 1..Len(s) /\ j \in 1..Len(s)
      BY <1>1, <2>1
    <3> QED BY <1>1, <1>3, <3>1 DEF Increasing
  <2>2. CASE i > Len(s)
    <3>1. /\ i - Len(s) \in 1..Len(u)
          /\ j - Len(s) \in 1..Len(u)
          /\ i - Len(s) < j - Len(s)
          /\ j > Len(s)
      BY <1>1, <2>2
    <3> QED BY ZenonT(60), <1>1, <1>3, <2>2, <3>1 DEF Increasing
  <2>3. CASE i <= Len(s) /\ j > Len(s)
    <3>1. i \in 1..Len(s) /\ j - Len(s) \in 1..Len(u)
      BY <1>1, <2>3
    <3>2. s[i] \in SeqRange(s) /\ u[j - Len(s)] \in SeqRange(u)
      BY <1>1, <3>1 DEF SeqRange
    <3> QED BY <1>1, <1>3, <2>3, <3>1, <3>2 DEF Below
  <2> QED BY <1>1, <2>1, <2>2, <2>3
<1> QED BY <1>2, <1>3 DEF c

(* Appending a larger number keeps a list increasing. *)
LEMMA IncreasingAppend ==
    ASSUME NEW n \in Nat, NEW s \in Seq(1..n), NEW r \in Int, r > n, Increasing(s)
    PROVE  Increasing(Append(s, r))
<1> DEFINE a == Append(s, r)
<1>1. /\ \A i \in 1..Len(s) : a[i] = s[i] /\ s[i] < r
      /\ a[Len(s) + 1] = r
      /\ DOMAIN a = 1..(Len(s) + 1)
      /\ DOMAIN s = 1..Len(s)
      /\ Len(s) \in Nat
  OBVIOUS
<1> HIDE DEF a
<1>2. ASSUME NEW i \in 1..(Len(s) + 1), NEW j \in 1..(Len(s) + 1), i < j
      PROVE  a[i] < a[j]
  <2>1. i \in 1..Len(s) /\ (j \in 1..Len(s) \/ j = Len(s) + 1)
    BY <1>1, <1>2
  <2> QED BY <1>1, <1>2, <2>1 DEF Increasing
<1> QED BY <1>1, <1>2 DEF Increasing, a

(* Removing the first element of an increasing list removes that only. *)
LEMMA IncreasingTail ==
    ASSUME NEW n \in Nat, NEW s \in Seq(1..n), s # <<>>, Increasing(s)
    PROVE  /\ Increasing(Tail(s))
           /\ SeqRange(Tail(s)) = SeqRange(s) \ {Head(s)}
<1> DEFINE u == Tail(s)
<1>1. /\ Len(s) \in Nat \ {0}
      /\ DOMAIN s = 1..Len(s)
      /\ DOMAIN u = 1..(Len(s) - 1)
      /\ \A i \in 1..(Len(s) - 1) : u[i] = s[i + 1]
      /\ Head(s) = s[1]
      /\ \A i \in 1..Len(s) : s[i] \in Int
  OBVIOUS
<1> HIDE DEF u
<1>2. /\ \A i \in 1..(Len(s) - 1) : i + 1 \in 1..Len(s) /\ i + 1 # 1 /\ 1 < i + 1
      /\ \A i \in 1..Len(s) : i = 1 \/ (i - 1 \in 1..(Len(s) - 1) /\ i = (i - 1) + 1)
      /\ 1 \in 1..Len(s)
  BY <1>1
<1>3. Increasing(u)
  <2> SUFFICES ASSUME NEW i \in 1..(Len(s) - 1), NEW j \in 1..(Len(s) - 1), i < j
               PROVE  u[i] < u[j]
    BY <1>1 DEF Increasing
  <2>1. i + 1 < j + 1
    BY <1>1
  <2> QED BY <1>1, <1>2, <2>1 DEF Increasing
<1>4. ASSUME NEW i \in 1..(Len(s) - 1) PROVE u[i] \in SeqRange(s) /\ u[i] # s[1]
  <2>1. i + 1 \in 1..Len(s) /\ 1 < i + 1 /\ u[i] = s[i + 1]
    BY <1>1, <1>2
  <2>2. s[1] < s[i + 1]
    BY <1>1, <1>2, <2>1 DEF Increasing
  <2>3. s[1] \in Int /\ s[i + 1] \in Int
    BY <1>1, <1>2, <2>1
  <2>4. s[i + 1] \in SeqRange(s)
    BY <1>1, <2>1 DEF SeqRange
  <2> QED BY <2>1, <2>2, <2>3, <2>4
<1>5. SeqRange(u) \subseteq SeqRange(s) \ {s[1]}
  BY <1>1, <1>4 DEF SeqRange
<1>6. SeqRange(s) \ {s[1]} \subseteq SeqRange(u)
  <2> SUFFICES ASSUME NEW i \in 1..Len(s), s[i] # s[1]
               PROVE  s[i] \in SeqRange(u)
    BY <1>1 DEF SeqRange
  <2>1. i - 1 \in 1..(Len(s) - 1) /\ u[i - 1] = s[i]
    BY <1>1, <1>2
  <2> QED BY <1>1, <2>1 DEF SeqRange
<1> QED BY <1>1, <1>3, <1>5, <1>6 DEF u

(* Erasing keeps the order and removes what is to be erased, and that only. *)
LEMMA IncreasingErase ==
    ASSUME NEW n \in Nat, NEW s \in Seq(1..n), NEW R
    PROVE  /\ Increasing(s) => Increasing(Erase(s, R))
           /\ SeqRange(Erase(s, R)) = SeqRange(s) \ R
<1> DEFINE e == Erase(s, R)
<1>1. /\ e \in Seq(1..n)
      /\ \E p \in [1..Len(e) -> 1..Len(s)] :
           /\ \A k \in 1..Len(e) : e[k] = s[p[k]] /\ s[p[k]] \notin R
           /\ \A k, l \in 1..Len(e) : k < l => p[k] < p[l]
           /\ \A i \in 1..Len(s) : s[i] \notin R => \E k \in 1..Len(e) : p[k] = i
  BY SMTT(60), EraseKeeps
<1> HIDE DEF e
<1>2. PICK p \in [1..Len(e) -> 1..Len(s)] :
        /\ \A k \in 1..Len(e) : e[k] = s[p[k]] /\ s[p[k]] \notin R
        /\ \A k, l \in 1..Len(e) : k < l => p[k] < p[l]
        /\ \A i \in 1..Len(s) : s[i] \notin R => \E k \in 1..Len(e) : p[k] = i
  BY <1>1
<1>3. DOMAIN s = 1..Len(s) /\ DOMAIN e = 1..Len(e)
  BY <1>1
<1>4. Increasing(s) => Increasing(e)
  BY <1>2, <1>3 DEF Increasing
<1>5. SeqRange(e) \subseteq SeqRange(s) \ R
  BY <1>2, <1>3 DEF SeqRange
<1>6. SeqRange(s) \ R \subseteq SeqRange(e)
  <2> SUFFICES ASSUME NEW i \in 1..Len(s), s[i] \notin R
               PROVE  s[i] \in SeqRange(e)
    BY <1>3 DEF SeqRange
  <2>1. PICK k \in 1..Len(e) : p[k] = i
    BY <1>2
  <2>2. e[k] = s[i]
    BY <1>2, <2>1
  <2> QED BY <1>3, <2>2 DEF SeqRange
<1> QED BY <1>4, <1>5, <1>6 DEF e
------------------------------------------------------------------------------
(***************************************************************************)
(* The contents of an entry: the records of its two kinds, cached or being *)
(* sent.  An entry is sound if its lists keep the order of the appends, no *)
(* record is of both kinds, and only records being sent are marked.        *)
(***************************************************************************)
EventRecs(x) == SeqRange(x.mEventDataBeingSent) \cup SeqRange(x.mEventData)

ActionRecs(x) == SeqRange(x.mActionDataBeingSent) \cup SeqRange(x.mActionData)

Recs(x) == EventRecs(x) \cup ActionRecs(x)

Ordered(x) == /\ Increasing(x.mEventDataBeingSent \o x.mEventData)
              /\ Increasing(x.mActionDataBeingSent \o x.mActionData)

Sound(x) == /\ Ordered(x)
            /\ EventRecs(x) \cap ActionRecs(x) = {}
            /\ x.marked \subseteq BeingSent(x)

(* The entry `new' is what is left of x without the records in `gone'. *)
Without(x, new, gone) ==
    /\ Sound(new)
    /\ EventRecs(new) = EventRecs(x) \ gone
    /\ ActionRecs(new) = ActionRecs(x) \ gone

(* Order and contents of an entry, list by list. *)
LEMMA SoundLists ==
    ASSUME NEW n \in Nat, NEW x \in EntryType(n)
    PROVE  /\ x.mEventData \in Seq(1..n)
           /\ x.mActionData \in Seq(1..n)
           /\ x.mEventDataBeingSent \in Seq(1..n)
           /\ x.mActionDataBeingSent \in Seq(1..n)
           /\ EventRecs(x) \subseteq 1..n
           /\ ActionRecs(x) \subseteq 1..n
           /\ Ordered(x) <=>
                /\ Increasing(x.mEventDataBeingSent)
                /\ Increasing(x.mEventData)
                /\ Below(SeqRange(x.mEventDataBeingSent), SeqRange(x.mEventData))
                /\ Increasing(x.mActionDataBeingSent)
                /\ Increasing(x.mActionData)
                /\ Below(SeqRange(x.mActionDataBeingSent), SeqRange(x.mActionData))
<1>1. /\ x.mEventData \in Seq(1..n)
      /\ x.mActionData \in Seq(1..n)
      /\ x.mEventDataBeingSent \in Seq(1..n)
      /\ x.mActionDataBeingSent \in Seq(1..n)
  BY DEF EntryType
<1>2. /\ SeqRange(x.mEventData) \subseteq 1..n
      /\ SeqRange(x.mActionData) \subseteq 1..n
      /\ SeqRange(x.mEventDataBeingSent) \subseteq 1..n
      /\ SeqRange(x.mActionDataBeingSent) \subseteq 1..n
  BY <1>1, RangeOf
<1>3. EventRecs(x) \subseteq 1..n /\ ActionRecs(x) \subseteq 1..n
  BY <1>2 DEF EventRecs, ActionRecs
<1>4. Increasing(x.mEventDataBeingSent \o x.mEventData) <=>
        /\ Increasing(x.mEventDataBeingSent)
        /\ Increasing(x.mEventData)
        /\ Below(SeqRange(x.mEventDataBeingSent), SeqRange(x.mEventData))
  BY <1>1, IncreasingConcat
<1>5. Increasing(x.mActionDataBeingSent \o x.mActionData) <=>
        /\ Increasing(x.mActionDataBeingSent)
        /\ Increasing(x.mActionData)
        /\ Below(SeqRange(x.mActionDataBeingSent), SeqRange(x.mActionData))
  BY <1>1, IncreasingConcat
<1> QED BY <1>1, <1>3, <1>4, <1>5 DEF Ordered

(* A new entry is empty and sound. *)
LEMMA EmptyContents == Sound(EmptyEntry) /\ Recs(EmptyEntry) = {}
<1>1. SeqRange(<<>>) = {} /\ Increasing(<<>> \o <<>>)
  BY DEF SeqRange, Increasing
<1> QED BY <1>1 DEF EmptyEntry, Sound, Ordered, Recs, EventRecs, ActionRecs, BeingSent

(* Records of different sets, one below the other, are different. *)
LEMMA BelowDisjoint ==
    ASSUME NEW n \in Nat, NEW S \in SUBSET (1..n), NEW T \in SUBSET (1..n), Below(S, T)
    PROVE  S \cap T = {}
BY DEF Below

(* addEventData and addActionData add the new record to one list. *)
LEMMA AddContents ==
    ASSUME NEW n \in Nat, NEW x \in EntryType(n), Sound(x), NEW size
    PROVE  LET ev == addEventData(x, n + 1, size)
               ac == addActionData(x, n + 1, size)
           IN /\ Sound(ev) /\ Recs(ev) = Recs(x) \cup {n + 1}
              /\ Sound(ac) /\ Recs(ac) = Recs(x) \cup {n + 1}
<1> DEFINE ev == addEventData(x, n + 1, size)
           ac == addActionData(x, n + 1, size)
           r == n + 1
           E == x.mEventData
           A == x.mActionData
           ES == x.mEventDataBeingSent
           AS == x.mActionDataBeingSent
<1>1. /\ E \in Seq(1..n) /\ A \in Seq(1..n) /\ ES \in Seq(1..n) /\ AS \in Seq(1..n)
      /\ EventRecs(x) \subseteq 1..n
      /\ ActionRecs(x) \subseteq 1..n
      /\ Increasing(ES) /\ Increasing(E) /\ Below(SeqRange(ES), SeqRange(E))
      /\ Increasing(AS) /\ Increasing(A) /\ Below(SeqRange(AS), SeqRange(A))
  BY SoundLists DEF Sound
<1>2. /\ r \in Int /\ r > n /\ r \notin 1..n /\ r \in 1..r /\ r \in Nat
      /\ E \in Seq(1..r) /\ A \in Seq(1..r) /\ ES \in Seq(1..r) /\ AS \in Seq(1..r)
      /\ Append(E, r) \in Seq(1..r) /\ Append(A, r) \in Seq(1..r)
  BY <1>1
<1>3. /\ SeqRange(Append(E, r)) = SeqRange(E) \cup {r}
      /\ SeqRange(Append(A, r)) = SeqRange(A) \cup {r}
  BY <1>2, RangeAppend
<1>4. Increasing(Append(E, r)) /\ Increasing(Append(A, r))
  BY <1>1, <1>2, IncreasingAppend
<1>5. /\ Below(SeqRange(ES), SeqRange(E) \cup {r})
      /\ Below(SeqRange(AS), SeqRange(A) \cup {r})
  <2>1. SeqRange(ES) \subseteq 1..n /\ SeqRange(AS) \subseteq 1..n
    BY <1>1, RangeOf
  <2>2. \A y \in 1..n : y < r
    BY <1>2
  <2> QED BY <1>1, <2>1, <2>2 DEF Below
<1>6. /\ Increasing(ES \o Append(E, r))
      /\ Increasing(AS \o Append(A, r))
      /\ Increasing(ES \o E)
      /\ Increasing(AS \o A)
  <2>1. Increasing(ES \o Append(E, r))
    BY ZenonT(60), <1>1, <1>2, <1>3, <1>4, <1>5, IncreasingConcat
  <2>2. Increasing(AS \o Append(A, r))
    BY ZenonT(60), <1>1, <1>2, <1>3, <1>4, <1>5, IncreasingConcat
  <2> QED BY <2>1, <2>2 DEF Sound, Ordered
<1>7. /\ ev.mEventData = Append(E, r)
      /\ ev.mActionData = A
      /\ ev.mEventDataBeingSent = ES
      /\ ev.mActionDataBeingSent = AS
      /\ ev.marked = x.marked
      /\ ac.mEventData = E
      /\ ac.mActionData = Append(A, r)
      /\ ac.mEventDataBeingSent = ES
      /\ ac.mActionDataBeingSent = AS
      /\ ac.marked = x.marked
  BY DEF addEventData, addActionData, EntryType
<1> HIDE DEF ev, ac, r
<1>8. /\ EventRecs(ev) = EventRecs(x) \cup {r}
      /\ ActionRecs(ev) = ActionRecs(x)
      /\ BeingSent(ev) = BeingSent(x)
      /\ Ordered(ev)
      /\ EventRecs(ac) = EventRecs(x)
      /\ ActionRecs(ac) = ActionRecs(x) \cup {r}
      /\ BeingSent(ac) = BeingSent(x)
      /\ Ordered(ac)
  BY <1>3, <1>6, <1>7 DEF EventRecs, ActionRecs, BeingSent, Ordered
<1>9. /\ EventRecs(ev) \cap ActionRecs(ev) = {}
      /\ EventRecs(ac) \cap ActionRecs(ac) = {}
  BY <1>1, <1>2, <1>8 DEF Sound
<1>10. Sound(ev) /\ Sound(ac)
  BY <1>7, <1>8, <1>9 DEF Sound
<1> QED BY <1>8, <1>10 DEF Recs, ev, ac, r

(* copyDataForSending moves everything cached to the lists being sent. *)
LEMMA CopyContents ==
    ASSUME NEW n \in Nat, NEW x \in EntryType(n), Sound(x), ~hasDataToSend(x)
    PROVE  Without(x, copyDataForSending(x), {})
<1> DEFINE new == copyDataForSending(x)
           E == x.mEventData
           A == x.mActionData
<1>1. /\ x.mEventDataBeingSent = <<>> /\ x.mActionDataBeingSent = <<>>
      /\ E \in Seq(1..n) /\ A \in Seq(1..n)
  BY DEF hasDataToSend, EntryType
<1>2. E \o <<>> = E /\ A \o <<>> = A /\ <<>> \o E = E /\ <<>> \o A = A
  BY <1>1
<1>3. /\ new.mEventData = <<>>
      /\ new.mActionData = <<>>
      /\ new.mEventDataBeingSent = E
      /\ new.mActionDataBeingSent = A
      /\ new.marked = x.marked
  BY <1>1, <1>2 DEF copyDataForSending
<1>4. SeqRange(<<>>) = {}
  BY DEF SeqRange
<1> HIDE DEF new
<1>5. EventRecs(new) = EventRecs(x) /\ ActionRecs(new) = ActionRecs(x)
  BY <1>1, <1>3, <1>4 DEF EventRecs, ActionRecs
<1>6. Ordered(new)
  BY <1>1, <1>2, <1>3 DEF Sound, Ordered
<1>7. x.marked = {}
  BY <1>1, <1>4 DEF Sound, BeingSent
<1> QED BY <1>3, <1>5, <1>6, <1>7 DEF Without, Sound, new

(* getNextChunk marks records being sent and moves none. *)
LEMMA ChunkContents ==
    ASSUME NEW n \in Nat, NEW rs, NEW x \in EntryType(n), Sound(x)
    PROVE  Without(x, getNextChunk(rs, x), {})
<1> DEFINE sent == x.mEventDataBeingSent
           events == chunkifyDataList(rs, PrefixLength, sent)
           length == PrefixLength
                     + ChunkLength(rs, SubSeq(sent, 1, Cardinality(events)))
           actions == chunkifyDataList(rs, length, x.mActionDataBeingSent)
           new == getNextChunk(rs, x)
<1>1. ASSUME NEW s, NEW len
      PROVE  chunkifyDataList(rs, len, s) \subseteq SeqRange(s)
  BY DEF chunkifyDataList, SeqRange
<1>2. events \subseteq BeingSent(x) /\ actions \subseteq BeingSent(x)
  BY <1>1 DEF BeingSent
<1>3. new = [x EXCEPT !.marked = @ \cup events \cup actions]
  BY DEF getNextChunk
<1> HIDE DEF events, actions, new
<1>4. /\ new.mEventData = x.mEventData
      /\ new.mActionData = x.mActionData
      /\ new.mEventDataBeingSent = x.mEventDataBeingSent
      /\ new.mActionDataBeingSent = x.mActionDataBeingSent
      /\ new.marked = x.marked \cup events \cup actions
  BY <1>3 DEF EntryType
<1> QED BY <1>2, <1>4 DEF Without, Sound, Ordered, EventRecs, ActionRecs, BeingSent, new

(* removeDataMarkedForSending removes the marked records. *)
LEMMA RemoveContents ==
    ASSUME NEW n \in Nat, NEW x \in EntryType(n), Sound(x)
    PROVE  Without(x, removeDataMarkedForSending(x), x.marked)
<1> DEFINE new == removeDataMarkedForSending(x)
           M == x.marked
           E == x.mEventData
           A == x.mActionData
           ES == x.mEventDataBeingSent
           AS == x.mActionDataBeingSent
<1>1. /\ E \in Seq(1..n) /\ A \in Seq(1..n) /\ ES \in Seq(1..n) /\ AS \in Seq(1..n)
      /\ Increasing(ES) /\ Increasing(E) /\ Below(SeqRange(ES), SeqRange(E))
      /\ Increasing(AS) /\ Increasing(A) /\ Below(SeqRange(AS), SeqRange(A))
  BY SoundLists DEF Sound
<1>2. /\ new.mEventData = E
      /\ new.mActionData = A
      /\ new.mEventDataBeingSent = Erase(ES, M)
      /\ new.mActionDataBeingSent = Erase(AS, M)
      /\ new.marked = {}
  BY DEF removeDataMarkedForSending, EntryType
<1>3. /\ SeqRange(Erase(ES, M)) = SeqRange(ES) \ M
      /\ SeqRange(Erase(AS, M)) = SeqRange(AS) \ M
      /\ Increasing(Erase(ES, M)) /\ Increasing(Erase(AS, M))
  BY <1>1, IncreasingErase
<1>4. Below(SeqRange(ES) \ M, SeqRange(E)) /\ Below(SeqRange(AS) \ M, SeqRange(A))
  BY <1>1 DEF Below
<1>5. /\ Erase(ES, M) \in Seq(1..n) /\ Erase(AS, M) \in Seq(1..n)
  BY <1>1, EraseType
<1> HIDE DEF new
<1>6. Ordered(new)
  <2>1. Increasing(Erase(ES, M) \o E)
    BY <1>1, <1>3, <1>4, <1>5, IncreasingConcat
  <2>2. Increasing(Erase(AS, M) \o A)
    BY <1>1, <1>3, <1>4, <1>5, IncreasingConcat
  <2> QED BY <1>2, <2>1, <2>2 DEF Ordered
<1>7. SeqRange(E) \cap M = {} /\ SeqRange(A) \cap M = {}
  <2>1. /\ SeqRange(E) \in SUBSET (1..n) /\ SeqRange(A) \in SUBSET (1..n)
        /\ SeqRange(ES) \in SUBSET (1..n) /\ SeqRange(AS) \in SUBSET (1..n)
    BY <1>1, RangeOf
  <2>2. SeqRange(ES) \cap SeqRange(E) = {} /\ SeqRange(AS) \cap SeqRange(A) = {}
    BY <1>1, <2>1, BelowDisjoint
  <2> QED BY <2>2 DEF Sound, EventRecs, ActionRecs, BeingSent
<1>8. EventRecs(new) = EventRecs(x) \ M /\ ActionRecs(new) = ActionRecs(x) \ M
  BY <1>2, <1>3, <1>7 DEF EventRecs, ActionRecs
<1> QED BY <1>2, <1>6, <1>8 DEF Without, Sound, new

(* resetDataMarkedForSending brings back every record being sent, in order. *)
LEMMA ResetContents ==
    ASSUME NEW n \in Nat, NEW rs, NEW x \in EntryType(n), Sound(x)
    PROVE  Without(x, resetDataMarkedForSending(rs, x), {})
<1> DEFINE new == resetDataMarkedForSending(rs, x)
           E == x.mEventData
           A == x.mActionData
           ES == x.mEventDataBeingSent
           AS == x.mActionDataBeingSent
<1>1. E \in Seq(1..n) /\ A \in Seq(1..n) /\ ES \in Seq(1..n) /\ AS \in Seq(1..n)
  BY SoundLists
<1>2. /\ new.mEventData = ES \o E
      /\ new.mActionData = AS \o A
      /\ new.mEventDataBeingSent = <<>>
      /\ new.mActionDataBeingSent = <<>>
      /\ new.marked = {}
  BY DEF resetDataMarkedForSending
<1>3. /\ SeqRange(ES \o E) = SeqRange(ES) \cup SeqRange(E)
      /\ SeqRange(AS \o A) = SeqRange(AS) \cup SeqRange(A)
      /\ SeqRange(<<>>) = {}
  BY <1>1, RangeConcat, RangeOf
<1>4. <<>> \o (ES \o E) = ES \o E /\ <<>> \o (AS \o A) = AS \o A
  <2>1. ES \o E \in Seq(1..n) /\ AS \o A \in Seq(1..n)
    BY <1>1
  <2> QED BY <2>1
<1> HIDE DEF new
<1>5. Ordered(new)
  BY <1>2, <1>4 DEF Sound, Ordered
<1>6. EventRecs(new) = EventRecs(x) /\ ActionRecs(new) = ActionRecs(x)
  BY <1>2, <1>3 DEF EventRecs, ActionRecs
<1> QED BY <1>2, <1>5, <1>6 DEF Without, Sound, new

(***************************************************************************)
(* Removing records from the cached lists: what remains of them is ordered *)
(* and the rest of the entry is as before.                                 *)
(***************************************************************************)
LEMMA EvictedContents ==
    ASSUME NEW n \in Nat, NEW x \in EntryType(n), Sound(x),
           NEW new \in EntryType(n),
           new.mEventDataBeingSent = x.mEventDataBeingSent,
           new.mActionDataBeingSent = x.mActionDataBeingSent,
           new.marked = x.marked,
           Increasing(new.mEventData), Increasing(new.mActionData),
           SeqRange(new.mEventData) \subseteq SeqRange(x.mEventData),
           SeqRange(new.mActionData) \subseteq SeqRange(x.mActionData)
    PROVE  Without(x, new, Cached(x) \ Cached(new))
<1> DEFINE E == SeqRange(x.mEventData)
           A == SeqRange(x.mActionData)
           ES == SeqRange(x.mEventDataBeingSent)
           AS == SeqRange(x.mActionDataBeingSent)
           F == SeqRange(new.mEventData)
           B == SeqRange(new.mActionData)
<1>1. /\ Below(ES, E) /\ Below(AS, A)
      /\ Increasing(x.mEventDataBeingSent) /\ Increasing(x.mActionDataBeingSent)
  BY SoundLists DEF Sound
<1>2. Below(ES, F) /\ Below(AS, B)
  BY <1>1 DEF Below
<1>3. Ordered(new)
  BY <1>1, <1>2, SoundLists
<1>4. /\ E \in SUBSET (1..n) /\ A \in SUBSET (1..n)
      /\ ES \in SUBSET (1..n) /\ AS \in SUBSET (1..n)
  BY RangeOf, SoundLists
<1>5. ES \cap E = {} /\ AS \cap A = {}
  BY <1>1, <1>4, BelowDisjoint
<1>6. (ES \cup E) \cap (AS \cup A) = {}
  BY DEF Sound, EventRecs, ActionRecs
<1>7. /\ EventRecs(x) = ES \cup E /\ ActionRecs(x) = AS \cup A
      /\ EventRecs(new) = ES \cup F /\ ActionRecs(new) = AS \cup B
      /\ BeingSent(new) = BeingSent(x)
      /\ Cached(x) = E \cup A /\ Cached(new) = F \cup B
  BY DEF EventRecs, ActionRecs, BeingSent, Cached
<1> HIDE DEF E, A, ES, AS, F, B
<1>8. F \subseteq E /\ B \subseteq A
  BY DEF E, A, F, B
<1>9. /\ EventRecs(new) = EventRecs(x) \ (Cached(x) \ Cached(new))
      /\ ActionRecs(new) = ActionRecs(x) \ (Cached(x) \ Cached(new))
  BY <1>5, <1>6, <1>7, <1>8
<1>10. EventRecs(new) \cap ActionRecs(new) = {}
  BY <1>6, <1>7, <1>8
<1>11. new.marked \subseteq BeingSent(new)
  BY <1>7 DEF Sound
<1> QED BY <1>3, <1>9, <1>10, <1>11 DEF Without, Sound

(* removeOldestRecords removes at most one record, the first of a list. *)
LEMMA OldestContents ==
    ASSUME NEW n \in Nat, NEW rs, NEW x \in EntryType(n), Sound(x)
    PROVE  LET new == removeOldestRecords(rs, x)
           IN  Without(x, new, Cached(x) \ Cached(new))
<1> DEFINE new == removeOldestRecords(rs, x)
           E == x.mEventData
           A == x.mActionData
<1>1. /\ E \in Seq(1..n) /\ A \in Seq(1..n)
      /\ Increasing(E) /\ Increasing(A)
  BY SoundLists DEF Sound
<1>2. CASE E = <<>> /\ A = <<>>
  <2>1. new = x
    BY <1>2 DEF removeOldestRecords
  <2> HIDE DEF new
  <2> QED BY <1>1, <2>1, EvictedContents DEF new
<1>3. CASE EventIsOlder(rs, x)
  <2>1. E # <<>>
    BY <1>3 DEF EventIsOlder
  <2>2. new = [x EXCEPT !.mEventData = Tail(E)]
    BY <1>3, <2>1 DEF removeOldestRecords
  <2>a. Tail(E) \in Seq(1..n)
    BY <2>1 DEF EntryType
  <2>b. Increasing(Tail(E)) /\ SeqRange(Tail(E)) = SeqRange(E) \ {Head(E)}
    BY <1>1, <2>1, IncreasingTail
  <2>3. /\ Tail(E) \in Seq(1..n)
        /\ Increasing(Tail(E))
        /\ SeqRange(Tail(E)) \subseteq SeqRange(E)
    BY <2>a, <2>b, Zenon
  <2> HIDE DEF new
  <2>4. /\ new \in EntryType(n)
        /\ new.mEventData = Tail(E)
        /\ new.mActionData = A
        /\ new.mEventDataBeingSent = x.mEventDataBeingSent
        /\ new.mActionDataBeingSent = x.mActionDataBeingSent
        /\ new.marked = x.marked
    BY <2>2, <2>3 DEF EntryType
  <2> QED BY <1>1, <2>3, <2>4, EvictedContents DEF new
<1>4. CASE ~(E = <<>> /\ A = <<>>) /\ ~EventIsOlder(rs, x)
  <2>1. A # <<>>
    BY <1>4, Zenon DEF EventIsOlder
  <2>2. new = [x EXCEPT !.mActionData = Tail(A)]
    BY <1>4 DEF removeOldestRecords
  <2>a. Tail(A) \in Seq(1..n)
    BY <2>1 DEF EntryType
  <2>b. Increasing(Tail(A)) /\ SeqRange(Tail(A)) = SeqRange(A) \ {Head(A)}
    BY <1>1, <2>1, IncreasingTail
  <2>3. /\ Tail(A) \in Seq(1..n)
        /\ Increasing(Tail(A))
        /\ SeqRange(Tail(A)) \subseteq SeqRange(A)
    BY <2>a, <2>b, Zenon
  <2> HIDE DEF new
  <2>4. /\ new \in EntryType(n)
        /\ new.mEventData = E
        /\ new.mActionData = Tail(A)
        /\ new.mEventDataBeingSent = x.mEventDataBeingSent
        /\ new.mActionDataBeingSent = x.mActionDataBeingSent
        /\ new.marked = x.marked
    BY <2>2, <2>3 DEF EntryType
  <2> QED BY <1>1, <2>3, <2>4, EvictedContents DEF new
<1> QED BY <1>2, <1>3, <1>4

(* removeRecordsOlderThan removes cached records and keeps the order. *)
LEMMA AgeContents ==
    ASSUME NEW n \in Nat, NEW rs, NEW m, NEW x \in EntryType(n), Sound(x)
    PROVE  LET new == removeRecordsOlderThan(rs, x, m)
           IN  Without(x, new, Cached(x) \ Cached(new))
<1> DEFINE new == removeRecordsOlderThan(rs, x, m)
           E == Erase(x.mEventData, TooOld(rs, m))
           A == Erase(x.mActionData, TooOld(rs, m))
<1>1. /\ x.mEventData \in Seq(1..n) /\ x.mActionData \in Seq(1..n)
      /\ Increasing(x.mEventData) /\ Increasing(x.mActionData)
  BY SoundLists DEF Sound
<1>2. E \in Seq(1..n) /\ A \in Seq(1..n)
  BY <1>1, EraseType
<1>3. /\ Increasing(E) /\ Increasing(A)
      /\ SeqRange(E) \subseteq SeqRange(x.mEventData)
      /\ SeqRange(A) \subseteq SeqRange(x.mActionData)
  BY <1>1, IncreasingErase
<1>4. new = [x EXCEPT !.mEventData = E, !.mActionData = A]
  BY DEF removeRecordsOlderThan
<1> HIDE DEF new, E, A
<1>5. /\ new \in EntryType(n)
      /\ new.mEventData = E
      /\ new.mActionData = A
      /\ new.mEventDataBeingSent = x.mEventDataBeingSent
      /\ new.mActionDataBeingSent = x.mActionDataBeingSent
      /\ new.marked = x.marked
  BY <1>2, <1>4 DEF EntryType
<1> QED BY <1>3, <1>5, EvictedContents DEF new

------------------------------------------------------------------------------
(***************************************************************************)
(* Where the records are: the entries are sound, no two hold the same      *)
(* record, none holds one that was acknowledged or evicted, no record was  *)
(* both, and every record is somewhere.                                    *)
(***************************************************************************)
EntriesSound == \A e \in EntryIds : Sound(entries[e])

HeldOnce == \A d, e \in EntryIds :
                d # e => Recs(entries[d]) \cap Recs(entries[e]) = {}

HeldOrGone == /\ \A e \in EntryIds : Recs(entries[e]) \cap (acked \cup evicted) = {}
              /\ acked \cap evicted = {}

Somewhere == \A r \in 1..Len(records) :
                r \in acked \cup evicted \/ \E e \in EntryIds : r \in Recs(entries[e])

RecordsInv == EntriesSound /\ HeldOnce /\ HeldOrGone /\ Somewhere

(* A step that takes the records `gone' out of one entry, as acknowledged or
   as evicted, preserves the invariant. *)
LEMMA ContentsReplaced ==
    ASSUME CacheInv, RecordsInv, NEW e \in EntryIds, NEW new, NEW gone,
           Without(entries[e], new, gone), gone \subseteq Recs(entries[e]),
           entries' = [entries EXCEPT ![e] = new], records' = records,
           \/ acked' = acked \cup gone /\ evicted' = evicted
           \/ evicted' = evicted \cup gone /\ acked' = acked
    PROVE  RecordsInv'
<1> DEFINE n == Len(entries)
<1>1. /\ Len(entries') = n
      /\ EntryIds' = EntryIds
      /\ entries'[e] = new
      /\ \A d \in EntryIds : d # e => entries'[d] = entries[d]
  BY DEF CacheInv, TypeOK, EntryIds
<1>2. Sound(new) /\ Recs(new) = Recs(entries[e]) \ gone
  BY DEF Without, Recs
<1>3. \A d \in EntryIds : Recs(entries'[d]) \subseteq Recs(entries[d]) \ gone
  <2>1. \A d \in EntryIds : d # e => Recs(entries[d]) \cap gone = {}
    BY DEF RecordsInv, HeldOnce
  <2> QED BY <1>1, <1>2, <2>1
<1>4. acked' \cup evicted' = acked \cup evicted \cup gone
  OBVIOUS
<1>5. EntriesSound'
  BY <1>1, <1>2 DEF RecordsInv, EntriesSound
<1>6. HeldOnce'
  <2> SUFFICES ASSUME NEW c \in EntryIds, NEW d \in EntryIds, c # d
               PROVE  Recs(entries'[c]) \cap Recs(entries'[d]) = {}
    BY <1>1 DEF HeldOnce
  <2>1. Recs(entries[c]) \cap Recs(entries[d]) = {}
    BY DEF RecordsInv, HeldOnce
  <2> QED BY <1>3, <2>1
<1>7. HeldOrGone'
  <2>1. acked' \cap evicted' = {}
    BY DEF RecordsInv, HeldOrGone
  <2>2. ASSUME NEW d \in EntryIds
        PROVE  Recs(entries'[d]) \cap (acked' \cup evicted') = {}
    BY <1>3, <1>4 DEF RecordsInv, HeldOrGone
  <2> QED BY <1>1, <2>1, <2>2 DEF HeldOrGone
<1>8. Somewhere'
  <2> SUFFICES ASSUME NEW r \in 1..Len(records), r \notin acked' \cup evicted'
               PROVE  \E d \in EntryIds : r \in Recs(entries'[d])
    BY <1>1 DEF Somewhere
  <2>1. r \notin acked \cup evicted /\ r \notin gone
    BY <1>4
  <2>2. PICK d \in EntryIds : r \in Recs(entries[d])
    BY <2>1 DEF RecordsInv, Somewhere
  <2>3. r \in Recs(entries'[d])
    BY <1>1, <1>2, <2>1, <2>2
  <2> QED BY <2>3
<1> QED BY <1>5, <1>6, <1>7, <1>8 DEF RecordsInv

(* A step that takes no record out of an entry preserves the invariant. *)
LEMMA ContentsMoved ==
    ASSUME CacheInv, RecordsInv, NEW e \in EntryIds, NEW new,
           Without(entries[e], new, {}),
           entries' = [entries EXCEPT ![e] = new],
           records' = records, acked' = acked, evicted' = evicted
    PROVE  RecordsInv'
<1>1. PICK gone : gone = {}
  OBVIOUS
<1>2. /\ Without(entries[e], new, gone)
      /\ gone \subseteq Recs(entries[e])
      /\ acked' = acked \cup gone
  BY <1>1
<1> QED BY <1>2, ContentsReplaced

(* A new entry and a new record in it preserve the invariant. *)
LEMMA ContentsGrow ==
    ASSUME CacheInv, RecordsInv,
           \E t \in AppThreads : AddInsert(t) \/ AddAppend(t)
    PROVE  RecordsInv'
<1>0. PICK t \in AppThreads : AddInsert(t) \/ AddAppend(t)
  OBVIOUS
<1>1. CASE AddInsert(t) /\ mBeacons[call[t].key] # 0
  BY <1>1 DEF AddInsert, RecordsInv, EntriesSound, HeldOnce, HeldOrGone, Somewhere, EntryIds
<1>2. CASE AddInsert(t) /\ mBeacons[call[t].key] = 0
  <2> DEFINE e == Len(entries) + 1
  <2>1. /\ entries' = Append(entries, EmptyEntry)
        /\ UNCHANGED <<records, acked, evicted>>
    BY <1>2 DEF AddInsert
  <2>2. /\ EntryIds' = EntryIds \cup {e}
        /\ e \notin EntryIds
        /\ entries'[e] = EmptyEntry
        /\ \A d \in EntryIds : entries'[d] = entries[d]
    BY <2>1 DEF CacheInv, TypeOK, EntryIds
  <2>3. Sound(entries'[e]) /\ Recs(entries'[e]) = {}
    BY <2>2, EmptyContents
  <2> HIDE DEF e
  <2>4. EntriesSound'
    BY <2>2, <2>3 DEF RecordsInv, EntriesSound
  <2>5. HeldOnce'
    BY <2>2, <2>3 DEF RecordsInv, HeldOnce
  <2>6. HeldOrGone'
    BY <2>1, <2>2, <2>3 DEF RecordsInv, HeldOrGone
  <2>7. Somewhere'
    BY <2>1, <2>2 DEF RecordsInv, Somewhere
  <2> QED BY <2>4, <2>5, <2>6, <2>7 DEF RecordsInv
<1>3. CASE AddAppend(t)
  <2> DEFINE c == call[t]
             e == c.entry
             n == Len(records)
             new == IF c.list = "event" THEN addEventData(entries[e], n + 1, c.size)
                    ELSE addActionData(entries[e], n + 1, c.size)
  <2>1. /\ e \in EntryIds
        /\ n \in Nat
        /\ entries[e] \in EntryType(n)
        /\ Sound(entries[e])
    BY <1>3 DEF AddAppend, CacheInv, TypeOK, CallRefs, EntryIds, RecordsInv, EntriesSound
  <2>2. Sound(new) /\ Recs(new) = Recs(entries[e]) \cup {n + 1}
    BY <2>1, AddContents
  <2>3. /\ entries' = [entries EXCEPT ![e] = new]
        /\ UNCHANGED <<acked, evicted>>
        /\ Len(records') = n + 1
    BY <1>3 DEF AddAppend, CacheInv, TypeOK
  <2> HIDE DEF new
  <2>4. /\ EntryIds' = EntryIds
        /\ entries'[e] = new
        /\ \A d \in EntryIds : d # e => entries'[d] = entries[d]
    BY <2>1, <2>3 DEF CacheInv, TypeOK, EntryIds
  <2>5. \A d \in EntryIds : Recs(entries[d]) \subseteq 1..n
    <3> SUFFICES ASSUME NEW d \in EntryIds PROVE Recs(entries[d]) \subseteq 1..n
      OBVIOUS
    <3>1. entries[d] \in EntryType(n)
      BY DEF CacheInv, TypeOK, EntryIds
    <3> QED BY <2>1, <3>1, SoundLists DEF Recs
  <2>6. n + 1 \notin 1..n
    BY <2>1
  <2>7. EntriesSound'
    BY <2>2, <2>4 DEF RecordsInv, EntriesSound
  <2>8. HeldOnce'
    <3> SUFFICES ASSUME NEW d \in EntryIds, d # e
                 PROVE  Recs(entries'[d]) \cap Recs(entries'[e]) = {}
      BY <2>1, <2>4 DEF RecordsInv, HeldOnce
    <3>1. Recs(entries[d]) \cap Recs(entries[e]) = {}
      BY <2>1 DEF RecordsInv, HeldOnce
    <3> QED BY <2>2, <2>4, <2>5, <2>6, <3>1
  <2>9. HeldOrGone'
    <3>1. acked \cup evicted \subseteq 1..n
      BY DEF CacheInv, TypeOK
    <3>2. Recs(new) \cap (acked \cup evicted) = {}
      BY <2>1, <2>2, <2>6, <3>1 DEF RecordsInv, HeldOrGone
    <3> QED BY <2>3, <2>4, <3>2 DEF RecordsInv, HeldOrGone
  <2>10. Somewhere'
    <3> SUFFICES ASSUME NEW r \in 1..(n + 1), r \notin acked \cup evicted
                 PROVE  \E d \in EntryIds : r \in Recs(entries'[d])
      BY <2>3, <2>4 DEF Somewhere
    <3>1. CASE r = n + 1
      BY <2>1, <2>2, <2>4, <3>1
    <3>2. CASE r \in 1..n
      <4>1. PICK d \in EntryIds : r \in Recs(entries[d])
        BY <3>2 DEF RecordsInv, Somewhere
      <4>2. r \in Recs(entries'[d])
        BY <2>2, <2>4, <4>1
      <4> QED BY <4>2
    <3> QED BY <2>1, <3>1, <3>2
  <2> QED BY <2>7, <2>8, <2>9, <2>10 DEF RecordsInv
<1> QED BY <1>0, <1>1, <1>2, <1>3

(* The sender's steps on the entry it is sending preserve the invariant: they
   take out of it what the server has acknowledged, and nothing else. *)
LEMMA ContentsSent ==
    ASSUME CacheInv, RecordsInv, SendCopy \/ SendChunk \/ SendOk \/ SendFail
    PROVE  RecordsInv'
<1> DEFINE e == mBeacons[snd.key]
           x == entries[e]
           n == Len(records)
<1>1. /\ n \in Nat
      /\ snd.key \in Keys
      /\ e \in EntryIds
      /\ x \in EntryType(n)
      /\ Sound(x)
  BY DEF CacheInv, TypeOK, SndRefs, EntryIds, RecordsInv, EntriesSound,
         SendCopy, SendChunk, SendOk, SendFail, SndHasData
<1>2. CASE SendCopy
  <2>1. ~hasDataToSend(x)
    BY <1>1, <1>2 DEF SendCopy, CacheInv, SendingOnly
  <2>2. /\ entries' = [entries EXCEPT ![e] = copyDataForSending(x)]
        /\ UNCHANGED <<records, acked, evicted>>
    BY <1>2 DEF SendCopy, sndUnchanged
  <2>3. Without(x, copyDataForSending(x), {})
    BY <1>1, <2>1, CopyContents
  <2> QED BY <1>1, <2>2, <2>3, ContentsMoved
<1>3. CASE SendChunk
  <2>2. /\ entries' = [entries EXCEPT ![e] = getNextChunk(records, x)]
        /\ UNCHANGED <<records, acked, evicted>>
    BY <1>3 DEF SendChunk, sndUnchanged
  <2>3. Without(x, getNextChunk(records, x), {})
    BY <1>1, ChunkContents
  <2> QED BY <1>1, <2>2, <2>3, ContentsMoved
<1>4. CASE SendOk
  <2>2. /\ entries' = [entries EXCEPT ![e] = removeDataMarkedForSending(x)]
        /\ acked' = acked \cup x.marked
        /\ UNCHANGED <<records, evicted>>
    BY <1>4 DEF SendOk, sndUnchanged, SndEntry
  <2>3. Without(x, removeDataMarkedForSending(x), x.marked)
    BY <1>1, RemoveContents
  <2>4. x.marked \subseteq Recs(x)
    BY <1>1 DEF Sound, BeingSent, Recs, EventRecs, ActionRecs
  <2> QED BY <1>1, <2>2, <2>3, <2>4, ContentsReplaced
<1>5. CASE SendFail
  <2>2. /\ entries' = [entries EXCEPT ![e] = resetDataMarkedForSending(records, x)]
        /\ UNCHANGED <<records, acked, evicted>>
    BY <1>5 DEF SendFail, sndUnchanged, SndEntry
  <2>3. Without(x, resetDataMarkedForSending(records, x), {})
    BY <1>1, ResetContents
  <2> QED BY <1>1, <2>2, <2>3, ContentsMoved
<1> QED BY <1>2, <1>3, <1>4, <1>5

(* Eviction preserves the invariant: what it takes out of an entry is counted
   as evicted. *)
LEMMA ContentsEvicted ==
    ASSUME CacheInv, RecordsInv, EvictionStep
    PROVE  RecordsInv'
<1>1. PICK e \in EntryIds : \/ evictRecordsByNumber(e)
                           \/ \E m \in 1..clock : evictRecordsByAge(e, m)
  BY DEF EvictionStep
<1> DEFINE x == entries[e]
           n == Len(records)
<1>2. n \in Nat /\ x \in EntryType(n) /\ Sound(x)
  BY DEF CacheInv, TypeOK, EntryIds, RecordsInv, EntriesSound
<1>3. PICK new : Evict(e, new) /\ Without(x, new, Cached(x) \ Cached(new))
  <2>1. CASE evictRecordsByNumber(e)
    BY <1>2, <2>1, OldestContents DEF evictRecordsByNumber
  <2>2. CASE \E m \in 1..clock : evictRecordsByAge(e, m)
    BY <1>2, <2>2, AgeContents DEF evictRecordsByAge
  <2> QED BY <1>1, <2>1, <2>2
<1>4. /\ entries' = [entries EXCEPT ![e] = new]
      /\ evicted' = evicted \cup (Cached(x) \ Cached(new))
      /\ UNCHANGED <<records, acked>>
  BY <1>3 DEF Evict
<1>5. Cached(x) \ Cached(new) \subseteq Recs(x)
  BY DEF Cached, Recs, EventRecs, ActionRecs
<1> QED BY <1>2, <1>3, <1>4, <1>5, ContentsReplaced

(* Every step preserves the invariant. *)
LEMMA NextRecordsInv == CacheInv /\ RecordsInv /\ [Next]_cacheVars => RecordsInv'
<1> SUFFICES ASSUME CacheInv, RecordsInv, [Next]_cacheVars PROVE RecordsInv'
  OBVIOUS
<1>1. ASSUME UNCHANGED <<entries, records, acked, evicted>> PROVE RecordsInv'
  BY <1>1 DEF RecordsInv, EntriesSound, HeldOnce, HeldOrGone, Somewhere, EntryIds
<1>2. CASE AddStep
  <2>1. ASSUME NEW t \in AppThreads,
               \/ \E k \in Keys, list \in {"event", "action"}, timestamp \in 0..clock, size \in 1..MaxSize :
                     AddLookup(t, k, list, timestamp, size)
               \/ AddCount(t)
        PROVE  UNCHANGED <<entries, records, acked, evicted>>
    BY <2>1 DEF AddLookup, AddCount
  <2> QED BY <1>1, <1>2, <2>1, ContentsGrow DEF AddStep
<1>3. CASE SendStep
  <2>1. ASSUME SendCopyCount \/ SendDone \/ SendResetCount
        PROVE  UNCHANGED <<entries, records, acked, evicted>>
    BY <2>1 DEF SendCopyCount, SendDone, SendResetCount, sndUnchanged
  <2> QED BY <1>1, <1>3, <2>1, ContentsSent DEF SendStep
<1>4. CASE \/ Tick
           \/ \E k \in Keys : SendBegin(k) \/ deleteCacheEntry(k)
           \/ NotifyStep
  BY <1>1, <1>4 DEF Tick, SendBegin, deleteCacheEntry, NotifyStep, SendResetNotify,
                    AddNotify, sndUnchanged
<1>5. CASE EvictionStep
  BY <1>5, ContentsEvicted
<1>6. CASE UNCHANGED cacheVars
  BY <1>1, <1>6 DEF cacheVars
<1> QED BY <1>2, <1>3, <1>4, <1>5, <1>6 DEF Next, ClientStep

(* The invariant about the records holds throughout. *)
LEMMA RecordsInvariant == Spec => []RecordsInv
<1>1. Init => RecordsInv
  BY DEF Init, RecordsInv, EntriesSound, HeldOnce, HeldOrGone, Somewhere, EntryIds
<1> QED BY <1>1, NextRecordsInv, CacheInvariant, PTL DEF Spec

(***************************************************************************)
(* The lists of every entry keep the order of the appends, whatever is     *)
(* copied, sent, brought back or evicted: data reaches the server in the   *)
(* order it was captured.                                                  *)
(***************************************************************************)
THEOREM OrderKept == Spec => []KeptOrder
<1>1. RecordsInv => KeptOrder
  BY DEF RecordsInv, EntriesSound, Sound, Ordered, KeptOrder
<1> QED BY <1>1, RecordsInvariant, PTL

(* An increasing list of records is no longer than there are records. *)
LEMMA IncreasingLength ==
    ASSUME NEW n \in Nat, NEW s \in Seq(1..n), Increasing(s)
    PROVE  Len(s) <= n
<1>1. s \in [1..Len(s) -> 1..n] /\ Len(s) \in Nat
  OBVIOUS
<1>2. \A i, j \in 1..Len(s) : s[i] = s[j] => i = j
  <2> SUFFICES ASSUME NEW i \in 1..Len(s), NEW j \in 1..Len(s), s[i] = s[j], i # j
               PROVE  FALSE
    OBVIOUS
  <2>1. i < j \/ j < i
    OBVIOUS
  <2>2. s[i] < s[j] \/ s[j] < s[i]
    BY <1>1, <2>1 DEF Increasing
  <2> QED BY <1>1, <2>2
<1>3. s \in Injection(1..Len(s), 1..n)
  BY <1>1, <1>2 DEF Injection, IsInjective
<1>4. /\ IsFiniteSet(1..n) /\ Cardinality(1..n) = n
      /\ Cardinality(1..Len(s)) = Len(s)
  <2>1. ASSUME NEW m \in Nat PROVE IsFiniteSet(1..m) /\ Cardinality(1..m) = m
    BY FS_Interval
  <2> QED BY <1>1, <2>1
<1> QED BY <1>3, <1>4, FS_Injection

(* The four lists of a sound entry hold its records, each at one position. *)
LEMMA ListsOfEntry ==
    ASSUME NEW n \in Nat, NEW x \in EntryType(n), Sound(x)
    PROVE  /\ \A f \in ListNames : /\ x[f] \in Seq(1..n)
                                  /\ Len(x[f]) <= n
                                  /\ Increasing(x[f])
                                  /\ SeqRange(x[f]) \subseteq Recs(x)
           /\ \A r \in Recs(x) : \E f \in ListNames : r \in SeqRange(x[f])
           /\ \A f, g \in ListNames : f # g => SeqRange(x[f]) \cap SeqRange(x[g]) = {}
<1> DEFINE E == SeqRange(x.mEventData)
           A == SeqRange(x.mActionData)
           ES == SeqRange(x.mEventDataBeingSent)
           AS == SeqRange(x.mActionDataBeingSent)
<1>1. /\ x.mEventData \in Seq(1..n) /\ x.mActionData \in Seq(1..n)
      /\ x.mEventDataBeingSent \in Seq(1..n) /\ x.mActionDataBeingSent \in Seq(1..n)
      /\ Increasing(x.mEventData) /\ Increasing(x.mActionData)
      /\ Increasing(x.mEventDataBeingSent) /\ Increasing(x.mActionDataBeingSent)
      /\ Below(ES, E) /\ Below(AS, A)
  BY SoundLists DEF Sound
<1>2. /\ E \in SUBSET (1..n) /\ A \in SUBSET (1..n)
      /\ ES \in SUBSET (1..n) /\ AS \in SUBSET (1..n)
  BY <1>1, RangeOf
<1>3. ES \cap E = {} /\ AS \cap A = {}
  BY <1>1, <1>2, BelowDisjoint
<1>4. Recs(x) = E \cup A \cup ES \cup AS /\ (ES \cup E) \cap (AS \cup A) = {}
  BY DEF Recs, EventRecs, ActionRecs, Sound
<1>5. /\ Len(x.mEventData) <= n /\ Len(x.mActionData) <= n
      /\ Len(x.mEventDataBeingSent) <= n /\ Len(x.mActionDataBeingSent) <= n
  BY <1>1, IncreasingLength
<1> HIDE DEF E, A, ES, AS
<1>6. ASSUME NEW f \in ListNames
      PROVE  /\ x[f] \in Seq(1..n)
             /\ Len(x[f]) <= n
             /\ Increasing(x[f])
             /\ SeqRange(x[f]) \subseteq Recs(x)
  <2>1. /\ E \subseteq Recs(x) /\ A \subseteq Recs(x)
        /\ ES \subseteq Recs(x) /\ AS \subseteq Recs(x)
    BY <1>4
  <2>2. \/ x[f] = x.mEventData /\ SeqRange(x[f]) = E
        \/ x[f] = x.mActionData /\ SeqRange(x[f]) = A
        \/ x[f] = x.mEventDataBeingSent /\ SeqRange(x[f]) = ES
        \/ x[f] = x.mActionDataBeingSent /\ SeqRange(x[f]) = AS
    BY DEF ListNames, E, A, ES, AS
  <2> QED BY <1>1, <1>5, <2>1, <2>2
<1>7. ASSUME NEW r \in Recs(x)
      PROVE  \E f \in ListNames : r \in SeqRange(x[f])
  BY <1>4 DEF ListNames, E, A, ES, AS
<1>8. ASSUME NEW f \in ListNames, NEW g \in ListNames, f # g
      PROVE  SeqRange(x[f]) \cap SeqRange(x[g]) = {}
  <2>1. /\ E \cap A = {} /\ E \cap AS = {} /\ E \cap ES = {}
        /\ A \cap E = {} /\ A \cap AS = {} /\ A \cap ES = {}
        /\ ES \cap E = {} /\ ES \cap A = {} /\ ES \cap AS = {}
        /\ AS \cap E = {} /\ AS \cap A = {} /\ AS \cap ES = {}
    BY <1>3, <1>4
  <2> QED BY <1>8, <2>1 DEF ListNames, E, A, ES, AS
<1> QED BY <1>6, <1>7, <1>8

(***************************************************************************)
(* No captured record is lost or kept twice, in any interleaving of adding,*)
(* sending, deleting and evicting: it is at one position of one list of    *)
(* one entry, or the server has acknowledged it, or it was evicted.        *)
(***************************************************************************)
THEOREM NoRecordLost == Spec => []NothingLost
<1>1. ASSUME CacheInv, RecordsInv PROVE NothingLost
  <2> DEFINE n == Len(records)
  <2>1. /\ n \in Nat
        /\ \A e \in EntryIds : entries[e] \in EntryType(n) /\ Sound(entries[e])
    BY <1>1 DEF CacheInv, TypeOK, EntryIds, RecordsInv, EntriesSound
  <2>2. ASSUME NEW r \in 1..n, NEW p \in Places(r)
        PROVE  /\ p[1] \in EntryIds /\ p[2] \in ListNames /\ p[3] \in 1..n
               /\ p = <<p[1], p[2], p[3]>>
               /\ p[3] \in 1..Len(entries[p[1]][p[2]])
               /\ entries[p[1]][p[2]][p[3]] = r
               /\ r \in SeqRange(entries[p[1]][p[2]])
               /\ r \in Recs(entries[p[1]])
    <3>1. /\ p[1] \in EntryIds /\ p[2] \in ListNames /\ p[3] \in 1..n
          /\ p = <<p[1], p[2], p[3]>>
          /\ p[3] <= Len(entries[p[1]][p[2]])
          /\ entries[p[1]][p[2]][p[3]] = r
      BY DEF Places
    <3>2. /\ entries[p[1]][p[2]] \in Seq(1..n)
          /\ SeqRange(entries[p[1]][p[2]]) \subseteq Recs(entries[p[1]])
      BY <2>1, <3>1, ListsOfEntry
    <3>3. p[3] \in 1..Len(entries[p[1]][p[2]])
      BY <3>1, <3>2
    <3>4. r \in SeqRange(entries[p[1]][p[2]])
      BY <3>1, <3>2, <3>3 DEF SeqRange
    <3> QED BY <3>1, <3>2, <3>3, <3>4
  <2>3. ASSUME NEW r \in 1..n, NEW p \in Places(r), NEW q \in Places(r)
        PROVE  p = q
    <3>1. p[1] = q[1]
      BY <1>1, <2>2 DEF RecordsInv, HeldOnce
    <3>2. p[2] = q[2]
      <4>1. \A f, g \in ListNames : f # g =>
              SeqRange(entries[p[1]][f]) \cap SeqRange(entries[p[1]][g]) = {}
        BY <2>1, <2>2, ListsOfEntry
      <4>2. /\ p[2] \in ListNames /\ r \in SeqRange(entries[p[1]][p[2]])
            /\ q[2] \in ListNames /\ r \in SeqRange(entries[p[1]][q[2]])
        BY <2>2, <3>1
      <4> QED BY <4>1, <4>2, Zenon
    <3> DEFINE list == entries[p[1]][p[2]]
    <3>3. list \in Seq(1..n) /\ Increasing(list)
      BY <2>1, <2>2, ListsOfEntry
    <3>4. /\ p[3] \in 1..Len(list) /\ q[3] \in 1..Len(list)
          /\ list[p[3]] = r /\ list[q[3]] = r
      BY <2>2, <3>1, <3>2
    <3> HIDE DEF list
    <3>5. p[3] = q[3]
      <4>1. ~(p[3] < q[3]) /\ ~(q[3] < p[3])
        BY <3>3, <3>4 DEF Increasing
      <4> QED BY <3>4, <4>1
    <3> QED BY <2>2, <3>1, <3>2, <3>5
  <2>4. ASSUME NEW r \in 1..n, r \in acked \cup evicted
        PROVE  Cardinality(Places(r)) = 0
    <3>1. Places(r) = {}
      BY <1>1, <2>2, <2>4 DEF RecordsInv, HeldOrGone
    <3> QED BY <3>1, FS_EmptySet
  <2>5. ASSUME NEW r \in 1..n, r \notin acked \cup evicted
        PROVE  Cardinality(Places(r)) = 1
    <3>1. PICK e \in EntryIds : r \in Recs(entries[e])
      BY <1>1, <2>5 DEF RecordsInv, Somewhere
    <3>2. PICK f \in ListNames : r \in SeqRange(entries[e][f])
      BY <2>1, <3>1, ListsOfEntry
    <3>3. entries[e][f] \in Seq(1..n) /\ Len(entries[e][f]) <= n
      BY <2>1, ListsOfEntry
    <3>4. PICK i \in 1..Len(entries[e][f]) : entries[e][f][i] = r
      BY <3>2, <3>3 DEF SeqRange
    <3>5. i \in 1..n
      BY <2>1, <3>3
    <3>6. <<e, f, i>> \in Places(r)
      BY <3>3, <3>4, <3>5 DEF Places
    <3>7. Places(r) = {<<e, f, i>>}
      BY <2>3, <3>6
    <3> QED BY <3>7, FS_Singleton
  <2>6. acked \cap evicted = {}
    BY <1>1 DEF RecordsInv, HeldOrGone
  <2>7. ASSUME NEW r \in 1..n
        PROVE  Cardinality(Places(r)) + (IF r \in acked THEN 1 ELSE 0)
                 + (IF r \in evicted THEN 1 ELSE 0) = 1
    BY <2>4, <2>5, <2>6
  <2> QED BY <2>7 DEF NothingLost
<1> QED BY <1>1, CacheInvariant, RecordsInvariant, PTL

------------------------------------------------------------------------------
(***************************************************************************)
(* Sums as cardinalities: the sum of f over S is the number of pairs of a  *)
(* member k of S and a number up to f[k].                                  *)
(***************************************************************************)
Block(k, n) == {k} \X (1..n)

Blocks(S, f) == UNION {Block(k, f[k]) : k \in S}

Total(S, f) == Cardinality(Blocks(S, f))

(* The summands are finite. *)
LEMMA BlockSize ==
    ASSUME NEW k, NEW n \in Nat
    PROVE  IsFiniteSet(Block(k, n)) /\ Cardinality(Block(k, n)) = n
<1>1. IsFiniteSet({k}) /\ Cardinality({k}) = 1
  BY FS_Singleton
<1>2. IsFiniteSet(1..n) /\ Cardinality(1..n) = n
  BY FS_Interval
<1>3. /\ IsFiniteSet({k} \X (1..n))
      /\ Cardinality({k} \X (1..n)) = Cardinality({k}) * Cardinality(1..n)
  BY <1>1, <1>2, FS_Product, Zenon
<1>4. 1 * n = n
  OBVIOUS
<1> QED BY <1>1, <1>2, <1>3, <1>4, Zenon DEF Block

(* A finite sum is a number. *)
LEMMA TotalType ==
    ASSUME NEW S, IsFiniteSet(S), NEW f \in [S -> Nat]
    PROVE  IsFiniteSet(Blocks(S, f)) /\ Total(S, f) \in Nat
<1> DEFINE B == {Block(k, f[k]) : k \in S}
           block == [k \in S |-> Block(k, f[k])]
<1>1. block \in Surjection(S, B)
  BY DEF Surjection
<1>2. IsFiniteSet(B)
  BY <1>1, FS_Surjection
<1>3. \A b \in B : IsFiniteSet(b)
  BY BlockSize
<1> HIDE DEF B
<1>4. IsFiniteSet(UNION B)
  BY <1>2, <1>3, FS_UNION
<1> QED BY <1>4, FS_CardinalityType DEF B, Blocks, Total

(* The summand of one element can be split off. *)
LEMMA TotalSplit ==
    ASSUME NEW S, IsFiniteSet(S), NEW f \in [S -> Nat], NEW k \in S
    PROVE  /\ IsFiniteSet(Blocks(S \ {k}, f))
           /\ Total(S \ {k}, f) \in Nat
           /\ Total(S, f) = Total(S \ {k}, f) + f[k]
<1> DEFINE rest == Blocks(S \ {k}, f)
           mine == Block(k, f[k])
<1>1. Blocks(S, f) = rest \cup mine
  <2>1. \A b : (\E l \in S : b \in Block(l, f[l])) <=>
               (b \in Block(k, f[k]) \/ \E l \in S \ {k} : b \in Block(l, f[l]))
    OBVIOUS
  <2>2. \A T : \A b : b \in Blocks(T, f) <=> \E l \in T : b \in Block(l, f[l])
    BY DEF Blocks
  <2> QED BY <2>1, <2>2
<1>2. rest \cap mine = {}
  <2> SUFFICES ASSUME NEW b \in rest, b \in mine PROVE FALSE
    OBVIOUS
  <2>1. PICK l \in S \ {k} : b \in Block(l, f[l])
    BY DEF Blocks
  <2>2. b[1] = l /\ b[1] = k
    BY <2>1 DEF Block
  <2> QED BY <2>2
<1>3. IsFiniteSet(mine) /\ Cardinality(mine) = f[k]
  BY BlockSize
<1>4. IsFiniteSet(rest)
  <2>1. rest \in SUBSET Blocks(S, f)
    BY <1>1
  <2> QED BY <2>1, TotalType, FS_Subset
<1>5. Cardinality(rest) \in Nat /\ f[k] \in Nat
  BY <1>4, FS_CardinalityType
<1> HIDE DEF rest, mine
<1>6. Cardinality(rest \cup mine) = Cardinality(rest) + f[k]
  <2>1. Cardinality(rest \cup mine) =
          Cardinality(rest) + Cardinality(mine) - Cardinality(rest \cap mine)
    BY <1>3, <1>4, FS_Union, Zenon
  <2>2. Cardinality(rest \cap mine) = 0
    BY <1>2, FS_EmptySet
  <2> QED BY <1>3, <1>5, <2>1, <2>2
<1> QED BY <1>1, <1>4, <1>5, <1>6 DEF Total, rest

(* Changing one summand changes the sum by as much. *)
LEMMA TotalChanges ==
    ASSUME NEW S, IsFiniteSet(S), NEW f \in [S -> Nat], NEW g \in [S -> Nat],
           NEW k \in S, \A l \in S : l # k => f[l] = g[l]
    PROVE  Total(S, g) = Total(S, f) - f[k] + g[k]
<1>1. Blocks(S \ {k}, f) = Blocks(S \ {k}, g)
  BY DEF Blocks
<1>2. /\ Total(S \ {k}, f) \in Nat
      /\ Total(S, f) = Total(S \ {k}, f) + f[k]
      /\ Total(S, g) = Total(S \ {k}, g) + g[k]
  BY TotalSplit
<1>3. Total(S \ {k}, f) = Total(S \ {k}, g)
  BY <1>1 DEF Total
<1>4. f[k] \in Nat /\ g[k] \in Nat
  OBVIOUS
<1> QED BY <1>2, <1>3, <1>4

(* A sum of zeros is zero. *)
LEMMA TotalZero ==
    ASSUME NEW S, NEW f, \A k \in S : f[k] = 0
    PROVE  Total(S, f) = 0
<1>1. \A k \in S : Block(k, f[k]) = {}
  BY DEF Block
<1>2. Blocks(S, f) = {}
  BY <1>1 DEF Blocks
<1> QED BY <1>2, FS_EmptySet DEF Total

------------------------------------------------------------------------------
(* The summands of the two sums that CounterAgrees speaks of. *)
KeyBytes == [k \in Keys |-> IF mBeacons[k] = 0 THEN 0
                            ELSE entries[mBeacons[k]].mTotalNumBytes]

CallBytes == [t \in AppThreads |-> IF call[t].pc = "count" THEN call[t].size ELSE 0]

(* Both sums are finite sums of numbers. *)
SumsTyped == /\ KeyBytes \in [Keys -> Nat]
             /\ CallBytes \in [AppThreads -> Nat]
             /\ EntriesTotal = Total(Keys, KeyBytes)
             /\ NotYetAdded = Total(AppThreads, CallBytes)
             /\ EntriesTotal \in Nat
             /\ NotYetAdded \in Nat

(* The two sums of CounterAgrees are such sums in every state of the cache. *)
LEMMA SumsOfCache == CacheInv => SumsTyped
<1> SUFFICES ASSUME CacheInv PROVE SumsTyped
  OBVIOUS
<1>1. KeyBytes \in [Keys -> Nat]
  <2> SUFFICES ASSUME NEW k \in Keys, mBeacons[k] # 0
               PROVE  entries[mBeacons[k]].mTotalNumBytes \in Nat
    BY DEF KeyBytes
  <2>1. mBeacons[k] \in 1..Len(entries)
    BY DEF CacheInv, TypeOK
  <2>2. entries[mBeacons[k]] \in EntryType(Len(records))
    BY <2>1 DEF CacheInv, TypeOK
  <2> QED BY <2>2 DEF EntryType
<1>2. CallBytes \in [AppThreads -> Nat]
  BY SizeAssumption DEF CallBytes, CacheInv, TypeOK, CallType
<1>3. \A k : Block(k, 0) = {}
  BY DEF Block
<1>4. EntriesTotal = Total(Keys, KeyBytes)
  <2> DEFINE there == {l \in Keys : mBeacons[l] # 0}
             B == UNION {{k} \X (1..entries[mBeacons[k]].mTotalNumBytes) : k \in there}
  <2>1. \A k \in there : {k} \X (1..entries[mBeacons[k]].mTotalNumBytes) = Block(k, KeyBytes[k])
    BY DEF Block, KeyBytes
  <2>2. \A b : b \in B <=> \E k \in there : b \in Block(k, KeyBytes[k])
    BY <2>1
  <2>3. \A b : b \in Blocks(Keys, KeyBytes) <=> \E k \in Keys : b \in Block(k, KeyBytes[k])
    BY DEF Blocks
  <2>4. \A k \in Keys : k \notin there => Block(k, KeyBytes[k]) = {}
    BY <1>3 DEF KeyBytes
  <2>5. there \subseteq Keys
    OBVIOUS
  <2>6. B = Blocks(Keys, KeyBytes)
    <3> HIDE DEF B, there
    <3> QED BY <2>2, <2>3, <2>4, <2>5
  <2> QED BY <2>6 DEF EntriesTotal, Total
<1>5. NotYetAdded = Total(AppThreads, CallBytes)
  <2> DEFINE adding == {u \in AppThreads : call[u].pc = "count"}
             B == UNION {{t} \X (1..call[t].size) : t \in adding}
  <2>1. \A t \in adding : {t} \X (1..call[t].size) = Block(t, CallBytes[t])
    BY DEF Block, CallBytes
  <2>2. \A b : b \in B <=> \E t \in adding : b \in Block(t, CallBytes[t])
    BY <2>1
  <2>3. \A b : b \in Blocks(AppThreads, CallBytes) <=>
                 \E t \in AppThreads : b \in Block(t, CallBytes[t])
    BY DEF Blocks
  <2>4. \A t \in AppThreads : t \notin adding => Block(t, CallBytes[t]) = {}
    BY <1>3 DEF CallBytes
  <2>5. adding \subseteq AppThreads
    OBVIOUS
  <2>6. B = Blocks(AppThreads, CallBytes)
    <3> HIDE DEF B, adding
    <3> QED BY <2>2, <2>3, <2>4, <2>5
  <2> QED BY <2>6 DEF NotYetAdded, Total
<1>6. EntriesTotal \in Nat /\ NotYetAdded \in Nat
  BY <1>1, <1>2, <1>4, <1>5, TotalType, CacheAssumption
<1> QED BY <1>1, <1>2, <1>4, <1>5, <1>6 DEF SumsTyped

(* So they are after a step. *)
LEMMA SumsAfterStep == CacheInv' => SumsTyped'
BY SumsOfCache, PTL

(***************************************************************************)
(* The counter agrees, and no entry is in the map under two keys: so a     *)
(* step on an entry changes one summand.                                   *)
(***************************************************************************)
OneKey == \A k, l \in Keys : mBeacons[k] = mBeacons[l] /\ mBeacons[k] # 0 => k = l

CounterInv == OneKey /\ CounterAgrees

(* A step changes the sum over the entries by what it changes the total of
   one key's entry, and the sum over the threads by what it changes one. *)
LEMMA SumsChange ==
    ASSUME CacheInv, CacheInv'
    PROVE  /\ KeyBytes' = KeyBytes => EntriesTotal' = EntriesTotal
           /\ CallBytes' = CallBytes => NotYetAdded' = NotYetAdded
           /\ \A k \in Keys :
                (\A l \in Keys : l # k => KeyBytes'[l] = KeyBytes[l]) =>
                  EntriesTotal' = EntriesTotal - KeyBytes[k] + KeyBytes'[k]
           /\ \A t \in AppThreads :
                (\A u \in AppThreads : u # t => CallBytes'[u] = CallBytes[u]) =>
                  NotYetAdded' = NotYetAdded - CallBytes[t] + CallBytes'[t]
<1>1. SumsTyped /\ SumsTyped'
  BY SumsOfCache, SumsAfterStep
<1>2. /\ KeyBytes \in [Keys -> Nat] /\ KeyBytes' \in [Keys -> Nat]
      /\ CallBytes \in [AppThreads -> Nat] /\ CallBytes' \in [AppThreads -> Nat]
      /\ EntriesTotal = Total(Keys, KeyBytes)
      /\ EntriesTotal' = Total(Keys, KeyBytes')
      /\ NotYetAdded = Total(AppThreads, CallBytes)
      /\ NotYetAdded' = Total(AppThreads, CallBytes')
  BY <1>1 DEF SumsTyped, Total, Blocks, Block
<1>3. IsFiniteSet(Keys) /\ IsFiniteSet(AppThreads)
  BY CacheAssumption
<1>4. ASSUME NEW k \in Keys, \A l \in Keys : l # k => KeyBytes'[l] = KeyBytes[l]
      PROVE  EntriesTotal' = EntriesTotal - KeyBytes[k] + KeyBytes'[k]
  <2>1. \A f, g \in [Keys -> Nat] :
          (\A l \in Keys : l # k => f[l] = g[l]) => Total(Keys, g) = Total(Keys, f) - f[k] + g[k]
    BY <1>3, TotalChanges
  <2> QED BY <1>2, <1>4, <2>1
<1>5. ASSUME NEW t \in AppThreads,
             \A u \in AppThreads : u # t => CallBytes'[u] = CallBytes[u]
      PROVE  NotYetAdded' = NotYetAdded - CallBytes[t] + CallBytes'[t]
  <2>1. \A f, g \in [AppThreads -> Nat] :
          (\A l \in AppThreads : l # t => f[l] = g[l]) =>
            Total(AppThreads, g) = Total(AppThreads, f) - f[t] + g[t]
    BY <1>3, TotalChanges
  <2> QED BY <1>2, <1>5, <2>1
<1>6. /\ KeyBytes' = KeyBytes => EntriesTotal' = EntriesTotal
      /\ CallBytes' = CallBytes => NotYetAdded' = NotYetAdded
  BY <1>2
<1> QED BY <1>4, <1>5, <1>6

(* A step on one entry changes the sum by what it changes the entry's total,
   if the entry is in the map, and not at all otherwise. *)
LEMMA EntryChanges ==
    ASSUME CacheInv, CacheInv', OneKey, NEW e \in EntryIds, NEW new,
           entries' = [entries EXCEPT ![e] = new], mBeacons' = mBeacons
    PROVE  /\ \A k \in Keys : mBeacons[k] = e =>
                EntriesTotal' = EntriesTotal - entries[e].mTotalNumBytes + new.mTotalNumBytes
           /\ Detached(e) \/ new.mTotalNumBytes = entries[e].mTotalNumBytes =>
                EntriesTotal' = EntriesTotal
<1>1. /\ e # 0
      /\ entries'[e] = new
      /\ \A d \in EntryIds : d # e => entries'[d] = entries[d]
      /\ \A k \in Keys : mBeacons[k] = 0 \/ mBeacons[k] \in EntryIds
  BY DEF CacheInv, TypeOK, EntryIds
<1>2. ASSUME NEW k \in Keys, mBeacons[k] # e
      PROVE  KeyBytes'[k] = KeyBytes[k]
  BY <1>1, <1>2 DEF KeyBytes
<1>3. ASSUME NEW k \in Keys, mBeacons[k] = e
      PROVE  /\ KeyBytes'[k] = new.mTotalNumBytes
             /\ KeyBytes[k] = entries[e].mTotalNumBytes
  BY <1>1, <1>3 DEF KeyBytes
<1>4. ASSUME NEW k \in Keys, mBeacons[k] = e
      PROVE  EntriesTotal' = EntriesTotal - entries[e].mTotalNumBytes + new.mTotalNumBytes
  <2>1. \A l \in Keys : l # k => mBeacons[l] # e
    BY <1>1, <1>4 DEF OneKey
  <2>2. \A l \in Keys : l # k => KeyBytes'[l] = KeyBytes[l]
    BY <1>2, <2>1
  <2>3. EntriesTotal' = EntriesTotal - KeyBytes[k] + KeyBytes'[k]
    BY <2>2, SumsChange
  <2> QED BY <1>3, <1>4, <2>3
<1>5. ASSUME Detached(e) \/ new.mTotalNumBytes = entries[e].mTotalNumBytes
      PROVE  EntriesTotal' = EntriesTotal
  <2>1. \A k \in Keys : KeyBytes'[k] = KeyBytes[k]
    BY <1>2, <1>3, <1>5 DEF Detached
  <2>2. KeyBytes' = KeyBytes
    BY <2>1 DEF KeyBytes
  <2> QED BY <2>2, SumsChange
<1> QED BY <1>4, <1>5

(* What the sending thread has still to add to the counter. *)
SndPending == (IF snd.pc = "resetCount" THEN snd.numBytes ELSE 0)
              - (IF snd.pc = "copyCount" THEN snd.numBytes ELSE 0)

(* The counter, what is still to be added and the sums are numbers. *)
LEMMA CounterTypes ==
    ASSUME CacheInv
    PROVE  /\ mCacheSizeInBytes \in Int /\ lateBytes \in Nat /\ snd.numBytes \in Nat
           /\ NotYetAdded \in Nat /\ EntriesTotal \in Nat /\ SndPending \in Int
           /\ CounterAgrees <=>
                mCacheSizeInBytes + NotYetAdded + SndPending = EntriesTotal + lateBytes
<1>1. mCacheSizeInBytes \in Int /\ lateBytes \in Nat /\ snd.numBytes \in Nat
  BY DEF CacheInv, TypeOK, SndType
<1>2. NotYetAdded \in Nat /\ EntriesTotal \in Nat
  BY SumsOfCache DEF SumsTyped
<1> QED BY <1>1, <1>2 DEF SndPending, CounterAgrees

(* The same after a step. *)
LEMMA CounterAgreesAfter ==
    ASSUME CacheInv',
           mCacheSizeInBytes' + NotYetAdded' + SndPending' = EntriesTotal' + lateBytes'
    PROVE  CounterAgrees'
<1>1. /\ mCacheSizeInBytes' \in Int /\ lateBytes' \in Nat /\ snd'.numBytes \in Nat
  BY DEF CacheInv, TypeOK, SndType
<1>2. NotYetAdded' \in Nat /\ EntriesTotal' \in Nat
  BY SumsAfterStep DEF SumsTyped
<1> QED BY <1>1, <1>2 DEF SndPending, CounterAgrees

(* The steps of an application thread keep the counter in agreement. *)
LEMMA CounterAdds ==
    ASSUME CacheInv, CacheInv', CounterInv, AddStep
    PROVE  CounterInv'
<1>0. PICK t \in AppThreads :
        \/ \E k \in Keys, list \in {"event", "action"}, timestamp \in 0..clock, size \in 1..MaxSize :
              AddLookup(t, k, list, timestamp, size)
        \/ AddInsert(t) \/ AddAppend(t) \/ AddCount(t)
  BY DEF AddStep
<1>t. /\ call \in [AppThreads -> CallType(Len(entries))]
      /\ call[t].size \in Nat
  BY SizeAssumption DEF CacheInv, TypeOK, CallType
<1>n. /\ mCacheSizeInBytes \in Int /\ lateBytes \in Nat
      /\ NotYetAdded \in Nat /\ EntriesTotal \in Nat
  BY CounterTypes
<1>1. ASSUME NEW k \in Keys, NEW list, NEW timestamp, NEW size, AddLookup(t, k, list, timestamp, size)
      PROVE  CounterInv'
  <2>1. /\ UNCHANGED <<mBeacons, entries, mCacheSizeInBytes, snd, lateBytes>>
        /\ CallBytes' = CallBytes
    <3>1. call[t].pc = "idle"
      BY <1>1 DEF AddLookup
    <3>2. /\ call'[t].pc # "count"
          /\ \A u \in AppThreads : u # t => call'[u] = call[u]
      BY <1>t, <1>1 DEF AddLookup
    <3> QED BY <1>1, <3>1, <3>2 DEF AddLookup, CallBytes
  <2>2. KeyBytes' = KeyBytes
    BY <2>1 DEF KeyBytes
  <2>3. NotYetAdded' = NotYetAdded /\ EntriesTotal' = EntriesTotal
    BY <2>1, <2>2, SumsChange
  <2> QED BY <2>1, <2>3 DEF CounterInv, OneKey, CounterAgrees
<1>2. CASE AddInsert(t)
  <2>1. /\ UNCHANGED <<mCacheSizeInBytes, snd, lateBytes>>
        /\ CallBytes' = CallBytes
    <3>1. call[t].pc = "insert"
      BY <1>2 DEF AddInsert
    <3>2. /\ call'[t].pc = "append"
          /\ \A u \in AppThreads : u # t => call'[u] = call[u]
      BY <1>t, <1>2 DEF AddInsert, Holding, CallType
    <3> QED BY <1>2, <3>1, <3>2 DEF AddInsert, CallBytes
  <2>2. OneKey' /\ KeyBytes' = KeyBytes
    <3>1. CASE mBeacons[call[t].key] # 0
      BY <1>2, <3>1 DEF AddInsert, KeyBytes, CounterInv, OneKey
    <3>2. CASE mBeacons[call[t].key] = 0
      <4> DEFINE k == call[t].key
                 e == Len(entries) + 1
      <4>a. /\ k \in Keys
            /\ mBeacons' = [mBeacons EXCEPT ![k] = e]
            /\ entries' = Append(entries, EmptyEntry)
        BY <1>2, <3>2 DEF AddInsert, CacheInv, CallRefs
      <4>b. /\ mBeacons \in [Keys -> 0..Len(entries)]
            /\ entries \in Seq(EntryType(Len(records)))
        BY DEF CacheInv, TypeOK
      <4>c. /\ e \notin EntryIds /\ e # 0
            /\ entries'[e] = EmptyEntry
            /\ \A d \in EntryIds : entries'[d] = entries[d]
        BY <4>a, <4>b DEF EntryIds
      <4>d. \A l \in Keys : mBeacons[l] = 0 \/ mBeacons[l] \in EntryIds
        BY <4>b DEF EntryIds
      <4>1. /\ k \in Keys
            /\ mBeacons'[k] = e
            /\ \A l \in Keys : l # k => mBeacons'[l] = mBeacons[l]
            /\ \A l \in Keys : mBeacons[l] = 0 \/ mBeacons[l] \in EntryIds
            /\ e \notin EntryIds /\ e # 0
            /\ entries'[e] = EmptyEntry
            /\ \A d \in EntryIds : entries'[d] = entries[d]
        BY <4>a, <4>b, <4>c, <4>d
      <4>2. OneKey'
        <5> HIDE DEF e, k
        <5> QED BY <4>1 DEF CounterInv, OneKey
      <4>3. \A l \in Keys : KeyBytes'[l] = KeyBytes[l]
        BY <3>2, <4>1 DEF KeyBytes, EmptyEntry
      <4>4. KeyBytes' = KeyBytes
        BY <4>3 DEF KeyBytes
      <4> QED BY <4>2, <4>4
    <3> QED BY <3>1, <3>2
  <2>3. NotYetAdded' = NotYetAdded /\ EntriesTotal' = EntriesTotal
    BY <2>1, <2>2, SumsChange
  <2> QED BY <2>1, <2>2, <2>3 DEF CounterInv, CounterAgrees
<1>3. CASE AddAppend(t)
  <2> DEFINE c == call[t]
             e == c.entry
             n == Len(records)
             new == IF c.list = "event" THEN addEventData(entries[e], n + 1, c.size)
                    ELSE addActionData(entries[e], n + 1, c.size)
  <2>1. /\ UNCHANGED <<mBeacons, mCacheSizeInBytes, snd>>
        /\ entries' = [entries EXCEPT ![e] = new]
        /\ call' = [call EXCEPT ![t] = RecordIsIn("count", c.size)]
        /\ lateBytes' = IF Detached(e) THEN lateBytes + c.size ELSE lateBytes
        /\ c.pc = "append"
    BY <1>3 DEF AddAppend
  <2>2. /\ e \in EntryIds
        /\ entries[e] \in EntryType(n)
    BY <2>1 DEF CacheInv, TypeOK, CallRefs, EntryIds
  <2>3. /\ entries[e].mTotalNumBytes \in Nat
        /\ new.mTotalNumBytes = entries[e].mTotalNumBytes + c.size
    BY <2>2 DEF EntryType, addEventData, addActionData
  <2> HIDE DEF new
  <2>4. NotYetAdded' = NotYetAdded + c.size
    <3>1. /\ call'[t].pc = "count" /\ call'[t].size = c.size
          /\ \A u \in AppThreads : u # t => call'[u] = call[u]
      BY <1>t, <2>1 DEF CallType, RecordIsIn
    <3>2. /\ CallBytes[t] = 0 /\ CallBytes'[t] = c.size
          /\ \A u \in AppThreads : u # t => CallBytes'[u] = CallBytes[u]
      BY <2>1, <3>1 DEF CallBytes
    <3>3. NotYetAdded' = NotYetAdded - CallBytes[t] + CallBytes'[t]
      BY <3>2, SumsChange
    <3> QED BY <1>t, <1>n, <3>2, <3>3
  <2>5. EntriesTotal' + lateBytes' = EntriesTotal + lateBytes + c.size
    <3>1. CASE Detached(e)
      <4>1. EntriesTotal' = EntriesTotal
        BY <2>1, <2>2, <3>1, EntryChanges DEF CounterInv
      <4> QED BY <1>t, <1>n, <2>1, <3>1, <4>1
    <3>2. CASE ~Detached(e)
      <4>1. PICK k \in Keys : mBeacons[k] = e
        BY <3>2 DEF Detached
      <4>2. EntriesTotal' = EntriesTotal - entries[e].mTotalNumBytes + new.mTotalNumBytes
        BY <2>1, <2>2, <4>1, EntryChanges DEF CounterInv
      <4> QED BY <1>t, <1>n, <2>1, <2>3, <3>2, <4>2
    <3> QED BY <3>1, <3>2
  <2>6. CounterAgrees'
    <3>1. /\ mCacheSizeInBytes + NotYetAdded + SndPending = EntriesTotal + lateBytes
          /\ SndPending \in Int
      BY CounterTypes DEF CounterInv
    <3>2. /\ SndPending' = SndPending
          /\ mCacheSizeInBytes' + NotYetAdded' + SndPending' = EntriesTotal' + lateBytes'
      BY <1>t, <1>n, <2>1, <2>4, <2>5, <3>1 DEF SndPending
    <3> QED BY <3>2, CounterAgreesAfter
  <2> QED BY <2>1, <2>6 DEF CounterInv, OneKey
<1>4. CASE AddCount(t)
  <2>1. /\ UNCHANGED <<mBeacons, entries, snd, lateBytes>>
        /\ mCacheSizeInBytes' = mCacheSizeInBytes + call[t].size
        /\ call' = [call EXCEPT ![t] = RecordIsIn("notify", 1)]
        /\ call[t].pc = "count"
    BY <1>4 DEF AddCount
  <2>2. NotYetAdded' = NotYetAdded - call[t].size
    <3>1. /\ call'[t].pc = "notify"
          /\ \A u \in AppThreads : u # t => call'[u] = call[u]
      BY <1>t, <2>1 DEF CallType, RecordIsIn
    <3>2. /\ CallBytes[t] = call[t].size /\ CallBytes'[t] = 0
          /\ \A u \in AppThreads : u # t => CallBytes'[u] = CallBytes[u]
      BY <2>1, <3>1 DEF CallBytes
    <3>3. NotYetAdded' = NotYetAdded - CallBytes[t] + CallBytes'[t]
      BY <3>2, SumsChange
    <3> QED BY <1>t, <1>n, <3>2, <3>3
  <2>3. EntriesTotal' = EntriesTotal
    <3>1. KeyBytes' = KeyBytes
      BY <2>1 DEF KeyBytes
    <3> QED BY <3>1, SumsChange
  <2>4. CounterAgrees'
    <3>1. /\ mCacheSizeInBytes + NotYetAdded + SndPending = EntriesTotal + lateBytes
          /\ SndPending \in Int
      BY CounterTypes DEF CounterInv
    <3>2. /\ SndPending' = SndPending
          /\ mCacheSizeInBytes' + NotYetAdded' + SndPending' = EntriesTotal' + lateBytes'
      BY <1>t, <1>n, <2>1, <2>2, <2>3, <3>1 DEF SndPending
    <3> QED BY <3>2, CounterAgreesAfter
  <2> QED BY <2>1, <2>4 DEF CounterInv, OneKey
<1> QED BY <1>0, <1>1, <1>2, <1>3, <1>4

(* The steps of the sending thread keep the counter in agreement. *)
LEMMA CounterSends ==
    ASSUME CacheInv, CacheInv', CounterInv,
           SendStep \/ SendResetNotify \/ \E k \in Keys : SendBegin(k)
    PROVE  CounterInv'
<1>1. UNCHANGED <<mBeacons, call, lateBytes>>
  BY DEF SendStep, SendCopy, SendCopyCount, SendChunk, SendDone, SendOk, SendFail,
         SendResetCount, SendResetNotify, SendBegin, sndUnchanged
<1>2. NotYetAdded' = NotYetAdded
  BY <1>1 DEF NotYetAdded
<1>3. OneKey'
  BY <1>1 DEF CounterInv, OneKey
<1>4. /\ mCacheSizeInBytes \in Int /\ lateBytes \in Nat /\ snd.numBytes \in Nat
      /\ NotYetAdded \in Nat /\ EntriesTotal \in Nat /\ SndPending \in Int
      /\ mCacheSizeInBytes + NotYetAdded + SndPending = EntriesTotal + lateBytes
  BY CounterTypes DEF CounterInv
<1> SUFFICES mCacheSizeInBytes' + SndPending' + EntriesTotal =
               mCacheSizeInBytes + SndPending + EntriesTotal'
  <2>1. /\ mCacheSizeInBytes' \in Int /\ SndPending' \in Int /\ EntriesTotal' \in Nat
    <3>1. mCacheSizeInBytes' \in Int /\ snd'.numBytes \in Nat
      BY DEF CacheInv, TypeOK, SndType
    <3>2. EntriesTotal' \in Nat
      BY SumsAfterStep DEF SumsTyped
    <3> QED BY <3>1, <3>2 DEF SndPending
  <2>2. ASSUME mCacheSizeInBytes' + SndPending' + EntriesTotal =
                 mCacheSizeInBytes + SndPending + EntriesTotal'
        PROVE  mCacheSizeInBytes' + NotYetAdded' + SndPending' = EntriesTotal' + lateBytes'
    BY <1>1, <1>2, <1>4, <2>1, <2>2
  <2> QED BY <1>3, <2>2, CounterAgreesAfter DEF CounterInv
<1>5. ASSUME entries' = entries PROVE EntriesTotal' = EntriesTotal
  BY <1>1, <1>5 DEF EntriesTotal
<1>6. CASE SendDone \/ SendResetNotify \/ \E k \in Keys : SendBegin(k)
  <2>1. /\ UNCHANGED <<entries, mCacheSizeInBytes>>
        /\ snd.pc \in {"loop", "resetNotify", "idle"}
        /\ snd'.pc \in {"idle", "copy", "loop"}
    BY <1>6 DEF SendDone, SendResetNotify, SendBegin, IdleSnd
  <2>2. SndPending = 0 /\ SndPending' = 0
    BY <2>1 DEF SndPending
  <2> QED BY <1>5, <2>1, <2>2
<1>7. CASE SendCopyCount
  <2>1. /\ entries' = entries
        /\ snd.pc = "copyCount" /\ snd'.pc = "loop"
        /\ mCacheSizeInBytes' = mCacheSizeInBytes - snd.numBytes
    BY <1>7 DEF SendCopyCount, CacheInv, TypeOK, SndType
  <2>2. SndPending = 0 - snd.numBytes /\ SndPending' = 0
    BY <2>1 DEF SndPending
  <2> QED BY <1>4, <1>5, <2>1, <2>2
<1>8. CASE SendResetCount
  <2>1. /\ entries' = entries
        /\ snd.pc = "resetCount" /\ snd'.pc = "resetNotify"
        /\ mCacheSizeInBytes' = mCacheSizeInBytes + snd.numBytes
    BY <1>8 DEF SendResetCount, CacheInv, TypeOK, SndType
  <2>2. SndPending = snd.numBytes - 0 /\ SndPending' = 0
    BY <2>1 DEF SndPending
  <2> QED BY <1>4, <1>5, <2>1, <2>2
<1>9. CASE SendCopy \/ SendChunk \/ SendOk \/ SendFail
  <2> DEFINE e == mBeacons[snd.key]
             n == Len(records)
  <2>1. /\ snd.key \in Keys
        /\ e \in EntryIds
        /\ entries[e] \in EntryType(n)
        /\ n \in Nat /\ records \in Seq(Record)
        /\ mCacheSizeInBytes' = mCacheSizeInBytes
        /\ snd \in SndType
    BY SMTT(60), <1>9 DEF CacheInv, TypeOK, SndRefs, EntryIds, SendCopy, SendChunk, SendOk,
                SendFail, SndHasData
  <2>2. entries[e].mTotalNumBytes \in Nat
    BY <2>1 DEF EntryType
  <2>3. ASSUME NEW new, entries' = [entries EXCEPT ![e] = new]
        PROVE  EntriesTotal' = EntriesTotal - entries[e].mTotalNumBytes + new.mTotalNumBytes
    BY <1>1, <2>1, <2>3, EntryChanges DEF CounterInv
  <2>4. CASE SendCopy
    <3> DEFINE new == copyDataForSending(entries[e])
    <3>1. new.mTotalNumBytes = 0
      BY DEF copyDataForSending
    <3>2. /\ entries' = [entries EXCEPT ![e] = new]
          /\ snd.pc = "copy"
          /\ snd' = [snd EXCEPT !.pc = "copyCount", !.numBytes = entries[e].mTotalNumBytes]
      BY <2>4 DEF SendCopy, SndEntry
    <3> HIDE DEF new
    <3>3. snd'.pc = "copyCount" /\ snd'.numBytes = entries[e].mTotalNumBytes
      BY <2>1, <3>2 DEF SndType
    <3>4. SndPending = 0 /\ SndPending' = 0 - entries[e].mTotalNumBytes
      BY <3>2, <3>3 DEF SndPending
    <3>5. EntriesTotal' = EntriesTotal - entries[e].mTotalNumBytes + 0
      BY <2>3, <3>1, <3>2
    <3> QED BY SMTT(60), <1>4, <2>1, <2>2, <3>4, <3>5
  <2>5. CASE SendChunk \/ SendOk
    <3>1. PICK new : /\ entries' = [entries EXCEPT ![e] = new]
                     /\ new.mTotalNumBytes = entries[e].mTotalNumBytes
      <4>1. CASE SendChunk
        <5>1. entries' = [entries EXCEPT ![e] = getNextChunk(records, entries[e])]
          BY <4>1 DEF SendChunk
        <5>2. getNextChunk(records, entries[e]).mTotalNumBytes = entries[e].mTotalNumBytes
          BY <2>1 DEF getNextChunk, EntryType
        <5> QED BY <5>1, <5>2
      <4>2. CASE SendOk
        <5>1. entries' = [entries EXCEPT ![e] = removeDataMarkedForSending(entries[e])]
          BY <4>2 DEF SendOk
        <5>2. removeDataMarkedForSending(entries[e]).mTotalNumBytes = entries[e].mTotalNumBytes
          BY <2>1 DEF removeDataMarkedForSending, EntryType
        <5> QED BY <5>1, <5>2
      <4> QED BY <2>5, <4>1, <4>2
    <3>2. snd.pc \in {"loop", "response"} /\ snd'.pc \in {"loop", "response"}
      BY <2>1, <2>5 DEF SendChunk, SendOk, SndType
    <3>3. SndPending = 0 /\ SndPending' = 0
      BY <3>2 DEF SndPending
    <3>4. EntriesTotal' = EntriesTotal
      <4>1. \A b, x \in Int : b - x + x = b
        OBVIOUS
      <4>2. EntriesTotal' = EntriesTotal - entries[e].mTotalNumBytes + entries[e].mTotalNumBytes
        BY <2>3, <3>1
      <4> QED BY <1>4, <2>2, <4>1, <4>2
    <3> QED BY <2>1, <3>3, <3>4
  <2>6. CASE SendFail
    <3> DEFINE new == resetDataMarkedForSending(records, entries[e])
    <3>1. new.mTotalNumBytes \in Nat /\ new.mTotalNumBytes - entries[e].mTotalNumBytes \in Nat
      <4>1. new \in EntryType(n) /\ new.mTotalNumBytes - entries[e].mTotalNumBytes \in Nat
        <5>1. DataCounted(entries[e])
          BY <2>1 DEF CacheInv, Counted
        <5> QED BY <2>1, <5>1, ResetMarked
      <4> QED BY <4>1 DEF EntryType
    <3>2. /\ entries' = [entries EXCEPT ![e] = new]
          /\ snd.pc = "response"
          /\ snd' = [snd EXCEPT !.pc = "resetCount",
                       !.numBytes = new.mTotalNumBytes - entries[e].mTotalNumBytes]
      BY <2>6 DEF SendFail, SndEntry
    <3> HIDE DEF new
    <3>3. /\ snd'.pc = "resetCount"
          /\ snd'.numBytes = new.mTotalNumBytes - entries[e].mTotalNumBytes
      BY <2>1, <3>2 DEF SndType
    <3>4. /\ SndPending = 0
          /\ SndPending' = new.mTotalNumBytes - entries[e].mTotalNumBytes
      BY <2>2, <3>1, <3>2, <3>3 DEF SndPending
    <3>5. EntriesTotal' = EntriesTotal - entries[e].mTotalNumBytes + new.mTotalNumBytes
      BY <2>3, <3>2
    <3> DEFINE y == new.mTotalNumBytes
               x == entries[e].mTotalNumBytes
    <3>6. y \in Int /\ x \in Int /\ SndPending' = y - x /\ EntriesTotal' = EntriesTotal - x + y
      BY <2>2, <3>1, <3>4, <3>5
    <3> HIDE DEF x, y
    <3>7. SndPending' + EntriesTotal = EntriesTotal'
      BY <1>4, <3>6
    <3> QED BY <1>4, <2>1, <3>4, <3>6, <3>7
  <2> QED BY <1>9, <2>4, <2>5, <2>6
<1> QED BY <1>6, <1>7, <1>8, <1>9 DEF SendStep

(* deleteCacheEntry takes an entry's bytes out of the counter and the entry
   out of the map; eviction changes neither. *)
LEMMA CounterDeletes ==
    ASSUME CacheInv, CacheInv', CounterInv,
           EvictionStep \/ \E k \in Keys : deleteCacheEntry(k)
    PROVE  CounterInv'
<1>a. UNCHANGED <<call, snd, lateBytes>>
  BY DEF EvictionStep, evictRecordsByAge, evictRecordsByNumber, Evict, deleteCacheEntry
<1>1. /\ UNCHANGED <<call, snd, lateBytes>>
      /\ NotYetAdded' = NotYetAdded
      /\ SndPending' = SndPending
  BY <1>a DEF NotYetAdded, SndPending
<1>2. /\ mCacheSizeInBytes \in Int /\ lateBytes \in Nat
      /\ NotYetAdded \in Nat /\ EntriesTotal \in Nat /\ SndPending \in Int
      /\ mCacheSizeInBytes + NotYetAdded + SndPending = EntriesTotal + lateBytes
  BY CounterTypes DEF CounterInv
<1>3. ASSUME NEW k \in Keys, deleteCacheEntry(k)
      PROVE  CounterInv'
  <2> DEFINE bytes == entries[mBeacons[k]].mTotalNumBytes
  <2>1. /\ mBeacons \in [Keys -> 0..Len(entries)]
        /\ mBeacons' = [mBeacons EXCEPT ![k] = 0]
        /\ mBeacons[k] # 0
        /\ entries' = entries
        /\ mCacheSizeInBytes' = mCacheSizeInBytes - bytes
    BY <1>3 DEF deleteCacheEntry, CacheInv, TypeOK
  <2>2. /\ KeyBytes[k] = bytes /\ KeyBytes'[k] = 0
        /\ \A l \in Keys : l # k => KeyBytes'[l] = KeyBytes[l]
    BY <2>1 DEF KeyBytes
  <2>3. bytes \in Nat
    BY <2>2, SumsOfCache DEF SumsTyped
  <2>4. EntriesTotal' = EntriesTotal - KeyBytes[k] + KeyBytes'[k]
    BY <2>2, SumsChange
  <2> HIDE DEF bytes
  <2>5. mCacheSizeInBytes' + NotYetAdded' + SndPending' = EntriesTotal' + lateBytes'
    <3>1. EntriesTotal' = EntriesTotal - bytes
      BY <1>2, <2>2, <2>3, <2>4
    <3>2. lateBytes' = lateBytes /\ mCacheSizeInBytes' = mCacheSizeInBytes - bytes
      BY <1>1, <2>1
    <3> QED BY <1>1, <1>2, <2>3, <3>1, <3>2
  <2>6. OneKey'
    BY <2>1 DEF CounterInv, OneKey
  <2> QED BY <2>5, <2>6, CounterAgreesAfter DEF CounterInv
<1>4. CASE EvictionStep
  <2>1. PICK e \in EntryIds : \/ evictRecordsByNumber(e)
                             \/ \E m \in 1..clock : evictRecordsByAge(e, m)
    BY <1>4 DEF EvictionStep
  <2>2. entries[e] \in EntryType(Len(records))
    BY DEF CacheInv, TypeOK, EntryIds
  <2>3. PICK new : Evict(e, new) /\ new.mTotalNumBytes = entries[e].mTotalNumBytes
    <3>1. removeOldestRecords(records, entries[e]).mTotalNumBytes = entries[e].mTotalNumBytes
      BY <2>2 DEF removeOldestRecords, EntryType
    <3>2. \A m : removeRecordsOlderThan(records, entries[e], m).mTotalNumBytes
                   = entries[e].mTotalNumBytes
      BY <2>2 DEF removeRecordsOlderThan, EntryType
    <3> QED BY <2>1, <3>1, <3>2 DEF evictRecordsByNumber, evictRecordsByAge
  <2>4. /\ entries' = [entries EXCEPT ![e] = new]
        /\ UNCHANGED <<mBeacons, mCacheSizeInBytes>>
    BY <2>3 DEF Evict
  <2>5. EntriesTotal' = EntriesTotal
    BY <2>3, <2>4, EntryChanges DEF CounterInv
  <2> QED BY <1>1, <2>4, <2>5 DEF CounterInv, OneKey, CounterAgrees
<1> QED BY <1>3, <1>4

(* Every step keeps the counter in agreement. *)
LEMMA NextCounterInv == CacheInv /\ CacheInv' /\ CounterInv /\ [Next]_cacheVars => CounterInv'
<1> SUFFICES ASSUME CacheInv, CacheInv', CounterInv, [Next]_cacheVars PROVE CounterInv'
  OBVIOUS
<1>1. CASE \E t \in AppThreads : AddNotify(t)
  <2>1. PICK t \in AppThreads : AddNotify(t)
    BY <1>1
  <2>2. /\ UNCHANGED <<mBeacons, entries, mCacheSizeInBytes, snd, lateBytes>>
        /\ call[t].pc = "notify"
        /\ call' = [call EXCEPT ![t] = IdleCall]
        /\ call \in [AppThreads -> CallType(Len(entries))]
    BY <2>1 DEF AddNotify, CacheInv, TypeOK
  <2>3. KeyBytes' = KeyBytes /\ CallBytes' = CallBytes
    BY <2>2 DEF KeyBytes, CallBytes, IdleCall
  <2>4. NotYetAdded' = NotYetAdded /\ EntriesTotal' = EntriesTotal
    BY <2>3, SumsChange
  <2> QED BY <2>2, <2>4 DEF CounterInv, OneKey, CounterAgrees
<1>2. CASE Tick \/ UNCHANGED cacheVars
  BY <1>2 DEF Tick, cacheVars, CounterInv, OneKey, CounterAgrees, EntriesTotal, NotYetAdded
<1> QED BY <1>1, <1>2, CounterAdds, CounterSends, CounterDeletes
        DEF Next, ClientStep, NotifyStep

(***************************************************************************)
(* The cache's byte counter, which decides when the evictor evicts, never  *)
(* drifts from the entries' own counters: it differs by the updates under  *)
(* way and by what was appended to entries already deleted, however the    *)
(* unlocked updates of the threads interleave.                             *)
(***************************************************************************)
THEOREM CounterNeverDrifts == Spec => []CounterAgrees
<1>1. ASSUME Init PROVE CounterInv
  <2>1. CacheInv
    BY <1>1, InitCacheInv
  <2>2. OneKey
    BY <1>1 DEF Init, OneKey
  <2>3. /\ \A k \in Keys : KeyBytes[k] = 0
        /\ \A t \in AppThreads : CallBytes[t] = 0
    BY <1>1 DEF Init, KeyBytes, CallBytes, IdleCall
  <2>4. EntriesTotal = 0 /\ NotYetAdded = 0
    BY <2>1, <2>3, TotalZero, SumsOfCache DEF SumsTyped
  <2>5. CounterAgrees
    BY <1>1, <2>4 DEF Init, IdleSnd, CounterAgrees
  <2> QED BY <2>2, <2>5 DEF CounterInv
<1>2. CounterInv => CounterAgrees
  BY DEF CounterInv
<1> QED BY <1>1, <1>2, NextCounterInv, CacheInvariant, PTL DEF Spec
==============================================================================
