------------------------------ MODULE BeaconCache ------------------------------
(***************************************************************************)
(* The beacon cache (core/caching/BeaconCache.cxx) under its concurrent    *)
(* clients: application threads that add records, the beacon sending       *)
(* thread that sends and deletes (protocol/Beacon.cxx, send and            *)
(* clearData), and whoever evicts.  Every step below is what one thread    *)
(* does between two points where another thread can get in: a critical     *)
(* section of the global lock, one of an entry's lock, or one access to    *)
(* the atomic mCacheSizeInBytes.                                           *)
(*                                                                         *)
(* Entries are shared pointers: an entry that deleteCacheEntry has erased  *)
(* from the map lives on for a thread that looked it up before.  `entries' *)
(* is that heap, mBeacons the map into it.                                 *)
(***************************************************************************)
EXTENDS BeaconCacheEntry

CONSTANTS Keys,         \* the beacon keys
          NoKey,        \* no beacon key
          AppThreads,   \* the application threads
          MaxRecords,   \* bound on the records added in a behaviour
          MaxTime,      \* bound on the clock
          MaxEvents     \* bound on the ticks and the records, a record counted twice

ASSUME CacheAssumption == /\ NoKey \notin Keys
                          /\ IsFiniteSet(Keys)
                          /\ IsFiniteSet(AppThreads)
                          /\ MaxRecords \in Nat
                          /\ MaxTime \in Nat
                          /\ MaxEvents \in Nat

VARIABLES
    mBeacons,           \* beacon key -> entry, 0 where the map has none
    entries,            \* every BeaconCacheEntry created so far
    records,            \* every BeaconCacheRecord appended so far
    mCacheSizeInBytes,  \* the cache's own byte counter
    call,               \* the call an application thread is executing
    snd,                \* the call the beacon sending thread is executing
    clock,              \* time in milliseconds
    acked,              \* history: records the server has acknowledged
    evicted,            \* history: records removed by eviction
    lateBytes           \* history: bytes appended to entries already deleted

cacheVars == <<mBeacons, entries, records, mCacheSizeInBytes, call, snd,
               clock, acked, evicted, lateBytes>>

EntryIds == 1..Len(entries)

(* An entry of the heap that the map no longer refers to. *)
Detached(e) == \A k \in Keys : mBeacons[k] # e

IdleCall == [pc |-> "idle", key |-> NoKey, list |-> "event",
             timestamp |-> 0, size |-> 1, entry |-> 0]

IdleSnd == [pc |-> "idle", key |-> NoKey, numBytes |-> 0]

Init ==
    /\ mBeacons = [k \in Keys |-> 0]
    /\ entries = <<>>
    /\ records = <<>>
    /\ mCacheSizeInBytes = 0
    /\ call = [t \in AppThreads |-> IdleCall]
    /\ snd = IdleSnd
    /\ clock = 0
    /\ acked = {}
    /\ evicted = {}
    /\ lateBytes = 0

(* A record is on its way from the start of the call to its append. *)
OnTheirWay == {t \in AppThreads : call[t].pc \in {"insert", "append"}}

(* The records appended or on their way. *)
Records == Len(records) + Cardinality(OnTheirWay)

(* Time passes. *)
Tick ==
    /\ clock < MaxTime
    /\ clock + 2 * Records < MaxEvents
    /\ clock' = clock + 1
    /\ UNCHANGED <<mBeacons, entries, records, mCacheSizeInBytes, call, snd,
                   acked, evicted, lateBytes>>

------------------------------------------------------------------------------
(* addEventData / addActionData, by an application thread t. *)

(***************************************************************************)
(* The call starts: getCachedEntryOrInsert looks the key up under the read *)
(* lock.  The record's timestamp is the present or an earlier time:        *)
(* an action or a web request comes with the time it was started at.       *)
(***************************************************************************)
AddLookup(t, k, list, timestamp, size) ==
    /\ call[t].pc = "idle"
    /\ Records < MaxRecords
    /\ clock + 2 * (Records + 1) <= MaxEvents
    /\ call' = [call EXCEPT ![t] =
                 [pc |-> IF mBeacons[k] = 0 THEN "insert" ELSE "append",
                  key |-> k, list |-> list, timestamp |-> timestamp,
                  size |-> size, entry |-> mBeacons[k]]]
    /\ UNCHANGED <<mBeacons, entries, records, mCacheSizeInBytes, snd,
                   clock, acked, evicted, lateBytes>>

(* getCachedEntryOrInsert returns entry e. *)
Holding(c, e) == [c EXCEPT !.pc = "append", !.entry = e]

(* It was missing: insert it under the write lock, unless it is there now. *)
AddInsert(t) ==
    /\ call[t].pc = "insert"
    /\ IF mBeacons[call[t].key] = 0
       THEN /\ entries' = Append(entries, EmptyEntry)
            /\ mBeacons' = [mBeacons EXCEPT ![call[t].key] = Len(entries) + 1]
            /\ call' = [call EXCEPT ![t] = Holding(call[t], Len(entries) + 1)]
       ELSE /\ call' = [call EXCEPT ![t] = Holding(call[t], mBeacons[call[t].key])]
            /\ UNCHANGED <<entries, mBeacons>>
    /\ UNCHANGED <<records, mCacheSizeInBytes, snd, clock, acked, evicted, lateBytes>>

(* The record is in: only its size, until it is counted, still matters. *)
RecordIsIn(pc, size) == [pc |-> pc, key |-> NoKey, list |-> "event",
                         timestamp |-> 0, size |-> size, entry |-> 0]

(* Under the entry's lock: the record is appended and counted there. *)
AddAppend(t) ==
    LET c == call[t]
        r == Len(records) + 1
        e == c.entry
    IN /\ c.pc = "append"
       /\ records' = Append(records, [timestamp |-> c.timestamp, size |-> c.size])
       /\ entries' = [entries EXCEPT ![e] =
                        IF c.list = "event"
                        THEN addEventData(entries[e], r, c.size)
                        ELSE addActionData(entries[e], r, c.size)]
       /\ lateBytes' = IF Detached(e) THEN lateBytes + c.size ELSE lateBytes
       /\ call' = [call EXCEPT ![t] = RecordIsIn("count", c.size)]
       /\ UNCHANGED <<mBeacons, mCacheSizeInBytes, snd, clock, acked, evicted>>

(* The entry's lock is released; mCacheSizeInBytes += size. *)
AddCount(t) ==
    /\ call[t].pc = "count"
    /\ mCacheSizeInBytes' = mCacheSizeInBytes + call[t].size
    /\ call' = [call EXCEPT ![t] = RecordIsIn("notify", 1)]
    /\ UNCHANGED <<mBeacons, entries, records, snd, clock, acked, evicted, lateBytes>>

AddNotify(t) ==
    /\ call[t].pc = "notify"
    /\ call' = [call EXCEPT ![t] = IdleCall]
    /\ UNCHANGED <<mBeacons, entries, records, mCacheSizeInBytes, snd,
                   clock, acked, evicted, lateBytes>>

------------------------------------------------------------------------------
(* Beacon::send, by the beacon sending thread. *)

sndUnchanged == <<mBeacons, records, call, clock, evicted, lateBytes>>

SndEntry == entries[mBeacons[snd.key]]

(* prepareDataForSending, up to the unlocked test of the lists. *)
SendBegin(k) ==
    /\ snd.pc = "idle"
    /\ snd' = [pc |-> IF /\ mBeacons[k] # 0
                         /\ needsDataCopyBeforeSending(entries[mBeacons[k]])
                      THEN "copy" ELSE "loop",
               key |-> k, numBytes |-> 0]
    /\ UNCHANGED <<entries, mCacheSizeInBytes, acked, sndUnchanged>>

(* Mutant: the entry's byte count is read after it has been reset. *)
SendCopy_CountsLate ==
    /\ snd.pc = "copy"
    /\ snd' = [snd EXCEPT !.pc = "copyCount",
                 !.numBytes = copyDataForSending(SndEntry).mTotalNumBytes]
    /\ entries' = [entries EXCEPT ![mBeacons[snd.key]] = copyDataForSending(@)]
    /\ UNCHANGED <<mCacheSizeInBytes, acked, sndUnchanged>>

(* prepareDataForSending, under the entry's lock. *)
SendCopy ==
    /\ snd.pc = "copy"
    /\ snd' = [snd EXCEPT !.pc = "copyCount", !.numBytes = SndEntry.mTotalNumBytes]
    /\ entries' = [entries EXCEPT ![mBeacons[snd.key]] = copyDataForSending(@)]
    /\ UNCHANGED <<mCacheSizeInBytes, acked, sndUnchanged>>

SendCopyCount ==
    /\ snd.pc = "copyCount"
    /\ mCacheSizeInBytes' = mCacheSizeInBytes - snd.numBytes
    /\ snd' = [snd EXCEPT !.pc = "loop", !.numBytes = 0]
    /\ UNCHANGED <<entries, acked, sndUnchanged>>

SndHasData == mBeacons[snd.key] # 0 /\ hasDataToSend(SndEntry)

(***************************************************************************)
(* There is data for sending: the next chunk is built and sent.  Only this *)
(* thread touches the lists of records being sent.                         *)
(***************************************************************************)
SendChunk ==
    /\ snd.pc = "loop"
    /\ SndHasData
    /\ entries' = [entries EXCEPT ![mBeacons[snd.key]] = getNextChunk(records, @)]
    /\ snd' = [snd EXCEPT !.pc = "response"]
    /\ UNCHANGED <<mCacheSizeInBytes, acked, sndUnchanged>>

(* There is none (left): send returns. *)
SendDone ==
    /\ snd.pc = "loop"
    /\ ~SndHasData
    /\ snd' = IdleSnd
    /\ UNCHANGED <<entries, mCacheSizeInBytes, acked, sndUnchanged>>

(* A successful response: removeChunkedData. *)
SendOk ==
    /\ snd.pc = "response"
    /\ acked' = acked \cup SndEntry.marked
    /\ entries' = [entries EXCEPT ![mBeacons[snd.key]] = removeDataMarkedForSending(@)]
    /\ snd' = [snd EXCEPT !.pc = "loop"]
    /\ UNCHANGED <<mCacheSizeInBytes, sndUnchanged>>

(* Mutant: an erroneous response ends the loop without resetChunkedData. *)
SendFail_NoReset ==
    /\ snd.pc = "response"
    /\ snd' = IdleSnd
    /\ UNCHANGED <<entries, mCacheSizeInBytes, acked, sndUnchanged>>

(* No response or an erroneous one: resetChunkedData, under the entry's lock. *)
SendFail ==
    LET e == mBeacons[snd.key]
        reset == resetDataMarkedForSending(records, SndEntry)
    IN /\ snd.pc = "response"
       /\ entries' = [entries EXCEPT ![e] = reset]
       /\ snd' = [snd EXCEPT !.pc = "resetCount",
                    !.numBytes = reset.mTotalNumBytes - SndEntry.mTotalNumBytes]
       /\ UNCHANGED <<mCacheSizeInBytes, acked, sndUnchanged>>

(* Mutant: the observers are not told of data that returns to the cache. *)
SendResetCount_Silent ==
    /\ snd.pc = "resetCount"
    /\ mCacheSizeInBytes' = mCacheSizeInBytes + snd.numBytes
    /\ snd' = IdleSnd
    /\ UNCHANGED <<entries, acked, sndUnchanged>>

SendResetCount ==
    /\ snd.pc = "resetCount"
    /\ mCacheSizeInBytes' = mCacheSizeInBytes + snd.numBytes
    /\ snd' = [snd EXCEPT !.pc = "resetNotify", !.numBytes = 0]
    /\ UNCHANGED <<entries, acked, sndUnchanged>>

SendResetNotify ==
    /\ snd.pc = "resetNotify"
    /\ snd' = IdleSnd
    /\ UNCHANGED <<entries, mCacheSizeInBytes, acked, sndUnchanged>>

(* deleteCacheEntry, under the write lock of the map. *)
deleteCacheEntry(k) ==
    /\ snd.pc = "idle"
    /\ mBeacons[k] # 0
    /\ mCacheSizeInBytes' = mCacheSizeInBytes - entries[mBeacons[k]].mTotalNumBytes
    /\ mBeacons' = [mBeacons EXCEPT ![k] = 0]
    /\ UNCHANGED <<entries, records, call, snd, clock,
                   acked, evicted, lateBytes>>

(* isEmpty, as the sending thread asks it of a finished session. *)
isEmpty(k) == mBeacons[k] = 0 \/ entries[mBeacons[k]].mTotalNumBytes = 0

------------------------------------------------------------------------------
(***************************************************************************)
(* Eviction, under the lock of an entry that the evicting thread looked up *)
(* before: it may have been deleted since.  BeaconCacheEvictor says when   *)
(* the code evicts; here it may at any time.                               *)
(***************************************************************************)
SeqRange(s) == {s[i] : i \in DOMAIN s}

Cached(entry) == SeqRange(entry.mEventData) \cup SeqRange(entry.mActionData)

BeingSent(entry) == SeqRange(entry.mEventDataBeingSent)
                    \cup SeqRange(entry.mActionDataBeingSent)

Evict(e, entry) ==
    /\ entries' = [entries EXCEPT ![e] = entry]
    /\ evicted' = evicted \cup (Cached(entries[e]) \ Cached(entry))
    /\ UNCHANGED <<mBeacons, records, mCacheSizeInBytes, call, snd, clock, acked, lateBytes>>

evictRecordsByAge(e, minTimestamp) ==
    Evict(e, removeRecordsOlderThan(records, entries[e], minTimestamp))

evictRecordsByNumber(e) ==
    Evict(e, removeOldestRecords(records, entries[e]))

AddStep ==
    \E t \in AppThreads :
        \/ \E k \in Keys, list \in {"event", "action"}, timestamp \in 0..clock,
              size \in 1..MaxSize : AddLookup(t, k, list, timestamp, size)
        \/ AddInsert(t)
        \/ AddAppend(t)
        \/ AddCount(t)

(* The steps of a running Beacon::send. *)
SendStep ==
    \/ SendCopy
    \/ SendCopyCount
    \/ SendChunk
    \/ SendDone
    \/ SendOk
    \/ SendFail
    \/ SendResetCount

(* Notifying the observers ends an add and a reset. *)
NotifyStep == SendResetNotify \/ \E t \in AppThreads : AddNotify(t)

ClientStep ==
    \/ Tick
    \/ AddStep
    \/ \E k \in Keys : SendBegin(k) \/ deleteCacheEntry(k)
    \/ SendStep

EvictionStep ==
    \E e \in EntryIds :
        \/ evictRecordsByNumber(e)
        \/ \E m \in 1..clock : evictRecordsByAge(e, m)

Next == ClientStep \/ NotifyStep \/ EvictionStep

Spec == Init /\ [][Next]_cacheVars

(***************************************************************************)
(* Weak fairness of the sending thread's steps: it is never blocked for    *)
(* good by a lock, and an HTTP request ends with a response or without.    *)
(***************************************************************************)
FairSpec == Spec /\ WF_cacheVars(SendStep \/ SendResetNotify)

------------------------------------------------------------------------------
(* n is the number of records, respectively of entries, there are. *)
EntryType(n) == [mEventData : Seq(1..n), mActionData : Seq(1..n),
                 mEventDataBeingSent : Seq(1..n), mActionDataBeingSent : Seq(1..n),
                 marked : SUBSET (1..n), mTotalNumBytes : Nat]

CallType(n) == [pc : {"idle", "insert", "append", "count", "notify"}, key : Keys \cup {NoKey},
                list : {"event", "action"}, timestamp : Nat, size : 1..MaxSize,
                entry : 0..n]

SndType == [pc : {"idle", "copy", "copyCount", "loop", "response", "resetCount",
                  "resetNotify"},
            key : Keys \cup {NoKey}, numBytes : Nat]

(* Every variable has its type. *)
TypeOK ==
    /\ entries \in Seq(EntryType(Len(records)))
    /\ mBeacons \in [Keys -> 0..Len(entries)]
    /\ records \in Seq(Record)
    /\ mCacheSizeInBytes \in Int
    /\ call \in [AppThreads -> CallType(Len(entries))]
    /\ snd \in SndType
    /\ clock \in Nat
    /\ acked \subseteq 1..Len(records)
    /\ evicted \subseteq 1..Len(records)
    /\ lateBytes \in Nat

(***************************************************************************)
(* isEmpty never calls an entry empty that still holds captured data:      *)
(* sendFinishedSessions deletes the entry of a session it finds empty, so  *)
(* that data would be thrown away unsent.                                  *)
(***************************************************************************)
EmptyMeansNoData ==
    \A k \in Keys : mBeacons[k] # 0 /\ isEmpty(k) =>
        /\ entries[mBeacons[k]].mEventData = <<>>
        /\ entries[mBeacons[k]].mActionData = <<>>

(***************************************************************************)
(* No captured record is lost or kept twice: each is in exactly one list   *)
(* position of one entry, or it was acknowledged, or it was evicted.  (An  *)
(* entry deleted on purpose stays in the heap with its records.)           *)
(***************************************************************************)
ListNames == {"mEventData", "mActionData",
              "mEventDataBeingSent", "mActionDataBeingSent"}

Places(r) ==
    {p \in EntryIds \X ListNames \X (1..Len(records)) :
        /\ p[3] <= Len(entries[p[1]][p[2]])
        /\ entries[p[1]][p[2]][p[3]] = r}

NothingLost ==
    \A r \in 1..Len(records) :
        Cardinality(Places(r)) + (IF r \in acked THEN 1 ELSE 0)
          + (IF r \in evicted THEN 1 ELSE 0) = 1

(***************************************************************************)
(* The lists keep the order of the appends across copying, sending and     *)
(* resetting: what is being sent is older than what was added meanwhile.   *)
(***************************************************************************)
Increasing(s) == \A i, j \in DOMAIN s : i < j => s[i] < s[j]

KeptOrder ==
    \A e \in EntryIds :
        /\ Increasing(entries[e].mEventDataBeingSent \o entries[e].mEventData)
        /\ Increasing(entries[e].mActionDataBeingSent \o entries[e].mActionData)

(***************************************************************************)
(* mCacheSizeInBytes is the sum of the entries' own counters: exactly, but *)
(* for updates under way and for bytes appended to an entry that had been  *)
(* deleted between the appender's lookup and its append, which are never   *)
(* subtracted again.                                                       *)
(***************************************************************************)
EntriesTotal ==
    Cardinality(UNION {{k} \X (1..entries[mBeacons[k]].mTotalNumBytes) :
                          k \in {l \in Keys : mBeacons[l] # 0}})

NotYetAdded ==
    Cardinality(UNION {{t} \X (1..call[t].size) :
                          t \in {u \in AppThreads : call[u].pc = "count"}})

CounterAgrees ==
    mCacheSizeInBytes + NotYetAdded
      + (IF snd.pc = "resetCount" THEN snd.numBytes ELSE 0)
      - (IF snd.pc = "copyCount" THEN snd.numBytes ELSE 0)
    = EntriesTotal + lateBytes

(***************************************************************************)
(* Between two sends nothing is left in the lists of records being sent,   *)
(* where it would be neither counted nor evictable, nor is it marked.      *)
(***************************************************************************)
NothingStuckBeingSent ==
    \A e \in EntryIds :
        (snd.pc \in {"idle", "copy"} \/ mBeacons[snd.key] # e) =>
            /\ ~hasDataToSend(entries[e])
            /\ entries[e].marked = {}

(***************************************************************************)
(* Every call of Beacon::send returns, whatever is added meanwhile: a      *)
(* chunk takes at least one record out of a list nobody adds to.           *)
(***************************************************************************)
SendReturns == snd.pc # "idle" ~> snd.pc = "idle"

Quiescent == snd.pc = "idle" /\ \A t \in AppThreads : call[t].pc = "idle"

==============================================================================
