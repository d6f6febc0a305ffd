---------------------------- MODULE BeaconCacheEntry ----------------------------
(***************************************************************************)
(* One entry of the beacon cache: the records captured for one beacon      *)
(* (core/caching/BeaconCacheEntry.cxx, BeaconCacheRecord).  The operators  *)
(* are the entry's methods as functions from entry to entry; the locking   *)
(* around them belongs to BeaconCache.                                     *)
(*                                                                         *)
(* A record is named by the number of the append that created it, and      *)
(* records[r] holds what a BeaconCacheRecord keeps of it: its timestamp    *)
(* and the size of its serialized data.  Those two never change.  The      *)
(* third member of a BeaconCacheRecord, its sending mark, is membership    *)
(* in the entry's set `marked'.                                            *)
(***************************************************************************)
EXTENDS Lists

CONSTANTS MaxSize,       \* bound on the size in bytes of one record
          PrefixLength,  \* characters of the chunk prefix
          MaxChunkSize   \* the maxSize handed to getChunk

ASSUME SizeAssumption == /\ MaxSize \in Nat \ {0}
                         /\ PrefixLength \in Nat
                         /\ MaxChunkSize \in Nat

Record == [timestamp : Nat, size : 1..MaxSize]

EmptyEntry == [mEventData |-> <<>>, mActionData |-> <<>>,
               mEventDataBeingSent |-> <<>>, mActionDataBeingSent |-> <<>>,
               marked |-> {}, mTotalNumBytes |-> 0]

(***************************************************************************)
(* The number of bytes of the records of a list: the size of the set of    *)
(* their bytes, byte b of the i-th record being <<i, b>>.                  *)
(***************************************************************************)
BytesOf(records, s) ==
    {p \in (1..Len(s)) \X (1..MaxSize) : p[2] <= records[s[p[1]]].size}

Bytes(records, s) == Cardinality(BytesOf(records, s))

(* Each record is preceded by a delimiter of one character in a chunk. *)
ChunkLength(records, s) == Bytes(records, s) + Len(s)

addEventData(entry, r, size) ==
    [entry EXCEPT !.mEventData = Append(@, r),
                  !.mTotalNumBytes = @ + size]

addActionData(entry, r, size) ==
    [entry EXCEPT !.mActionData = Append(@, r),
                  !.mTotalNumBytes = @ + size]

hasDataToSend(entry) == \/ entry.mEventDataBeingSent # <<>>
                        \/ entry.mActionDataBeingSent # <<>>

needsDataCopyBeforeSending(entry) ==
    /\ ~hasDataToSend(entry)
    /\ entry.mEventData # <<>> \/ entry.mActionData # <<>>

copyDataForSending(entry) ==
    [mEventData |-> <<>>,
     mActionData |-> <<>>,
     mEventDataBeingSent |-> entry.mEventData \o entry.mEventDataBeingSent,
     mActionDataBeingSent |-> entry.mActionData \o entry.mActionDataBeingSent,
     marked |-> entry.marked,
     mTotalNumBytes |-> 0]

(* Mutant: the chunk must be shorter than MaxChunkSize, not just no longer. *)
chunkifyDataList_Shorter(records, length, dataBeingSent) ==
    {dataBeingSent[i] : i \in
        {j \in DOMAIN dataBeingSent :
            length + ChunkLength(records, SubSeq(dataBeingSent, 1, j - 1))
              < MaxChunkSize}}

(***************************************************************************)
(* The records chunkifyDataList marks: it appends records as long as the   *)
(* chunk is not longer than MaxChunkSize BEFORE the append; `length' is    *)
(* the chunk's length when the list is reached.                            *)
(***************************************************************************)
chunkifyDataList(records, length, dataBeingSent) ==
    {dataBeingSent[i] : i \in
        {j \in DOMAIN dataBeingSent :
            length + ChunkLength(records, SubSeq(dataBeingSent, 1, j - 1))
              <= MaxChunkSize}}

(* Event data goes first, then action data. *)
getNextChunk(records, entry) ==
    LET sent == entry.mEventDataBeingSent
        events == chunkifyDataList(records, PrefixLength, sent)
        length == PrefixLength
                  + ChunkLength(records, SubSeq(sent, 1, Cardinality(events)))
    IN [entry EXCEPT !.marked = @ \cup events \cup
            chunkifyDataList(records, length, entry.mActionDataBeingSent)]

(* Mutant: what does not fit into the chunk is removed along with it. *)
removeDataMarkedForSending_All(entry) ==
    [entry EXCEPT !.mEventDataBeingSent = <<>>,
                  !.mActionDataBeingSent = <<>>,
                  !.marked = {}]

removeDataMarkedForSending(entry) ==
    [entry EXCEPT !.mEventDataBeingSent = Erase(@, entry.marked),
                  !.mActionDataBeingSent = Erase(@, entry.marked),
                  !.marked = {}]

(* Mutant: what goes back is not counted again. *)
resetDataMarkedForSending_Uncounted(records, entry) ==
    [mEventData |-> entry.mEventDataBeingSent \o entry.mEventData,
     mActionData |-> entry.mActionDataBeingSent \o entry.mActionData,
     mEventDataBeingSent |-> <<>>,
     mActionDataBeingSent |-> <<>>,
     marked |-> {},
     mTotalNumBytes |-> entry.mTotalNumBytes]

(* Mutant: what was being sent goes back behind what was added meanwhile. *)
resetDataMarkedForSending_Behind(records, entry) ==
    [mEventData |-> entry.mEventData \o entry.mEventDataBeingSent,
     mActionData |-> entry.mActionData \o entry.mActionDataBeingSent,
     mEventDataBeingSent |-> <<>>,
     mActionDataBeingSent |-> <<>>,
     marked |-> {},
     mTotalNumBytes |-> entry.mTotalNumBytes
                        + Bytes(records, entry.mEventDataBeingSent)
                        + Bytes(records, entry.mActionDataBeingSent)]

(* Everything being sent goes back in front of what was added meanwhile. *)
resetDataMarkedForSending(records, entry) ==
    [mEventData |-> entry.mEventDataBeingSent \o entry.mEventData,
     mActionData |-> entry.mActionDataBeingSent \o entry.mActionData,
     mEventDataBeingSent |-> <<>>,
     mActionDataBeingSent |-> <<>>,
     marked |-> {},
     mTotalNumBytes |-> entry.mTotalNumBytes
                        + Bytes(records, entry.mEventDataBeingSent)
                        + Bytes(records, entry.mActionDataBeingSent)]

(* Eviction erases records; it leaves mTotalNumBytes alone. *)
TooOld(records, minTimestamp) ==
    {r \in DOMAIN records : records[r].timestamp < minTimestamp}

removeRecordsOlderThan(records, entry, minTimestamp) ==
    [entry EXCEPT !.mEventData = Erase(@, TooOld(records, minTimestamp)),
                  !.mActionData = Erase(@, TooOld(records, minTimestamp))]

(* The record removeOldestRecords(1) takes; 1 is all the code asks for. *)
EventIsOlder(records, entry) ==
    /\ entry.mEventData # <<>>
    /\ \/ entry.mActionData = <<>>
       \/ records[Head(entry.mEventData)].timestamp
            <= records[Head(entry.mActionData)].timestamp

removeOldestRecords(records, entry) ==
    IF entry.mEventData = <<>> /\ entry.mActionData = <<>> THEN entry
    ELSE IF EventIsOlder(records, entry)
    THEN [entry EXCEPT !.mEventData = Tail(@)]
    ELSE [entry EXCEPT !.mActionData = Tail(@)]
==============================================================================
