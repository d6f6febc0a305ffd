# OpenKit Native: a TLA+ verification of its core

OpenKit Native is a client library: an application opens sessions, reports
actions, events and errors, and the library sends what it captured to a
Dynatrace server in the background.  What is hard about it is not any one
function but the meeting of four kinds of threads over shared state:

- **application threads** that open and end sessions and add records,
- the **beacon sending thread**, a state machine that talks to the server,
- the **eviction thread**, which keeps the cache of unsent records bounded,
- the **session watchdog thread**, which ends and splits sessions by time.

The server may answer or not, refuse, switch capturing off and on; shutdown may
come at any moment.  Around that core are the objects the application works with
(sessions, actions, tracers) and their life cycle behind a C interface, the HTTP
client, and the parsers and text algorithms that stand between the library and
the server.  This project models all of these from the C++ sources, checks them
with TLC on small instances and proves most of their safety properties with TLAPS
for all instances.

## 1. Inventory

| component (sources under `src/src`) | state | operations | interacts with | must hold |
|---|---|---|---|---|
| Beacon cache (`core/caching/BeaconCache*`) | map beacon key -> entry; per entry two lists of records, two lists of records being sent, a byte counter; a global byte counter | add, prepare/chunk/remove/reset for sending, delete, evict | application threads add; the sending thread sends and deletes; the evictor evicts; observers are notified | no record lost or doubled; order kept; counters agree; nothing stuck |
| Evictor (`BeaconCacheEvictor`, `TimeEvictionStrategy`, `SpaceEvictionStrategy`) | wake-up flag, stop flag, last run | update, stop, loop | observer of the cache; evicts from it | no lost wake-up; evicts only what it may; stops when asked |
| Beacon sending (`core/BeaconSender`, `core/communication`) | current and next state, queue of sessions, capture flag, shutdown flag, init latch | five states, status requests, new session requests | sends sessions' beacons; sets their configuration; application threads add and end sessions | shutdown terminates; data dropped only where it may; finished sessions leave the queue |
| Beacon (`protocol/Beacon`, `core/objects/EventPayloadBuilder`) | numbers, configuration, records in the cache | one report method per kind of record | objects report to it; the sending thread configures it | records only what is allowed |
| Session (`core/objects/Session`) | finishing/finished, tried for ending, children, request budget | enterAction, end, tryEnd, onChildClosed | parent proxy, beacon, sender, watchdog | ends once; all children closed; told to its parent |
| Session proxy (`SessionProxy`, `SessionCreator`) | current session, children, configuration, counters, last user tag | every ISession call, split by events, by time, after a crash | sessions, watchdog, sender | no deadlock; nothing left open or forgotten |
| Session watchdog (`SessionWatchdog*`) | sessions to close, proxies to split | enqueue, dequeue, execute | ends sessions, splits proxies | every split-off session ends |
| Actions, tracers (`ActionCommonImpl`, `RootAction`, `LeafAction`, `WebRequestTracer`) | left/stopped flag, children, numbers | enter, leave, cancel, report, trace | their parent, the beacon | recorded once, none forgotten, web requests within their action |
| OpenKit (`OpenKit`, `OpenKitInitializer`) | shutdown flag, children, three threads, a count of instances | build, createSession, shutdown | everything | every session ended and sent at shutdown; threads do not outlive what they use |
| C interface (`api-c/OpenKit-c.cxx`) | handles of nine kinds | create, use, destroy | OpenKit | freed exactly once; shutdown returns |
| HTTP client (`protocol/HTTPClient`, `HTTPResponseParser`, `http/`) | parser of the answer, upload buffer, attempts | three kinds of requests, libcurl's callbacks | the sending thread; libcurl | the answer is the last one; requests end |
| Configurations (`core/configuration`, `protocol/ResponseAttributes`) | immutable values, a session's current configuration | merge, initialize, update | sender, sessions, proxies | latest setting wins; a session's own settings stay |
| Responses (`protocol/*ResponseParser`, `util/json`) | parser state, two stacks | parse, write | HTTP client, events | accepts what the grammar says; reads back what it wrote, numbers to six decimals |
| Strings (`core/UTF8String`, `core/util/URLEncoding`, `InetAddressValidator`) | bytes, length | validate, cut, split, encode | everything that is sent | valid UTF-8; encoding can be undone |
| Utilities (`core/util`) | queue, latch, suspender, locks, threads | - | all | see their users |

The hazards each component is exposed to are listed, with source lines and the
properties that cover them, under `hazards` in `PROJECT.json`.

## 2. Modules

| module | models | role |
|---|---|---|
| `Lists` | erasing from a list | shared operators |
| `BeaconCacheEntry` | `BeaconCacheEntry.cxx`, `BeaconCacheRecord.cxx` | pure operators, one per method |
| `BeaconCache` | `BeaconCache.cxx`, `Beacon::send`, `Beacon::clearData` | the cache under all its clients; also the abstract specification the evictor's composition is checked against |
| `BeaconCacheEvictor` | evictor and both strategies | extends and refines `BeaconCache` |
| `BeaconSending` | `BeaconSender.cxx` and `core/communication`, with what it sees of sessions | the sending thread against application threads, evictor and server |
| `SessionProxy` | `SessionProxy.cxx`, `Session.cxx`, `SessionWatchdogContext.cxx` | one proxy, its sessions and the watchdog, with their locks as state |
| `Beacon` | `Beacon.cxx`, `PrivacyConfiguration.cxx`, `EventPayloadBuilder*.cxx` | pure operators, one per report |
| `Actions` | `ActionCommonImpl.cxx`, `WebRequestTracer.cxx`, `Session.cxx` as a parent | the objects of one session under several threads; composes `Beacon` and `ServerConfiguration` |
| `OpenKit` | `OpenKit.cxx`, the stopping of the three threads | life cycle of instances |
| `OpenKitC` | `OpenKit-c.cxx` | handles and their owners; extends `OpenKit` |
| `ResponseAttributes`, `ServerConfiguration`, `ResponseParser` | the files of these names, and both response parsers | pure operators |
| `HTTPClient` | `HTTPClient.cxx`, `HTTPResponseParser.cxx`, `StatusResponse.cxx`, headers | one request with its attempts and callbacks |
| `Answers` | `BeaconSendingContext`, `BeaconConfiguration`, `HTTPClientConfiguration` where answers change them, and the rounds of the capture-on state as far as they decide which answer is handled | composes `HTTPClient` with context, sessions and proxies |
| `JsonLexer`, `JsonValue`, `JsonParser` | `util/json`, `include/OpenKit/json` | lexer, values, parser |
| `JsonGrammar` | - | abstract specification: the grammar of JSON as a machine |
| `UTF8String`, `URLEncoding`, `InetAddressValidator` | the files of these names | pure operators |
| `ListsProofs`, `BeaconCacheProofs`, `EvictorProofs`, `SendingProofs`, `SessionProxyProofs`, `ActionsProofs`, `AnswersProofs`, `OpenKitCProofs` | - | theorems about the modules above, see section 4 |
| `MC...` | - | values of the constants and symmetry for TLC; `MCText` also holds the JSON values that are written and feeds the text operators |

Definitions whose comment begins with *Mutant* are deliberately wrong variants
of the definition that follows them.  No specification uses them; they show
that the properties can tell the code from a plausible bug in it.

### The cache: `BeaconCacheEntry`, `BeaconCache`

A step is what one thread does between two points where another can get in: a
critical section of the map's lock, one of an entry's lock, or one access to
the atomic `mCacheSizeInBytes`.  So `addEventData` is `AddLookup`, `AddInsert`
(if the entry was missing), `AddAppend`, `AddCount`, `AddNotify`, and
`Beacon::send` is `SendBegin`, `SendCopy`, `SendCopyCount`, then `SendChunk`
with `SendOk` or `SendFail` until `SendDone`.  Entries are shared pointers: an
entry erased from the map lives on in `entries` for a thread that holds it.
A record is a number, its size and its timestamp; the text is left out, its
length decides the chunks.  A timestamp is any time up to now, because an action or a
web request is recorded with the time it began.  `acked`, `evicted` and `lateBytes` are history
variables.  Eviction may here happen at any time to any entry of the heap;
only this makes the properties independent of the strategies.

### The evictor: `BeaconCacheEvictor`

The thread's loop with its wake-up flag, and the loops of both strategies one
evicted record (or one look-up) at a time.  `mStop` is read where the code
reads it.  The snapshot of the keys is a set, because `getBeaconKeys` returns
an unordered one.  `ImplementsCache` states that the composition implements
`BeaconCache!Spec`, so everything checked or proved of `BeaconCache` holds for
the real evictor.

### The sending thread: `BeaconSending`

`bs.pc` runs through the states' `doExecute` one call at a time; `bs.cont`
holds the steps to return to from `sleep`, `clearAllSessionData` and
`Beacon::send`.  A session is its life (`open`, `finishing`, `finished`), whether
it is configured and captures, its request budget, and two facts about its
beacon: `data` (the cache holds records) and `counted` (its byte counter is
above zero).  They differ after an eviction, exactly as in `BeaconCache`.
An answer of the server is an error, "too many requests", or a success that
leaves capturing on or off.  Durations are abstracted: an interval has or has
not expired, a sleep may end at any moment by its timeout, and at once after
`wakeup`, which stays signaled for good.  Multiplicity and traffic control appear as
a free choice of `capturing` where the code computes it.

### The proxy and the watchdog: `SessionProxy`

`proxy` holds the proxy's members, `ses` the sessions it creates, `act` root
actions and tracers, `mSessionsToClose` and `toSplit` the watchdog's two queues.
`lock` and `ses[s].lock` are the holders of `mLockObject` and of a session's
`mMutex`: a call that needs a lock somebody holds is not enabled.  The code takes
the two locks in both orders.  A split holds the proxy's and asks for the
session's (`TryEnd`); an action that is the last child of a session tried for
ending holds the session's and asks for the proxy's (`TellHeld`).  `NoLockCycle`
says why this is no deadlock: the session in question is no longer the current one.
A proxy call is `Call` (lock, finished test), `TryEnd`, `Enqueue`, `Create` when it
splits, then the call itself; `Session::end(bool)` is `EndMark`, `EndCopy`,
`CloseChild` and `Detach` per child, `EndFinish`, `Tell`; `SessionProxy::end` is
`ProxyEnd`, `CopySessions`, one end per child, `ProxyEnded`, `ResetCurrent`.  What
the code does without a lock (copying the lists of children, resetting
`mCurrentSession`) is a step of its own.  A null pointer that would be
dereferenced sets `failure` and stops the behaviour.

Times are abstracted: a grace period may be over at any round of the watchdog, a
session may be due at any round.  The configuration is there or not; its
split settings never change after the first one, because `merge` keeps them.

### Objects of a session: `Beacon`, `Actions`

`Beacon` has one operator per report.  A report takes two steps: the first tests
privacy, capturing and sampling, takes a sequence number and builds the record,
the second (`addEventData`) tests capturing again and stores it.  The sending
thread may bring a configuration in between.  `generateEventPayload`,
`addOverridableAttribute` and `addNonOverridableAttribute` are functions on
attributes whose values say only who gave them.

In `Actions` a thread has a stack of the objects it is leaving, because leaving an
action closes its children, each in the same steps: mark it under its mutex, copy
the list of children without it, close each, take the end number, build and add
the record, tell the parent.  `holds` says that the mutex of an object is held;
the mutexes are recursive, so the holder itself is not kept out.  `tryEnd` and
the end of a session by its last child run with the session's mutex held,
`end()` does not; it may be called with an end event, as the application and the
last child do, or without one, as the watchdog and the final flush do.  Each member of `Bounds` limits the objects and the reports of a
behaviour, and says which privacy settings it has and which configurations the
sending thread may bring.

### Life cycle and C interface: `OpenKit`, `OpenKitC`

An instance is alive while something refers to it: a handle of the application,
a session in its own list of children or a session the sending thread knows.
`Release` is every step that may drop the last reference.  `shutdown` is one step
per child closed and per thread asked and joined; a join may give up at any
time, and its thread is `lost` then.  What the three threads do in detail is in
their own modules; here they stop when asked, and the sending thread sends and
forgets.  In `OpenKitC` loggers and trust managers are blocks of memory with an
owner; `faults` collects the blocks that were used or released after they were
freed, and the history variable `reused` those that a further instance got from an
earlier one through the configuration they share (`GotFromEarlier`): a logger that
`createDynatraceOpenKit` once made for it, and a trust manager it made, if the mode was
changed to a custom one since.  A freed block is never allocated again, so a stale
handle cannot hit a new object.  The application keeps to the interface's terms: it
does not use what it released, and it passes no null pointer as a logger.

### Answers of the server: `HTTPClient`, `ResponseParser`, `Answers`

A request is up to three attempts; in each, libcurl (external) calls the code
back: the upload buffer is read in pieces, status lines, headers and the body
come in pieces, an interim answer before the final one, and at any point the
transfer may fail.  An answer is a body of one of two formats with some settings
in it, or a broken one.  `ResponseAttributes` keeps for every setting its value and
whether it was sent; `merge`, `from` and `mergeConfigurations` are the code's.  `Answers`
applies them: to the context, to the session that asked, through the callback to
its proxy, and to sessions created or split meanwhile.  A round of the capture-on state
asks for new sessions, then sends finished and then open ones (`round.part`), and keeps
the last response of each part; `endRound` hands one of them to the context
(`lastStatusResponse`).  A successful answer to a new session is so applied once when it
comes and possibly once more at the end; all other answers of the round are discarded,
and so are all of them after "too many requests".  A session without data puts a null
pointer over the last response of its part (`sendNothing`), because `Beacon::send`
returns one.

### JSON: `JsonLexer`, `JsonValue`, `JsonParser`, `JsonGrammar`

Characters are classes (a quote, a control character, the letters of the
literals and escapes, digits, parts of a surrogate pair); the lexer turns
them into tokens as the code does, lazily, one token per step of the parser.
`JsonParser` has one operator per parser state with both stacks.  `ImplementsGrammar`
maps state and stacks to what the grammar still requires.  `RoundTrip` starts
from the text `writeJsonString` makes of a value.  A double is one of some classes, each
with an amount, and is written as `toInvariantString` does, with six decimals and
without zeros at the end (`SixDecimals`): -0.5000004 becomes -0.5 and -0.0000004
becomes 0, which is read as an integer.

### Text: `UTF8String`, `URLEncoding`, `InetAddressValidator`

Strings are sequences of bytes.  `validateByte` is the body of the loop of
`validateString`, folded over the input.  Where `getIndexOf` reads behind the end of
its string its result is any of those it may have.  An address is a sequence of
tokens; the regular expressions are sets of token sequences.

## 3. Runs

| run | cfg | instance | shows |
|---|---|---|---|
| `cache` | `MCBeaconCache.cfg` | 2 beacons, 2 threads, 2 records of size 1, clock 0..1, prefix as long as the limit | `EmptyMeansNoData`, `NothingLost`, `CounterAgrees`, `NothingStuckBeingSent`, `KeptOrder`, `SendReturns` |
| `evictor` | `MCBeaconCacheEvictor.cfg` | 1 beacon, 1 thread, 2 records of size 1 or 2, clock 0..2, ticks and twice the records together 4, age 1, lower bound 1, upper bound 2 | `SleepsOnlyWithinBound`, `ImplementsCache`, `StopRequestEndsThread` |
| `sending` | `MCBeaconSending.cfg` | 2 sessions, 1 new session request each, no status retry, 1 action being left at a time, eviction | `OnlyFinishedLeave`, `DroppedOnlyWhenOff` |
| `sending_live` | `MCSendingLive.cfg` | 1 session, 1 status retry, eviction | `ShutdownTerminates`, `FinishedSessionsLeave` |
| `proxy` | `MCSessionProxy.cfg` | 2 threads and the watchdog, 1 action, 2 sessions, 1 tag, 1 event per session, split by time | `NoLockCycle`, `SplitOffIsWatched`, `WatchdogForgetsClosed`, `FinishedHasNoOpenAction`, `EndLeavesNothing`, `EveryCallReturns`, `SplitOffSessionsEnd` |
| `objects` | `MCActions.cfg` | 2 threads; 2 actions and a tracer, or 1 and 1 with a report; 3 privacy settings; 2 objects or 1 and a report while capturing is switched off at any time | `RecordedOnce`, `NoOrphans`, `WebRequestsWithinAction`, `PrivacyKept`, `NobodyStuck` |
| `capi` | `MCOpenKitC.cfg` | 1 instance with all trust modes; 1 with 2 sessions and 2 handles, or 1 session and 3; 2 from one configuration with a logger of the application, and 2 without | `ShutdownEndsAndSends`, `ThreadsHaveTheirInstance`, `OwnedOnce`, `ShutdownReturns` |
| `answers` | `MCAnswers.cfg` | 2 sessions, 3 requests of 3 attempts, 5 bodies, a refusal, an interim answer | `AnswerIsLastResponse`, `LatestSettingWins`, `AnswerDecidesSession`, `SessionSettingsStick`, `RequestReturns` |
| `text` | `MCText.cfg` | JSON texts of up to 2 characters, written values of every type nested in each other, each also with a character damaged, 2 calls of parse(); strings of up to 5 bytes of 7 kinds; all forms of addresses, with one token damaged | `RoundTrip`, `ImplementsGrammar`, `ValidUtf8`, `UrlRoundTrip`, `CutAtCharacters`, `AddressFormsAccepted` |
| `crash_unconfigured` | `MCCrashUnconfigured.cfg` | 2 threads and the watchdog, 2 actions, 3 sessions | violates `CrashAlwaysSplits` |
| `configuration_reuse` | `MCOpenKitCReuse.cfg` | 2 instances from one configuration without a logger | violates `ConfigurationServesInstances` |
| `invalid_utf8` | `MCTextReplaced.cfg` | as `text` | violates `InvalidIsReplaced` |

Why the bounds are enough for the cases meant: two threads that insert the same
key at once, an append to an entry deleted in between, a chunk that takes one of
two records, a record added between a copy and a reset, and one put back in
front of one added meanwhile, all need no more than two threads and two records.
The prefix of `cache` is as long as the limit, which is where a chunk could be empty.
In `sending`, two sessions are needed for the effect of one session's answer on
the next; one retry and one new session request exercise both branches of each
counter.  In `proxy`, two threads and the watchdog can be at the same session at
once, an action can keep a session open that is split off, and the proxy goes on with
another one, which is ended with it.  More actions, more sessions and a split of a
session that came from a split are beyond the bound of this run; its five safety
properties are proved for any number of each (section 4), the two liveness
properties are not.  In `evictor`, two records exceed the upper bound, and the strategy
goes on until the lower one, which is less; a record can be too old when it is added
or grow too old in two ticks.  Behaviours with two records have no tick.
In `objects`, a
thread leaves a parent while another leaves or cancels its child or opens a
new one; two actions make a root action and a leaf.  In `capi`, one session is
created while its instance shuts down and another is being ended; two instances
suffice for the count of instances and for a shared configuration.  In
`answers`, three requests allow a setting to be sent and then left out or sent with
another value, a session to be configured between two answers, and a beacon sent in the
same round as the new-session request.  In `text`, the bytes are the percent sign, a
reserved one, the first bytes of characters of two and four bytes, the two that
terminate a string together, and one that UTF-8 has not; the first byte of a
character of three bytes is there in U+FFFD itself.  Five of them allow a character of
four bytes with something before or behind it.
Deadlock checking is off: the bounds stop every instance, and the threads do stop
after shutdown.

**Fairness.**  `BeaconCache!FairSpec`: the sending thread is never blocked for
good by a lock (critical sections are finite), and the HTTP client has timeouts.
`FairEvictorSpec`: the eviction thread is scheduled unless it waits; nothing is
assumed about who adds or stops.  `BeaconSending!FairSpec`: the sending thread
runs unless asleep, and `requestShutdown` goes on to `wakeup`, the next
statement; no sleep is assumed to end by itself after shutdown, so
`ShutdownTerminates` rests on the wake-up alone.  `ResponsiveSpec` adds that
sleeps end by timeout before shutdown, and, for `FinishedSessionsLeave` only, that
a server asked again and again accepts a request sometime (strong fairness);
without that no session need ever leave the queue.  The property does not say that the
session's data reached the server: an error that is handled switches capturing
off and clears them.  `SessionProxy!FairSpec`: a thread
inside a call goes on, and gets a lock that is free again and again (strong
fairness: the mutexes promise no order, but no thread holds one for good);
the watchdog's loop goes on; and a session's grace period ends, because its
closing time is fixed when it is queued.  Nobody has to leave an action or call
end.  `Answers`: the sending thread goes on inside a request, and a transfer ends,
because libcurl's timeouts are set.  `OpenKitC`: only the thread that calls
`shutdownOpenKit` goes on; no thread it waits for has to stop, because joins end by
time.  `JsonParser`: the loop of `doParse` goes on.

**Refinement.**  `ImplementsCache`: the cache with its real evictor implements the
cache with an arbitrary one, so what is checked and proved of `BeaconCache` holds
with it.  `ImplementsGrammar`: the parser implements the grammar of JSON values, and
comes to a verdict; it refuses, with an internal error, exactly the objects
it cannot store (an empty key, or a number that `int64_t` cannot hold).

**What the violations show.**  `crash_unconfigured`: `reportCrash` before the
first answer of the server dereferences a null configuration when it splits the
session.  `configuration_reuse`: `OpenKit-c.h:326` offers a configuration for
"instances", but the logger that `createDynatraceOpenKit` makes for the first one stays
in it together with `ownsLoggerHandle`; the second instance gets it too, and is left
with a freed logger, which its own `shutdownOpenKit` frees again.  `OwnedOnce` holds
beside it because it excepts these very blocks (`reused`) and nothing else.
`invalid_utf8`: `docs/concepts.md:16` says that invalid characters are replaced by
U+FFFD; a character that breaks off at the end of the string is dropped, and bytes F8
to FF are passed over, inside of a character even taken for a part of it.  `ValidUtf8`
says what holds with these cases excepted (`BreaksOff`, `Foreign`, `Undetected`).

**Observations without a run of their own.**  The models contain these behaviours;
the properties are stated so that they hold beside them.

- Cache: an append that lost the race against `deleteCacheEntry` is counted for ever
  (`BeaconCache.cxx:60`), though `IBeaconCache.h:160` speaks of "bytes currently stored".
  Eviction does not decrease the counters its own loop condition reads
  (`BeaconCache.cxx:336`): the space strategy goes on below the lower bound of
  `docs/internals.md:105`, and a finished session whose records were evicted is never
  empty, gets no answer and blocks `sendFinishedSessions` at its place
  (`BeaconSendingCaptureOnState.cxx:121`; `Stuck` in `BeaconSending`), although
  `docs/internals.md:41` says that all finished sessions are sent.  The space strategy
  is disabled when the upper bound is less than the lower one
  (`SpaceEvictionStrategy.cxx:63`); `docs/internals.md:111` says "less than or equal".
  `evictor` has a lower bound below the upper one, `NeverSleepsThrough` holds for all.
- Sending: a session that another thread is just ending is skipped by both loops of
  the final flush (`BeaconSendingFlushSessionsState.cxx:44`).  Of the
  answers of a round one is handled (`BeaconSendingCaptureOnState.cxx:86`): the last to
  an open session, or else to a finished one, or else to a new one; not always the "last
  statusResponse received" of the comment at line 94, because a session without data puts
  a null pointer over the one before.  If it is an error, capturing is switched
  off and the sessions' data are cleared, also those that line 123 means to "retry
  later".
- Sessions: `SessionProxy::end` resets `mCurrentSession` without the lock under which
  `reportCarrier` and its siblings test and use it.  A split-off session that is ended
  by its last action gets an end event, one that the watchdog ends does not
  (`Session.cxx:422`, against the comment at `Session.cxx:359`).
- Objects: an action that one thread leaves may end after its parent, whom another
  thread leaves; the start of a session and business events are recorded whatever
  the privacy settings, also at the level that `DataCollectionLevel.h:31` describes as
  "data collection is off"; `sendEvent` keeps the application's other `dt.` attributes;
  numbers of bytes are narrowed from 64 to 32 bits (`Beacon.cxx:575`).
- Life cycle: a sending thread that was given up goes on with a raw pointer to a
  `BeaconSender` that may be released; one that is stopped before its first answer
  keeps its sessions, which keep their instance, and both are never released.  The
  same holds for a session whose end was under way at the flush.
- C interface: what holds of the logger (run `configuration_reuse`) holds of a trust
  manager that was made for a configuration whose mode is then changed to a custom one
  without a trust manager.  `waitForInitCompletionWithTimeout` returns false in every case.
- Answers: the merged attributes start from defaults with server id -1; a different
  application id turns capturing off in the context only; the split limits and
  the multiplicity a session is answered never reach its proxy if that has a
  configuration already; a beacon size is multiplied by 1024 without a test.
  The comment at `ServerConfiguration.cxx:164` names two of the ten settings that
  `merge` keeps.
- JSON: a member with an empty key is an internal error; after an unexpected token
  behind a colon the parser is not in its error state, and a second `parse()` reads on;
  an escape behind half a surrogate pair raises another exception than announced;
  a root that is no object is dereferenced as one.  `StringUtil.h:151` says that the
  precision with which a double is written guarantees a correct parsing again: it has
  six decimals, and a double beyond `int64_t` is written as an integer that the parser
  cannot hold, so that its member is refused (`RoundTrip` says what is read back).
- Text: a compressed IPv6 address may have any number of blocks.

## 4. Proofs

Every theorem below holds for every value of the constants: any number of
threads, beacons, sessions, actions, instances and handles, any bounds.  Each proof
has the same shape: an inductive invariant, a lemma that it holds initially,
one lemma per operation that a step keeps it, and the property as a
consequence.  All inductive invariants were checked with TLC on the run of their
module before they were proved.

| module | theorem | property |
|---|---|---|
| `BeaconCacheProofs` | `TypeCorrect`, `EmptyIsEmpty`, `NothingStuck` | `TypeOK`, `EmptyMeansNoData`, `NothingStuckBeingSent` |
| `BeaconCacheProofs` | `OrderKept`, `NoRecordLost`, `CounterNeverDrifts` | `KeptOrder`, `NothingLost`, `CounterAgrees` |
| `EvictorProofs` | `EvictorImplementsCache`, `NeverSleepsThrough` | `ImplementsCache` (refinement), `SleepsOnlyWithinBound` |
| `SendingProofs` | `OpenSessionsStay`, `UnsentDataIsKept` | `OnlyFinishedLeave`, `DroppedOnlyWhenOff` (action properties) |
| `SessionProxyProofs` | `LocksFormNoCycle`, `SplitOffIsNeverForgotten`, `OnlyKnownAreQueued`, `FinishedIsQuiet`, `EndIsThorough` | `NoLockCycle`, `SplitOffIsWatched`, `WatchdogForgetsClosed`, `FinishedHasNoOpenAction`, `EndLeavesNothing` |
| `ActionsProofs` | `EndsRecordedOnce`, `NothingOrphaned`, `WebRequestsWithin`, `RecordsAllowed` | `RecordedOnce`, `NoOrphans`, `WebRequestsWithinAction`, `PrivacyKept` |
| `AnswersProofs` | `LastAnswerCounts`, `LatestSettingIsKept`, `OnlyAnswersConfigure`, `SettingsStick` | `AnswerIsLastResponse`, `LatestSettingWins`, `AnswerDecidesSession`, `SessionSettingsStick` (action property) |
| `OpenKitCProofs` | `FreedExactlyOnce`, `RunningThreadsAreSafe`, `ShutdownIsThorough` | `OwnedOnce`, `ThreadsHaveTheirInstance`, `ShutdownEndsAndSends` |

`ListsProofs` holds the lemmas about `Erase`: it keeps the type, the order and
exactly the elements that are not erased.  The lemmas rest on ranks: the k-th
element left is the one with k kept positions up to its own.

**Assumptions.**  Each specification names what it assumes of its constants, and TLC
evaluates it in every run: a record has at least one byte (`SizeAssumption`), the
sets of beacon keys, threads and instances are finite (`CacheAssumption`,
`OpenKitCAssumption`: sums over them and the count of instances are numbers), a
server's answer has a sequence of header lines (`HTTPClientAssumption`), a value the
application gives an attribute is not one of OpenKit's own (`ActionsAssumption`; the
two are told apart by who made them), and the types of the bounds.  Nothing is
assumed about what servers answer or when.

**The invariants, and why they are needed.**

- *Cache* (`CacheInv`).  The bytes carried from `SendFail` to `SendResetCount` are a natural
  number only because resetting never decreases an entry's counter.  A counter of
  zero means no data because each entry's counter is at least the number of its
  records: appending adds at least one byte, copying empties the lists with
  the counter, resetting adds the bytes of what goes back, eviction only
  shortens the lists.  That nothing is stuck needs what each control point of the
  sending thread says about its entry, that keys do not share an entry, and that a
  deleted entry has nothing being sent.
- *Contents* (`RecordsInv`, `CounterInv`).  `KeptOrder` looks at an entry's lists, but a reset
  puts one list in front of another; it needs that everything being sent is older
  than everything added since (`Sound`), record by record.  `NothingLost` adds that no two
  entries hold the same record and none holds one that was acknowledged or
  evicted.  `CounterAgrees` is a sum over entries and threads, stated as the
  cardinality of a set of byte positions; the proof shows that a step changes one
  summand (`OneKey`, `SumsChange`).
- *Evictor* (`EvictorInv`, `WakesIfAbove`).  The refinement maps each evictor step to a
  step of the cache or none; it needs that the entry the thread holds exists and
  that the age it evicts by is a time that was.  For the wake-up: whoever lets the
  counter grow will notify (`TellsSoon`), and `mRecordAdded` is cleared before the
  counter is looked at, never after.
- *Sending* (`SendingInv`).  The thread works through lists that are snapshots, while
  others end sessions, add and evict records.  The invariant says what its local
  variables may still rely on: a session on a list of finished ones stays
  finished, keeps its capture flag, and the data it has after a successful send
  was added late; `clearAllSessionData` runs only with capturing off; data is always
  counted, so that an empty counter means nothing is left.  `OtherThreadKeeps` proves
  once for all other threads that they leave this alone.
- *Proxy* (`ProxyInv`).  Who holds which lock at which control point; that there is one
  thread that ends a session, and that an open action is still on its list; that
  the current session is marked for ending only while the thread that marked it
  replaces it.  The last is why the two lock orders form no cycle: the session
  that asks for the proxy's lock with its own held is not the current one.  Sessions
  are numbered without gaps, so a split always finds room that was tested before.
- *Objects* (`LeavingInv`, `PrivacyInv`).  A thread that leaves an object has a stack of
  calls, one for each object it closes on the way down, and other threads open,
  leave and cancel objects of the same tree meanwhile.  The invariant says of every
  call on every stack: it is the only one that leaves its object (`OneLeaves`), and an
  object that is marked has such a call (`LeftIsLeaving`); up to the step that adds
  the record nothing is recorded of it, afterwards one record, none if it was
  cancelled (`LeaveFits`); and its open children are in its copy of the list, or in the
  list itself before the copy is made.  The last is what excludes orphans: a child
  is entered only while its parent is not marked, so the copy is never too old.  An
  open child has a parent that is open or being left (`ChildFits`), which closes the
  argument from the session downwards.  For web requests the sequence number of an
  action's end is drawn after its tracers have theirs (`WebRequestFits`).  `PrivacyInv`
  says that every record is one that the settings permit (`Permitted`), the records
  that are built but not yet added included: the test
  and the adding are separate steps, and only the capture flag may change between them.
- *Answers* (`ClientInv`, `RoundInv`, `SessionInv`).  The parser holds exactly what libcurl passed on
  of the answer under way.  For the settings (`RoundInv`), the last value of each that was not
discarded is in the response which the end of the round will handle, if that has it, and
otherwise in the context already; the answer to a new session that is handled a second time
puts no older value back, because nothing of the round was applied after it; and an answer to
a finished session that one to an open session hides has nothing that was not
discarded or sent again.  Nothing configures a session while its own request is under
  way.  That settings stick rests on `MergeKeeps`: merging keeps every field but two, and
  building a configuration from a built one changes nothing.
- *C interface* (`KitsInv`, `BlocksInv`).  Two halves.  How far a shutdown has come fits the
  states of the three threads and of the instance's handle, every session that may
  have data is still with the sender, one call ends a session, and the count of
  instances is the number of those alive.  And: what a handle owns is one of
  OpenKit's own blocks, alive, and owned by it alone, unless a further instance got it
  from an earlier one; what may be freed twice or used afterwards is among those (`reused`).
  A configuration that owns no logger names one of the application's (`ConfigFits`), so
  that a configuration with a logger of its own can serve any number of instances.

**Only model-checked.**  All liveness (`SendReturns`, `StopRequestEndsThread`, `ShutdownTerminates`,
`FinishedSessionsLeave`, `EveryCallReturns`, `SplitOffSessionsEnd`, `ShutdownReturns`,
`RequestReturns`) and `NobodyStuck`, because fairness and ENABLED are outside the
prover's reach.  `RoundTrip` and `ImplementsGrammar`, because the JSON modules use
recursive operators, which the prover cannot work with; `ValidUtf8`, `UrlRoundTrip`,
`CutAtCharacters` and `AddressFormsAccepted`, because what these algorithms compute would
need induction over strings.

## 5. Not modelled, and what stays open

Not modelled: the text of beacons, logging, the calendar (durations are over or
not), libcurl, zlib, the network and regular expressions themselves (external), the accessors of
intercepted HTTP messages and the lists of strings they return, `waitForInitCompletion`,
setters of the C++ builder, hashes in `StringUtil`,
`CyclicBarrier` (tests only), platform code of `providers`, vendored code.
`SessionCreator`'s random numbers appear as a free choice.

Every safety property that does not need ENABLED, recursion or induction over strings
is proved; what is listed as only model-checked above stays with TLC.
