----------------------------- MODULE SendingProofs -----------------------------
(***************************************************************************)
(* Proofs for BeaconSending: a session leaves the queue only when it is    *)
(* finished, and the sending thread throws unsent data away only when      *)
(* capturing is off or in the final flush.                                 *)
(*                                                                         *)
(* Both are about one step; what they need of the state before it is the   *)
(* inductive invariant SendingInv: what the sending thread's local         *)
(* variables say about the sessions, although other threads have worked on *)
(* the sessions since the thread looked at them.                           *)
(***************************************************************************)
EXTENDS BeaconSending, ListsProofs

Pcs == {"execute", "sleep", "clear", "clearRemove", "request", "requested", "send", "sending",
        "initialized", "executed", "handled", "awake", "new", "finished", "finishedSent",
        "finishedRemove", "open", "openSent", "cleared", "flushNew", "flushOpen", "flush",
        "flushSent", "flushRemove", "stopped"}

SessionRecord ==
    [life : {"none", "open", "finishing", "finished"}, configured : BOOLEAN, capturing : BOOLEAN,
     remaining : Nat, data : BOOLEAN, counted : BOOLEAN, leaving : BOOLEAN, late : BOOLEAN]

LocalRecord ==
    [pc : Pcs, cont : Seq(Pcs), todo : Seq(Sessions), response : Responses \cup {"none"},
     last : Responses \cup {"none"}, retry : Nat, next : States \cup {"none"}]

SendTypeOK ==
    /\ mCurrentState \in States
    /\ mSessions \in Seq(Sessions)
    /\ ses \in [Sessions -> SessionRecord]
    /\ captureOn \in BOOLEAN
    /\ bs \in LocalRecord

(* The steps with a session in hand, the first one in todo. *)
InHand == {"clearRemove", "send", "sending", "finishedSent", "finishedRemove", "openSent",
           "flushSent", "flushRemove"}

(* The steps of a list of finished sessions. *)
OnFinished(b) ==
    \/ b.pc \in {"finished", "finishedSent", "finishedRemove", "flush", "flushSent", "flushRemove"}
    \/ b.pc \in {"send", "sending"} /\ b.cont # <<"openSent">>

(* The steps of the final flush. *)
InFlush(b) ==
    \/ b.pc \in {"flushNew", "flushOpen", "flush", "flushSent", "flushRemove"}
    \/ b.pc \in {"send", "sending"} /\ b.cont = <<"flushSent">>

(* Where calls return to. *)
ReturnsFit(b) ==
    /\ b.pc = "sleep" => b.cont \in {<<"request">>, <<"execute">>, <<"awake">>}
    /\ b.pc \in {"clear", "clearRemove"} =>
         b.cont \in {<<"sleep", "execute">>, <<"handled">>, <<"cleared">>}
    /\ b.pc \in {"send", "sending"} =>
         b.cont \in {<<"finishedSent">>, <<"openSent">>, <<"flushSent">>}

(* What a finished session in hand still has came late, once it was sent. *)
SentIsGone(b, S) ==
    /\ \/ b.pc = "sending" /\ b.cont = <<"finishedSent">>
       \/ b.pc = "finishedSent" /\ b.response \in {"on", "off", "none"}
       => (S[Head(b.todo)].data => S[Head(b.todo)].late)
    /\ b.pc = "finishedRemove" =>
         (S[Head(b.todo)].data => S[Head(b.todo)].late \/ ~S[Head(b.todo)].capturing)

LocalFits(b, S) ==
    /\ ReturnsFit(b)
    /\ b.pc \in InHand => b.todo # <<>>
    /\ OnFinished(b) => \A i \in 1..Len(b.todo) : S[b.todo[i]].life = "finished"
    /\ SentIsGone(b, S)

SendingInv ==
    /\ SendTypeOK
    /\ LocalFits(bs, ses)
    /\ bs.pc \in {"clear", "clearRemove"} => ~captureOn
    /\ InFlush(bs) => mCurrentState = "FlushSessions"
    /\ \A s \in Sessions : ses[s].data => ses[s].counted

-----------------------------------------------------------------------------
(* The types, as single facts. *)
LEMMA LocalTypes ==
    ASSUME SendingInv
    PROVE  /\ bs \in LocalRecord /\ bs.todo \in Seq(Sessions) /\ mSessions \in Seq(Sessions)
           /\ bs.cont \in Seq(Pcs) /\ bs.response \in Responses \cup {"none"}
           /\ ses \in [Sessions -> SessionRecord] /\ mCurrentState \in States /\ captureOn \in BOOLEAN
BY DEF SendingInv, SendTypeOK, LocalRecord

(* The first session of a list, and the rest. *)
LEMMA FirstAndRest ==
    ASSUME NEW q \in Seq(Sessions), q # <<>>
    PROVE  /\ Head(q) \in Sessions /\ 1 \in 1..Len(q) /\ Head(q) = q[1]
           /\ Tail(q) \in Seq(Sessions)
           /\ \A i \in 1..Len(Tail(q)) : i + 1 \in 1..Len(q) /\ Tail(q)[i] = q[i + 1]
OBVIOUS

(* A snapshot of the queue holds sessions of the kind asked for. *)
LEMMA QueuedFacts ==
    ASSUME SendingInv, NEW S
    PROVE  /\ Queued(S) \in Seq(Sessions)
           /\ \A i \in 1..Len(Queued(S)) : Queued(S)[i] \in S
<1>1. mSessions \in Seq(Sessions)
  BY LocalTypes
<1>2. Queued(S) \in Seq(Sessions)
  BY <1>1, EraseType DEF Queued
<1>3. \A i \in 1..Len(Queued(S)) : Queued(S)[i] \notin Sessions \ S
  BY <1>1, EraseElements DEF Queued
<1>4. \A i \in 1..Len(Queued(S)) : Queued(S)[i] \in Sessions
  BY <1>2
<1> QED BY <1>2, <1>3, <1>4

(* A record, captured or cleared, of one session. *)
LEMMA RecordFacts ==
    ASSUME NEW x \in SessionRecord
    PROVE  /\ Captured(x) \in SessionRecord /\ Captured(x).life = x.life
           /\ Captured(x).capturing = x.capturing /\ Captured(x).late = x.late
           /\ Captured(x).data = TRUE /\ Captured(x).counted = TRUE
           /\ Captured(x).leaving = x.leaving
           /\ Cleared(x) \in SessionRecord /\ Cleared(x).life = x.life
           /\ Cleared(x).capturing = x.capturing /\ Cleared(x).late = x.late
           /\ Cleared(x).data = FALSE /\ Cleared(x).counted = FALSE
BY DEF SessionRecord, Captured, Cleared

(* Short lists of steps to return to. *)
LEMMA ReturnLists ==
    /\ \A a : Head(<<a>>) = a /\ Tail(<<a>>) = <<>>
    /\ \A a, b : Head(<<a, b>>) = a /\ Tail(<<a, b>>) = <<b>>
OBVIOUS

(* Such lists are lists of steps. *)
LEMMA ReturnTypes ==
    /\ <<>> \in Seq(Pcs)
    /\ \A a \in Pcs : <<a>> \in Seq(Pcs)
    /\ \A a, b \in Pcs : <<a, b>> \in Seq(Pcs)
OBVIOUS

-----------------------------------------------------------------------------
(* What another thread may do to a session that the sending thread holds. *)
Tolerated(old, new) ==
    /\ new.data => new.counted
    /\ old.life = "finished" =>
         /\ new.life = "finished" /\ new.capturing = old.capturing
         /\ new.data => old.data \/ new.late
         /\ old.late => new.late

(* A step of another thread: nothing the sending thread relies on changes. *)
LEMMA OtherThreadKeeps ==
    ASSUME SendingInv, NEW s \in Sessions, NEW x \in SessionRecord, Tolerated(ses[s], x),
           ses' = [ses EXCEPT ![s] = x], mSessions' \in Seq(Sessions), UNCHANGED appUnchanged
    PROVE  SendingInv'
<1>1. bs' = bs /\ mCurrentState' = mCurrentState /\ captureOn' = captureOn
  BY DEF appUnchanged
<1>2. /\ ses' \in [Sessions -> SessionRecord] /\ ses'[s] = x
      /\ \A r \in Sessions : r # s => ses'[r] = ses[r]
  BY LocalTypes
<1>3. \A r \in Sessions :
         /\ ses[r].life = "finished" =>
              /\ ses'[r].life = "finished" /\ ses'[r].capturing = ses[r].capturing
              /\ ses'[r].data => ses[r].data \/ ses'[r].late
              /\ ses[r].late => ses'[r].late
         /\ ses'[r].data => ses'[r].counted
  BY <1>2 DEF Tolerated, SendingInv
<1>4. \A i \in 1..Len(bs.todo) : bs.todo[i] \in Sessions
  BY LocalTypes
<1>5. OnFinished(bs) => \A i \in 1..Len(bs.todo) : ses'[bs.todo[i]].life = "finished"
  BY <1>3, <1>4 DEF SendingInv, LocalFits
<1>6. SentIsGone(bs, ses')
  <2>1. CASE \/ bs.pc = "sending" /\ bs.cont = <<"finishedSent">>
             \/ bs.pc \in {"finishedSent", "finishedRemove"}
    <3>1. bs.todo # <<>>
      BY <2>1 DEF SendingInv, LocalFits, InHand
    <3>2. OnFinished(bs)
      <4>1. <<"finishedSent">> # <<"openSent">>
        BY ReturnLists
      <4> QED BY <2>1, <4>1 DEF OnFinished
    <3>3. Head(bs.todo) \in Sessions /\ ses[Head(bs.todo)].life = "finished"
      BY <3>1, <3>2, LocalTypes, FirstAndRest DEF SendingInv, LocalFits
    <3> QED BY <1>3, <3>3 DEF SendingInv, LocalFits, SentIsGone
  <2>2. CASE ~ (\/ bs.pc = "sending" /\ bs.cont = <<"finishedSent">>
                \/ bs.pc \in {"finishedSent", "finishedRemove"})
    BY <2>2 DEF SentIsGone
  <2> QED BY <2>1, <2>2
<1>7. LocalFits(bs', ses')
  BY <1>1, <1>5, <1>6 DEF SendingInv, LocalFits
<1>8. SendTypeOK'
  BY <1>1, <1>2, LocalTypes DEF SendTypeOK
<1> QED BY <1>1, <1>3, <1>7, <1>8 DEF SendingInv

(* A step of another thread that touches no session. *)
LEMMA NoSessionTouched ==
    ASSUME SendingInv, UNCHANGED <<appUnchanged, mSessions, ses>>
    PROVE  SendingInv'
<1>1. /\ bs' = bs /\ mCurrentState' = mCurrentState /\ captureOn' = captureOn
      /\ mSessions' = mSessions /\ ses' = ses
  BY DEF appUnchanged
<1> QED BY <1>1 DEF SendingInv, SendTypeOK

(* Application threads and the evictor. *)
LEMMA AppStepKeeps == SendingInv /\ AppStep => SendingInv'
<1> SUFFICES ASSUME SendingInv, AppStep PROVE SendingInv'
  OBVIOUS
<1>0. \A s \in Sessions : ses[s] \in SessionRecord /\ (ses[s].data => ses[s].counted)
  BY LocalTypes DEF SendingInv
<1>1. CASE requestShutdown \/ wakeup
  BY <1>1, NoSessionTouched DEF requestShutdown, wakeup
<1>2. ASSUME NEW s \in Sessions, NEW kind \in {"new", "byTime", "byEvents"}, NEW c \in BOOLEAN,
             CreateSession(s, kind, c)
      PROVE  SendingInv'
  <2> DEFINE p == kind = "byEvents"
             x == [ses[s] EXCEPT !.life = "open", !.configured = p, !.capturing = c]
  <2>1. ses' = [ses EXCEPT ![s] = x] /\ ses[s].life = "none" /\ UNCHANGED appUnchanged
    BY <1>2, LocalTypes DEF CreateSession
  <2>2. mSessions' \in Seq(Sessions)
    BY <1>2, LocalTypes DEF CreateSession
  <2>3. p \in BOOLEAN
    OBVIOUS
  <2> HIDE DEF p
  <2>4. x \in SessionRecord /\ x.data = ses[s].data /\ x.counted = ses[s].counted
    BY <1>0, <2>3 DEF SessionRecord
  <2>5. Tolerated(ses[s], x)
    BY <1>0, <2>1, <2>4 DEF Tolerated
  <2> HIDE DEF x
  <2> QED BY <2>1, <2>2, <2>4, <2>5, OtherThreadKeeps
<1>3. ASSUME NEW s \in Sessions, Capture(s) PROVE SendingInv'
  <2>1. /\ ses' = [ses EXCEPT ![s] = Captured(ses[s])] /\ ses[s].life \in {"open", "finishing"}
        /\ UNCHANGED appUnchanged /\ mSessions' = mSessions
    BY <1>3 DEF Capture
  <2>2. Tolerated(ses[s], Captured(ses[s]))
    BY <1>0, <2>1, RecordFacts DEF Tolerated
  <2> QED BY <1>0, <2>1, <2>2, RecordFacts, LocalTypes, OtherThreadKeeps
<1>4. ASSUME NEW s \in Sessions, LeaveBegin(s) PROVE SendingInv'
  <2> DEFINE x == [ses[s] EXCEPT !.leaving = TRUE]
  <2>1. /\ ses' = [ses EXCEPT ![s] = x] /\ UNCHANGED appUnchanged /\ mSessions' = mSessions
    BY <1>4 DEF LeaveBegin
  <2>2. /\ x \in SessionRecord /\ x.data = ses[s].data /\ x.counted = ses[s].counted
        /\ x.life = ses[s].life /\ x.capturing = ses[s].capturing /\ x.late = ses[s].late
    BY <1>0 DEF SessionRecord
  <2> HIDE DEF x
  <2>3. Tolerated(ses[s], x)
    BY <1>0, <2>2 DEF Tolerated
  <2> QED BY <2>1, <2>2, <2>3, LocalTypes, OtherThreadKeeps
<1>5. ASSUME NEW s \in Sessions, LeaveEnd(s) PROVE SendingInv'
  <2> DEFINE y == IF ses[s].capturing THEN Captured(ses[s]) ELSE ses[s]
             l == y.late \/ (ses[s].capturing /\ ses[s].life = "finished")
             x == [y EXCEPT !.leaving = FALSE, !.late = l]
  <2>1. /\ ses' = [ses EXCEPT ![s] =
                     [y EXCEPT !.leaving = FALSE,
                               !.late = @ \/ (ses[s].capturing /\ ses[s].life = "finished")]]
        /\ UNCHANGED appUnchanged /\ mSessions' = mSessions
    BY <1>5 DEF LeaveEnd
  <2>2. /\ y \in SessionRecord /\ y.life = ses[s].life /\ y.capturing = ses[s].capturing
        /\ y.late = ses[s].late /\ (y.data => y.counted)
        /\ y.data => ses[s].data \/ ses[s].capturing
    BY <1>0, RecordFacts
  <2>3. l \in BOOLEAN
    OBVIOUS
  <2>4. (ses[s].late => l) /\ (ses[s].capturing /\ ses[s].life = "finished" => l)
    BY <2>2
  <2>7. [y EXCEPT !.leaving = FALSE,
                  !.late = @ \/ (ses[s].capturing /\ ses[s].life = "finished")] = x
    OBVIOUS
  <2> HIDE DEF y, l
  <2>5. /\ x \in SessionRecord /\ x.data = y.data /\ x.counted = y.counted
        /\ x.life = y.life /\ x.capturing = y.capturing /\ x.late = l
    BY <2>2, <2>3 DEF SessionRecord
  <2> HIDE DEF x
  <2>6. Tolerated(ses[s], x)
    BY <2>2, <2>4, <2>5 DEF Tolerated
  <2> QED BY <2>1, <2>5, <2>6, <2>7, LocalTypes, OtherThreadKeeps
<1>6. ASSUME NEW s \in Sessions, EndBegin(s) PROVE SendingInv'
  <2> DEFINE x == [ses[s] EXCEPT !.life = "finishing"]
  <2>1. /\ ses' = [ses EXCEPT ![s] = x] /\ UNCHANGED appUnchanged /\ mSessions' = mSessions
        /\ ses[s].life = "open"
    BY <1>6 DEF EndBegin
  <2>2. x \in SessionRecord /\ x.data = ses[s].data /\ x.counted = ses[s].counted
    BY <1>0 DEF SessionRecord
  <2> HIDE DEF x
  <2>3. Tolerated(ses[s], x)
    BY <1>0, <2>1, <2>2 DEF Tolerated
  <2> QED BY <2>1, <2>2, <2>3, LocalTypes, OtherThreadKeeps
<1>7. ASSUME NEW s \in Sessions, NEW event \in BOOLEAN, EndFinish(s, event) PROVE SendingInv'
  <2> DEFINE y == IF event /\ ses[s].capturing THEN Captured(ses[s]) ELSE ses[s]
             x == [y EXCEPT !.life = "finished"]
  <2>1. /\ ses' = [ses EXCEPT ![s] = x] /\ UNCHANGED appUnchanged /\ mSessions' = mSessions
        /\ ses[s].life = "finishing"
    BY <1>7 DEF EndFinish
  <2>2. y \in SessionRecord /\ (y.data => y.counted)
    BY <1>0, RecordFacts
  <2> HIDE DEF y
  <2>3. x \in SessionRecord /\ x.data = y.data /\ x.counted = y.counted
    BY <2>2 DEF SessionRecord
  <2> HIDE DEF x
  <2>4. Tolerated(ses[s], x)
    BY <2>1, <2>2, <2>3 DEF Tolerated
  <2> QED BY <2>1, <2>3, <2>4, LocalTypes, OtherThreadKeeps
<1>8. ASSUME NEW s \in Sessions, EvictRecords(s) PROVE SendingInv'
  <2> DEFINE x == [ses[s] EXCEPT !.data = FALSE]
  <2>1. /\ ses' = [ses EXCEPT ![s] = x] /\ UNCHANGED appUnchanged /\ mSessions' = mSessions
    BY <1>8 DEF EvictRecords
  <2>2. /\ x \in SessionRecord /\ x.data = FALSE
        /\ x.life = ses[s].life /\ x.capturing = ses[s].capturing /\ x.late = ses[s].late
    BY <1>0 DEF SessionRecord
  <2> HIDE DEF x
  <2>3. Tolerated(ses[s], x)
    BY <2>2 DEF Tolerated
  <2> QED BY <2>1, <2>2, <2>3, LocalTypes, OtherThreadKeeps
<1> QED BY <1>1, <1>2, <1>3, <1>4, <1>5, <1>6, <1>7, <1>8 DEF AppStep

-----------------------------------------------------------------------------
(* Steps at which the sending thread has nothing in hand and no list of    *)
(* finished sessions.                                                      *)
Free == {"execute", "request", "requested", "initialized", "executed", "handled", "awake", "new",
         "open", "cleared", "flushNew", "flushOpen", "stopped"}

(* The sessions are well-formed after the step. *)
SessionsSound == ses \in [Sessions -> SessionRecord] /\ \A s \in Sessions : ses[s].data => ses[s].counted

(* A step that changes no session leaves them well-formed. *)
LEMMA SessionsStay == ASSUME SendingInv, ses' = ses PROVE SessionsSound'
BY DEF SendingInv, SendTypeOK, SessionsSound

(* The sending thread goes to a step where it relies on nothing. *)
LEMMA FreeStep ==
    ASSUME SendingInv, NEW b \in LocalRecord, bs' = b, b.pc \in Free,
           b.pc \in {"flushNew", "flushOpen"} => mCurrentState' = "FlushSessions",
           mCurrentState' \in States, mSessions' \in Seq(Sessions), captureOn' \in BOOLEAN,
           SessionsSound'
    PROVE  SendingInv'
<1>1. ReturnsFit(b) /\ b.pc \notin InHand /\ ~OnFinished(b) /\ SentIsGone(b, ses')
  BY DEF ReturnsFit, InHand, OnFinished, SentIsGone, Free
<1>2. LocalFits(b, ses')
  BY <1>1 DEF LocalFits
<1>3. (InFlush(b) => mCurrentState' = "FlushSessions") /\ b.pc \notin {"clear", "clearRemove"}
  BY DEF InFlush, Free
<1>4. SendTypeOK'
  BY DEF SendTypeOK, SessionsSound
<1> QED BY <1>2, <1>3, <1>4 DEF SendingInv, SessionsSound

(* It goes to sleep. *)
LEMMA SleepStep ==
    ASSUME SendingInv, NEW b \in LocalRecord, bs' = b, b.pc = "sleep",
           b.cont \in {<<"request">>, <<"execute">>, <<"awake">>},
           UNCHANGED <<mCurrentState, mSessions, ses>>, captureOn' \in BOOLEAN
    PROVE  SendingInv'
<1>1. LocalFits(b, ses')
  BY DEF LocalFits, ReturnsFit, InHand, OnFinished, SentIsGone
<1>2. ~InFlush(b)
  BY DEF InFlush
<1>3. SendTypeOK'
  BY LocalTypes DEF SendTypeOK
<1> QED BY <1>1, <1>2, <1>3 DEF SendingInv

(* It is clearing data, with capturing switched off. *)
LEMMA ClearStep ==
    ASSUME SendingInv, NEW b \in LocalRecord, bs' = b,
           b.pc = "clear" \/ (b.pc = "clearRemove" /\ b.todo # <<>>),
           b.cont \in {<<"sleep", "execute">>, <<"handled">>, <<"cleared">>},
           mCurrentState' = mCurrentState, mSessions' \in Seq(Sessions), captureOn' = FALSE,
           SessionsSound'
    PROVE  SendingInv'
<1>1. LocalFits(b, ses')
  BY DEF LocalFits, ReturnsFit, InHand, OnFinished, SentIsGone
<1>2. ~InFlush(b)
  BY DEF InFlush
<1>3. SendTypeOK'
  BY LocalTypes DEF SendTypeOK, SessionsSound
<1> QED BY <1>1, <1>2, <1>3 DEF SendingInv, SessionsSound

(* It begins with a list of finished sessions, or goes on with it. *)
LEMMA ListStep ==
    ASSUME SendingInv, NEW b \in LocalRecord, bs' = b, b.pc \in {"finished", "flush"},
           \A i \in 1..Len(b.todo) : ses'[b.todo[i]].life = "finished",
           b.pc = "flush" => mCurrentState = "FlushSessions", mCurrentState' = mCurrentState,
           mSessions' \in Seq(Sessions), captureOn' \in BOOLEAN, SessionsSound'
    PROVE  SendingInv'
<1>1. LocalFits(b, ses')
  BY DEF LocalFits, ReturnsFit, InHand, OnFinished, SentIsGone
<1>2. InFlush(b) => mCurrentState' = "FlushSessions"
  BY DEF InFlush
<1>3. SendTypeOK'
  BY LocalTypes DEF SendTypeOK, SessionsSound
<1> QED BY <1>1, <1>2, <1>3 DEF SendingInv, SessionsSound

(* It has a session in hand. *)
LEMMA InHandStep ==
    ASSUME SendingInv, NEW b \in LocalRecord, bs' = b,
           b.pc \in InHand \ {"clearRemove"}, b.todo # <<>>,
           b.pc \in {"send", "sending"} => b.cont \in {<<"finishedSent">>, <<"openSent">>, <<"flushSent">>},
           OnFinished(b) => \A i \in 1..Len(b.todo) : ses'[b.todo[i]].life = "finished",
           InFlush(b) => mCurrentState = "FlushSessions", mCurrentState' = mCurrentState,
           SentIsGone(b, ses'), SessionsSound', UNCHANGED <<mSessions, captureOn>>
    PROVE  SendingInv'
<1>1. LocalFits(b, ses')
  BY DEF LocalFits, ReturnsFit, InHand
<1>2. SendTypeOK'
  BY LocalTypes DEF SendTypeOK, SessionsSound
<1>3. b.pc \notin {"clear", "clearRemove"}
  BY DEF InHand
<1> QED BY <1>1, <1>2, <1>3 DEF SendingInv, SessionsSound

(* One session gets another record, as sound as the old one. *)
LEMMA OneSession ==
    ASSUME SendingInv, NEW s \in Sessions, NEW x \in SessionRecord, x.data => x.counted,
           ses' = [ses EXCEPT ![s] = x]
    PROVE  /\ SessionsSound' /\ ses'[s] = x
           /\ \A r \in Sessions : r # s => ses'[r] = ses[r]
<1>1. /\ ses' \in [Sessions -> SessionRecord] /\ ses'[s] = x
      /\ \A r \in Sessions : r # s => ses'[r] = ses[r]
  BY LocalTypes
<1>2. \A r \in Sessions : ses'[r].data => ses'[r].counted
  BY <1>1 DEF SendingInv
<1> QED BY <1>1, <1>2 DEF SessionsSound

(* The sessions' records as they are. *)
LEMMA OldSession ==
    ASSUME SendingInv, NEW s \in Sessions
    PROVE  ses[s] \in SessionRecord /\ (ses[s].data => ses[s].counted)
BY LocalTypes DEF SendingInv

(* The lists of finished sessions, one session further. *)
LEMMA RestFinished ==
    ASSUME SendingInv, OnFinished(bs), bs.todo # <<>>
    PROVE  /\ \A i \in 1..Len(bs.todo) : bs.todo[i] \in Sessions /\ ses[bs.todo[i]].life = "finished"
           /\ \A i \in 1..Len(Tail(bs.todo)) :
                 Tail(bs.todo)[i] \in Sessions /\ ses[Tail(bs.todo)[i]].life = "finished"
           /\ Head(bs.todo) \in Sessions /\ ses[Head(bs.todo)].life = "finished"
<1>1. \A i \in 1..Len(bs.todo) : bs.todo[i] \in Sessions /\ ses[bs.todo[i]].life = "finished"
  BY LocalTypes DEF SendingInv, LocalFits
<1> QED BY <1>1, LocalTypes, FirstAndRest

(* What sendVars' local record becomes: the fields that a step replaces. *)
LEMMA LocalFields ==
    ASSUME SendingInv, NEW pc \in Pcs
    PROVE  /\ [bs EXCEPT !.pc = pc] \in LocalRecord /\ [bs EXCEPT !.pc = pc].pc = pc
           /\ [bs EXCEPT !.pc = pc].cont = bs.cont /\ [bs EXCEPT !.pc = pc].todo = bs.todo
           /\ [bs EXCEPT !.pc = pc].response = bs.response
BY LocalTypes DEF LocalRecord

-----------------------------------------------------------------------------
(* Sleeping, and returning from it. *)
LEMMA SleepKeeps ==
    ASSUME SendingInv, bs.pc = "sleep", Return, UNCHANGED sharedUnchanged
    PROVE  SendingInv'
<1> DEFINE b == [bs EXCEPT !.pc = Head(bs.cont), !.cont = Tail(bs.cont)]
<1>1. Head(bs.cont) \in {"request", "execute", "awake"} /\ Tail(bs.cont) = <<>>
  BY ReturnLists DEF SendingInv, LocalFits, ReturnsFit
<1>2. b \in LocalRecord /\ b.pc = Head(bs.cont)
  <2>1. Head(bs.cont) \in Pcs /\ Tail(bs.cont) \in Seq(Pcs)
    BY ZenonT(60), <1>1, ReturnTypes DEF Pcs
  <2> QED BY <2>1, LocalTypes DEF LocalRecord
<1>3. bs' = b /\ ses' = ses /\ mSessions' = mSessions /\ mCurrentState' = mCurrentState /\ captureOn' = captureOn
  BY DEF Return, sharedUnchanged
<1> HIDE DEF b
<1> QED BY <1>1, <1>2, <1>3, FreeStep, SessionsStay, LocalTypes DEF Free

(* clearAllSessionData. *)
LEMMA ClearKeeps ==
    ASSUME SendingInv, ClearData \/ ClearRemove
    PROVE  SendingInv'
<1>1. /\ captureOn = FALSE /\ bs.cont \in {<<"sleep", "execute">>, <<"handled">>, <<"cleared">>}
      /\ captureOn' = captureOn /\ mCurrentState' = mCurrentState
  BY LocalTypes DEF ClearData, ClearRemove, SendingInv, LocalFits, ReturnsFit
<1>2. CASE ClearData /\ bs.todo = <<>>
  <2> DEFINE b == [bs EXCEPT !.pc = Head(bs.cont), !.cont = Tail(bs.cont)]
  <2>1. /\ bs' = b /\ ses' = ses /\ mSessions' = mSessions
    BY <1>2 DEF ClearData, Return
  <2>2. \/ Head(bs.cont) = "sleep" /\ Tail(bs.cont) = <<"execute">>
        \/ Head(bs.cont) \in {"handled", "cleared"} /\ Tail(bs.cont) = <<>>
    BY <1>1, ReturnLists
  <2>3. b \in LocalRecord /\ b.pc = Head(bs.cont) /\ b.cont = Tail(bs.cont)
    <3>1. "execute" \in Pcs /\ "sleep" \in Pcs /\ "handled" \in Pcs /\ "cleared" \in Pcs
      BY DEF Pcs
    <3>2. Tail(bs.cont) \in Seq(Pcs) /\ Head(bs.cont) \in Pcs
      BY <2>2, <3>1, ReturnTypes
    <3> QED BY <3>2, LocalTypes DEF LocalRecord
  <2> HIDE DEF b
  <2>4. CASE Head(bs.cont) = "sleep"
    <3>1. b.cont = <<"execute">> /\ b.pc = "sleep"
      BY <2>2, <2>3, <2>4
    <3> QED BY <1>1, <2>1, <2>3, <3>1, SleepStep
  <2>5. CASE Head(bs.cont) \in {"handled", "cleared"}
    BY <1>1, <2>1, <2>3, <2>5, FreeStep, SessionsStay, LocalTypes DEF Free
  <2> QED BY <2>2, <2>4, <2>5
<1>3. CASE ClearData /\ bs.todo # <<>>
  <2> DEFINE h == Head(bs.todo)
             b == [bs EXCEPT !.pc = "clearRemove"]
  <2>1. /\ bs' = b /\ ses' = [ses EXCEPT ![h] = Cleared(ses[h])] /\ mSessions' = mSessions
    BY <1>3 DEF ClearData, Goto
  <2>2. h \in Sessions
    BY <1>3, LocalTypes, FirstAndRest
  <2>3. SessionsSound'
    BY <2>1, <2>2, OldSession, RecordFacts, OneSession
  <2>4. b \in LocalRecord /\ b.pc = "clearRemove" /\ b.todo = bs.todo /\ b.cont = bs.cont
    BY LocalFields DEF Pcs
  <2> HIDE DEF b, h
  <2> QED BY <1>1, <1>3, <2>1, <2>3, <2>4, ClearStep, LocalTypes
<1>4. CASE ClearRemove
  <2> DEFINE b == [bs EXCEPT !.pc = "clear", !.todo = Tail(@)]
  <2>1. bs' = b /\ ses' = ses /\ bs.todo # <<>>
    BY <1>4 DEF ClearRemove, SendingInv, LocalFits, InHand
  <2>2. b \in LocalRecord /\ b.pc = "clear" /\ b.cont = bs.cont
    BY <2>1, LocalTypes, FirstAndRest DEF LocalRecord, Pcs
  <2>3. mSessions' \in Seq(Sessions)
    BY <1>4, LocalTypes, EraseType DEF ClearRemove
  <2> HIDE DEF b
  <2> QED BY <1>1, <2>1, <2>2, <2>3, ClearStep, SessionsStay
<1> QED BY <1>2, <1>3, <1>4

(* The context's handleStatusResponse, from which the thread goes on as handled. *)
LEMMA HandleKeeps ==
    ASSUME SendingInv, NEW r \in Responses \cup {"none"}, HandleStatusResponse(r, <<"handled">>)
    PROVE  SendingInv'
<1>1. /\ mCurrentState' = mCurrentState /\ mSessions' = mSessions /\ ses' = ses
      /\ captureOn' = (r = "on")
  BY DEF HandleStatusResponse
<1>2. CASE r = "on"
  <2> DEFINE b == [bs EXCEPT !.pc = "handled", !.cont = <<>>,
                             !.response = r, !.last = "none"]
  <2>1. bs' = b
    BY <1>2, ReturnLists DEF HandleStatusResponse
  <2>2. b \in LocalRecord /\ b.pc = "handled"
    <3>1. "handled" \in Pcs
      BY DEF Pcs
    <3> QED BY <3>1, ReturnTypes, LocalTypes DEF LocalRecord
  <2> HIDE DEF b
  <2> QED BY <1>1, <2>1, <2>2, FreeStep, SessionsStay, LocalTypes DEF Free
<1>3. CASE r # "on"
  <2> DEFINE b == [bs EXCEPT !.pc = "clear", !.todo = mSessions, !.cont = <<"handled">>,
                             !.response = r, !.last = "none"]
  <2>1. bs' = b
    BY <1>3 DEF HandleStatusResponse
  <2>2. b \in LocalRecord /\ b.pc = "clear" /\ b.cont = <<"handled">>
    <3>1. <<"handled">> \in Seq(Pcs)
      BY DEF Pcs
    <3> QED BY <3>1, LocalTypes DEF LocalRecord, Pcs
  <2>3. captureOn' = FALSE
    BY <1>1, <1>3
  <2> HIDE DEF b
  <2> QED BY <1>1, <2>1, <2>2, <2>3, ClearStep, SessionsStay, LocalTypes
<1> QED BY <1>2, <1>3

(* From a step to one where the thread relies on nothing. *)
LEMMA GotoKeeps ==
    ASSUME SendingInv, NEW pc \in Free \ {"flushNew", "flushOpen"}, Goto(pc),
           UNCHANGED <<mCurrentState, mSessions, ses, captureOn>>
    PROVE  SendingInv'
<1> DEFINE b == [bs EXCEPT !.pc = pc]
<1>1. pc \in Pcs
  BY DEF Free, Pcs
<1>2. b \in LocalRecord /\ b.pc = pc /\ bs' = b
  BY <1>1, LocalFields DEF Goto
<1> HIDE DEF b
<1> QED BY <1>2, FreeStep, SessionsStay, LocalTypes

(* The status request begins. *)
LEMMA StartKeeps ==
    ASSUME SendingInv, StartRequest, UNCHANGED <<mCurrentState, mSessions, ses, captureOn>>
    PROVE  SendingInv'
<1> DEFINE b == [bs EXCEPT !.pc = "request", !.response = "none", !.retry = 0]
<1>1. b \in LocalRecord /\ b.pc = "request" /\ bs' = b
  BY LocalTypes DEF LocalRecord, Pcs, StartRequest
<1> HIDE DEF b
<1> QED BY <1>1, FreeStep, SessionsStay, LocalTypes DEF Free

(* doExecute is left, with a next state or without. *)
LEMMA LeaveKeeps ==
    ASSUME SendingInv, NEW state \in States \cup {"none"}, LeaveFor(state),
           UNCHANGED <<mCurrentState, mSessions, ses, captureOn>>
    PROVE  SendingInv'
<1> DEFINE b == [pc |-> "executed", cont |-> <<>>, todo |-> <<>>, response |-> "none",
                 last |-> "none", retry |-> 0, next |-> state]
<1>0. "executed" \in Pcs /\ <<>> \in Seq(Pcs) /\ <<>> \in Seq(Sessions)
  BY DEF Pcs
<1>1. b \in LocalRecord /\ b.pc = "executed" /\ bs' = b
  BY <1>0 DEF LocalRecord, LeaveFor
<1> HIDE DEF b
<1> QED BY <1>1, FreeStep, SessionsStay, LocalTypes DEF Free

(* Or with the one that was set before. *)
LEMMA LeaveAsSet ==
    ASSUME SendingInv, Leave, UNCHANGED <<mCurrentState, mSessions, ses, captureOn>>
    PROVE  SendingInv'
<1>1. bs.next \in States \cup {"none"}
  BY LocalTypes DEF LocalRecord
<1> QED BY <1>1, LeaveKeeps DEF Leave

(* The next session of a list whose elements the thread does not rely on. *)
LEMMA NextSessionKeeps ==
    ASSUME SendingInv, NEW pc \in {"new", "open", "flushNew", "flushOpen"}, NextSession(pc),
           bs.todo # <<>>, pc \in {"flushNew", "flushOpen"} => bs.pc = pc,
           UNCHANGED <<mCurrentState, mSessions, captureOn>>, SessionsSound'
    PROVE  SendingInv'
<1> DEFINE b == [bs EXCEPT !.pc = pc, !.todo = Tail(@)]
<1>0. pc \in Pcs /\ pc \in Free
  BY DEF Pcs, Free
<1>1. b \in LocalRecord /\ b.pc = pc /\ bs' = b
  BY <1>0, LocalTypes, FirstAndRest DEF LocalRecord, NextSession
<1>2. pc \in {"flushNew", "flushOpen"} => mCurrentState' = "FlushSessions"
  BY DEF SendingInv, InFlush
<1> HIDE DEF b
<1> QED BY <1>0, <1>1, <1>2, FreeStep, LocalTypes

(* sendStatusRequest, with its retries. *)
LEMMA RequestKeeps ==
    ASSUME SendingInv, StatusRequest \/ StatusRequestAborted
    PROVE  SendingInv'
<1>1. UNCHANGED <<mCurrentState, mSessions, ses, captureOn>>
  BY DEF StatusRequest, StatusRequestAborted, sharedUnchanged
<1>2. CASE StatusRequestAborted
  BY <1>1, <1>2, GotoKeeps DEF StatusRequestAborted, Free
<1>3. CASE StatusRequest
  <2>1. PICK r \in Responses :
           \/ bs' = [bs EXCEPT !.pc = "requested", !.response = r]
           \/ bs' = [bs EXCEPT !.pc = "sleep", !.response = r, !.retry = @ + 1,
                               !.cont = <<"request">>]
    BY <1>3 DEF StatusRequest
  <2>2. CASE bs' = [bs EXCEPT !.pc = "requested", !.response = r]
    <3> DEFINE b == [bs EXCEPT !.pc = "requested", !.response = r]
    <3>1. b \in LocalRecord /\ b.pc = "requested" /\ bs' = b
      BY <2>2, LocalTypes DEF LocalRecord, Pcs
    <3> HIDE DEF b
    <3> QED BY <1>1, <3>1, FreeStep, SessionsStay, LocalTypes DEF Free
  <2>3. CASE bs' = [bs EXCEPT !.pc = "sleep", !.response = r, !.retry = @ + 1,
                              !.cont = <<"request">>]
    <3> DEFINE b == [bs EXCEPT !.pc = "sleep", !.response = r, !.retry = @ + 1,
                               !.cont = <<"request">>]
    <3>0. "sleep" \in Pcs /\ <<"request">> \in Seq(Pcs)
      BY ReturnTypes DEF Pcs
    <3>2. bs.retry + 1 \in Nat
      BY LocalTypes DEF LocalRecord
    <3>1. b \in LocalRecord /\ b.pc = "sleep" /\ b.cont = <<"request">> /\ bs' = b
      <4> DEFINE n == bs.retry + 1
                 c == <<"request">>
      <4>1. b = [bs EXCEPT !.pc = "sleep", !.response = r, !.retry = n, !.cont = c]
        OBVIOUS
      <4>2. n \in Nat /\ c \in Seq(Pcs) /\ c = <<"request">>
        BY <3>0, <3>2
      <4> HIDE DEF n, c
      <4> QED BY <2>3, <3>0, <4>1, <4>2, LocalTypes DEF LocalRecord
    <3> HIDE DEF b
    <3> QED BY <1>1, <3>1, SleepStep, LocalTypes
  <2> QED BY <2>1, <2>2, <2>3
<1> QED BY <1>2, <1>3

(* Beacon::send returns: the session stays in hand. *)
LEMMA ReturnFromSend ==
    ASSUME SendingInv, bs.pc \in {"send", "sending"}, NEW r \in Responses \cup {"none"},
           bs' = [bs EXCEPT !.pc = Head(bs.cont), !.cont = Tail(bs.cont), !.response = r],
           SessionsSound', \A s \in Sessions : ses'[s].life = ses[s].life,
           bs.cont = <<"finishedSent">> /\ r \in {"on", "off", "none"} =>
             (ses'[Head(bs.todo)].data => ses'[Head(bs.todo)].late),
           UNCHANGED <<mCurrentState, mSessions, captureOn>>
    PROVE  SendingInv'
<1> DEFINE pc == Head(bs.cont)
           b == [bs EXCEPT !.pc = Head(bs.cont), !.cont = Tail(bs.cont), !.response = r]
<1>1. /\ bs.cont \in {<<"finishedSent">>, <<"openSent">>, <<"flushSent">>}
      /\ bs.todo # <<>>
  BY DEF SendingInv, LocalFits, ReturnsFit, InHand
<1>2. /\ pc \in {"finishedSent", "openSent", "flushSent"}
      /\ Tail(bs.cont) = <<>> /\ bs.cont = <<pc>>
  BY <1>1, ReturnLists
<1>3. /\ b \in LocalRecord /\ b.pc = pc /\ b.todo = bs.todo /\ b.response = r /\ bs' = b
  <2>1. pc \in Pcs /\ Tail(bs.cont) \in Seq(Pcs)
    BY ZenonT(60), <1>2, ReturnTypes DEF Pcs
  <2> QED BY <2>1, LocalTypes DEF LocalRecord
<1>4. pc # "openSent" => bs.cont # <<"openSent">>
  BY <1>2, ReturnLists
<1>5. OnFinished(b) => OnFinished(bs)
  BY <1>2, <1>3, <1>4 DEF OnFinished
<1>6. InFlush(b) => InFlush(bs)
  BY <1>2, <1>3 DEF InFlush
<1> HIDE DEF b
<1>7. OnFinished(b) => \A i \in 1..Len(b.todo) : ses'[b.todo[i]].life = "finished"
  BY <1>1, <1>3, <1>5, RestFinished
<1>8. SentIsGone(b, ses')
  BY <1>2, <1>3 DEF SentIsGone
<1>9. b.pc \in InHand \ {"clearRemove"} /\ b.pc \notin {"send", "sending"}
  BY <1>2, <1>3 DEF InHand
<1>10. InFlush(b) => mCurrentState = "FlushSessions"
  BY <1>6 DEF SendingInv
<1> QED BY <1>1, <1>3, <1>7, <1>8, <1>9, <1>10, InHandStep

(* Beacon::send. *)
LEMMA SendKeeps == SendingInv /\ SendBeaconStep => SendingInv'
<1> SUFFICES ASSUME SendingInv, SendBeaconStep PROVE SendingInv'
  OBVIOUS
<1> DEFINE h == Head(bs.todo)
<1>1. bs.pc \in {"send", "sending"} /\ UNCHANGED <<mCurrentState, mSessions, captureOn>>
  BY DEF SendBeaconStep, SendBeacon, BeaconResponse
<1>2. /\ bs.cont \in {<<"finishedSent">>, <<"openSent">>, <<"flushSent">>}
      /\ bs.todo # <<>>
  BY <1>1 DEF SendingInv, LocalFits, ReturnsFit, InHand
<1>3. h \in Sessions /\ ses[h] \in SessionRecord
  BY <1>2, LocalTypes, FirstAndRest
<1>4. CASE SendBeacon /\ ses[h].data
  <2> DEFINE b == [bs EXCEPT !.pc = "sending"]
  <2>1. bs' = b /\ ses' = [ses EXCEPT ![h] = Cleared(ses[h])] /\ bs.pc = "send"
    BY <1>4 DEF SendBeacon, Goto
  <2>2. /\ b \in LocalRecord /\ b.pc = "sending" /\ b.todo = bs.todo /\ b.cont = bs.cont
    BY LocalFields DEF Pcs
  <2>3. /\ SessionsSound' /\ ses'[h] = Cleared(ses[h])
        /\ \A r \in Sessions : r # h => ses'[r] = ses[r]
    BY <1>3, <2>1, RecordFacts, OneSession
  <2>4. \A r \in Sessions : ses'[r].life = ses[r].life
    <3>1. ses'[h].life = ses[h].life
      BY <1>3, <2>3, RecordFacts
    <3> QED BY <2>3, <3>1
  <2>5. ses'[h].data = FALSE
    BY <1>3, <2>3, RecordFacts
  <2>6. (OnFinished(b) => OnFinished(bs)) /\ (InFlush(b) => InFlush(bs))
    BY <2>1, <2>2 DEF OnFinished, InFlush
  <2> HIDE DEF b
  <2>7. OnFinished(b) => \A i \in 1..Len(b.todo) : ses'[b.todo[i]].life = "finished"
    BY <1>2, <2>2, <2>4, <2>6, RestFinished
  <2>8. SentIsGone(b, ses')
    BY <2>2, <2>5 DEF SentIsGone
  <2>9. b.pc \in InHand \ {"clearRemove"} /\ (InFlush(b) => mCurrentState = "FlushSessions")
    BY <2>2, <2>6 DEF InHand, SendingInv
  <2> QED BY <1>1, <1>2, <2>1, <2>2, <2>3, <2>7, <2>8, <2>9, InHandStep
<1>5. CASE SendBeacon /\ ~ses[h].data
  <2>1. /\ bs' = [bs EXCEPT !.pc = Head(bs.cont), !.cont = Tail(bs.cont), !.response = "none"]
        /\ ses' = ses
    BY <1>5 DEF SendBeacon
  <2> QED BY <1>1, <1>5, <2>1, ReturnFromSend, SessionsStay
<1>6. ASSUME NEW s \in Sessions, NEW r \in Responses, BeaconResponse(s, r) PROVE SendingInv'
  <2>1. /\ bs' = [bs EXCEPT !.pc = Head(bs.cont), !.cont = Tail(bs.cont), !.response = r]
        /\ s = h /\ bs.pc = "sending"
    BY <1>6 DEF BeaconResponse
  <2>2. CASE r \in {"on", "off"}
    <3>1. ses' = ses
      BY <1>6, <2>2 DEF BeaconResponse, isSuccessfulResponse
    <3>2. bs.cont = <<"finishedSent">> => (ses[h].data => ses[h].late)
      BY <2>1 DEF SendingInv, LocalFits, SentIsGone
    <3> QED BY <1>1, <2>1, <3>1, <3>2, ReturnFromSend, SessionsStay
  <2>3. CASE r \notin {"on", "off"}
    <3>1. ses' = [ses EXCEPT ![h] = Captured(ses[h])]
      BY <1>6, <2>1, <2>3 DEF BeaconResponse, isSuccessfulResponse
    <3>2. /\ SessionsSound' /\ ses'[h] = Captured(ses[h])
          /\ \A q \in Sessions : q # h => ses'[q] = ses[q]
      BY <1>3, <3>1, RecordFacts, OneSession
    <3>3. \A q \in Sessions : ses'[q].life = ses[q].life
      <4>1. ses'[h].life = ses[h].life
        BY <1>3, <3>2, RecordFacts
      <4> QED BY <3>2, <4>1
    <3>4. r # "none"
      BY DEF Responses
    <3> QED BY <1>1, <2>1, <2>3, <3>2, <3>3, <3>4, ReturnFromSend
  <2> QED BY <2>2, <2>3
<1> QED BY <1>4, <1>5, <1>6 DEF SendBeaconStep


(* The thread sleeps, to go on with a step of doExecute. *)
LEMMA GoToSleepKeeps ==
    ASSUME SendingInv, NEW after \in {"execute", "awake"},
           bs' = [bs EXCEPT !.pc = "sleep", !.cont = <<after>>],
           UNCHANGED <<mCurrentState, mSessions, ses, captureOn>>
    PROVE  SendingInv'
<1> DEFINE c == <<after>>
           b == [bs EXCEPT !.pc = "sleep", !.cont = c]
<1>1. "sleep" \in Pcs /\ after \in Pcs
  BY DEF Pcs
<1>2. c \in Seq(Pcs) /\ c \in {<<"request">>, <<"execute">>, <<"awake">>}
  BY <1>1, ReturnTypes
<1> HIDE DEF c
<1>3. b \in LocalRecord /\ b.pc = "sleep" /\ b.cont = c
  BY <1>1, <1>2, LocalTypes DEF LocalRecord
<1>4. bs' = b
  BY DEF c
<1> HIDE DEF b
<1> QED BY <1>2, <1>3, <1>4, SleepStep, LocalTypes

(* clearAllSessionData begins. *)
LEMMA ClearAllKeeps ==
    ASSUME SendingInv, NEW c \in {<<"sleep", "execute">>, <<"handled">>, <<"cleared">>},
           ClearAll(c), captureOn' = FALSE, UNCHANGED <<mCurrentState, mSessions, ses>>
    PROVE  SendingInv'
<1> DEFINE b == [bs EXCEPT !.pc = "clear", !.todo = mSessions, !.cont = c]
<1>1. "clear" \in Pcs /\ "sleep" \in Pcs /\ "execute" \in Pcs /\ "handled" \in Pcs /\ "cleared" \in Pcs
  BY DEF Pcs
<1>2. c \in Seq(Pcs)
  BY <1>1, ReturnTypes
<1>3. b \in LocalRecord /\ b.pc = "clear" /\ b.cont = c /\ bs' = b
  BY <1>1, <1>2, LocalTypes DEF LocalRecord, ClearAll
<1> HIDE DEF b
<1> QED BY <1>3, ClearStep, SessionsStay, LocalTypes

(* BeaconSendingInitialState. *)
LEMMA InitialKeeps == SendingInv /\ InitialStep => SendingInv'
<1> SUFFICES ASSUME SendingInv, InitialStep PROVE SendingInv'
  OBVIOUS
<1>1. CASE InitialLoop
  <2>1. UNCHANGED <<mCurrentState, mSessions, ses, captureOn>> /\ (Goto("initialized") \/ StartRequest)
    BY <1>1 DEF InitialLoop, sharedUnchanged
  <2> QED BY <2>1, GotoKeeps, StartKeeps DEF Free
<1>2. CASE InitialRequested
  <2>1. /\ UNCHANGED <<mCurrentState, mSessions, ses>>
        /\ \/ Goto("initialized") /\ captureOn' = captureOn
           \/ captureOn' = FALSE /\ ClearAll(<<"sleep", "execute">>)
           \/ bs' = [bs EXCEPT !.pc = "sleep", !.cont = <<"execute">>] /\ captureOn' = captureOn
    BY <1>2 DEF InitialRequested
  <2> QED BY <2>1, GotoKeeps, ClearAllKeeps, GoToSleepKeeps DEF Free
<1>3. CASE InitialAborted
  BY <1>3, LeaveAsSet DEF InitialAborted
<1>4. CASE InitialAnswered
  BY <1>4, HandleKeeps, LocalTypes DEF InitialAnswered
<1>5. CASE InitialCompleted
  BY <1>5, LeaveKeeps DEF InitialCompleted, States
<1> QED BY <1>1, <1>2, <1>3, <1>4, <1>5 DEF InitialStep

(* A session gets its configuration; its data stays. *)
LEMMA ConfiguredSound ==
    ASSUME SendingInv, NEW s \in Sessions, NEW c \in BOOLEAN,
           ses' = [ses EXCEPT ![s].configured = TRUE, ![s].capturing = c]
    PROVE  SessionsSound' /\ \A q \in Sessions : ses'[q].data = ses[q].data
<1> DEFINE x == [ses[s] EXCEPT !.configured = TRUE, !.capturing = c]
<1>1. ses' = [ses EXCEPT ![s] = x]
  BY LocalTypes
<1>2. x \in SessionRecord /\ x.data = ses[s].data /\ x.counted = ses[s].counted
  BY OldSession DEF SessionRecord
<1> HIDE DEF x
<1>3. /\ SessionsSound' /\ ses'[s] = x
      /\ \A r \in Sessions : r # s => ses'[r] = ses[r]
  BY <1>1, <1>2, OldSession, OneSession
<1>4. ses'[s].data = ses[s].data
  BY <1>2, <1>3
<1> QED BY <1>3, <1>4

(* A session has one request less; its data stays. *)
LEMMA RequestUsedSound ==
    ASSUME SendingInv, NEW s \in Sessions, ses[s].remaining > 0,
           ses' = [ses EXCEPT ![s].remaining = @ - 1]
    PROVE  SessionsSound' /\ \A q \in Sessions : ses'[q].data = ses[q].data
<1> DEFINE n == ses[s].remaining - 1
           x == [ses[s] EXCEPT !.remaining = n]
<1>1. ses' = [ses EXCEPT ![s] = x]
  BY LocalTypes
<1>2. n \in Nat
  BY OldSession DEF SessionRecord
<1> HIDE DEF n
<1>3. x \in SessionRecord /\ x.data = ses[s].data /\ x.counted = ses[s].counted
  BY <1>2, OldSession DEF SessionRecord
<1> HIDE DEF x
<1>4. /\ SessionsSound' /\ ses'[s] = x
      /\ \A r \in Sessions : r # s => ses'[r] = ses[r]
  BY <1>1, <1>3, OldSession, OneSession
<1>5. ses'[s].data = ses[s].data
  BY <1>3, <1>4
<1> QED BY <1>4, <1>5

(* Sending the first session of a list. *)
LEMMA CallSendKeeps ==
    ASSUME SendingInv, NEW after, CallSend(after), bs.todo # <<>>,
           \/ bs.pc = "finished" /\ after = "finishedSent"
           \/ bs.pc = "open" /\ after = "openSent"
           \/ bs.pc = "flush" /\ after = "flushSent",
           UNCHANGED <<mCurrentState, mSessions, ses, captureOn>>
    PROVE  SendingInv'
<1> DEFINE c == <<after>>
           b == [bs EXCEPT !.pc = "send", !.cont = c]
<1>1. "send" \in Pcs /\ after \in Pcs
  BY DEF Pcs
<1>2. c \in Seq(Pcs) /\ c \in {<<"finishedSent">>, <<"openSent">>, <<"flushSent">>}
  BY <1>1, ReturnTypes
<1>3. /\ after = "openSent" => c = <<"openSent">>
      /\ after = "finishedSent" => c # <<"flushSent">>
      /\ after = "openSent" => c # <<"flushSent">>
  BY ReturnLists
<1> HIDE DEF c
<1>4. b \in LocalRecord /\ b.pc = "send" /\ b.cont = c /\ b.todo = bs.todo
  BY <1>1, <1>2, LocalTypes DEF LocalRecord
<1>5. bs' = b
  BY DEF CallSend, c
<1> HIDE DEF b
<1>6. (OnFinished(b) => OnFinished(bs)) /\ (InFlush(b) => InFlush(bs))
  BY <1>3, <1>4 DEF OnFinished, InFlush
<1>7. OnFinished(b) => \A i \in 1..Len(b.todo) : ses'[b.todo[i]].life = "finished"
  BY <1>4, <1>6, RestFinished
<1>8. SentIsGone(b, ses') /\ b.pc \in InHand \ {"clearRemove"}
  BY <1>4 DEF SentIsGone, InHand
<1>9. InFlush(b) => mCurrentState = "FlushSessions"
  BY <1>6 DEF SendingInv
<1> QED BY <1>2, <1>4, <1>5, <1>7, <1>8, <1>9, InHandStep, SessionsStay


(* The session in hand is removed, its data cleared. *)
LEMMA RemoveKeeps ==
    ASSUME SendingInv, NEW pc \in {"finished", "flush"}, OnFinished(bs), bs.todo # <<>>,
           pc = "flush" => InFlush(bs), NextSession(pc),
           ses' = [ses EXCEPT ![Head(bs.todo)] = Cleared(@)],
           mSessions' = Erase(mSessions, {Head(bs.todo)}), UNCHANGED <<mCurrentState, captureOn>>
    PROVE  SendingInv'
<1> DEFINE h == Head(bs.todo)
           b == [bs EXCEPT !.pc = pc, !.todo = Tail(@)]
<1>1. h \in Sessions /\ ses[h] \in SessionRecord
  BY LocalTypes, FirstAndRest
<1>2. ses' = [ses EXCEPT ![h] = Cleared(ses[h])]
  OBVIOUS
<1>3. /\ SessionsSound' /\ ses'[h] = Cleared(ses[h])
      /\ \A r \in Sessions : r # h => ses'[r] = ses[r]
  BY <1>1, <1>2, RecordFacts, OneSession
<1>4. ses'[h].life = ses[h].life
  BY <1>1, <1>3, RecordFacts
<1>5. \A r \in Sessions : ses'[r].life = ses[r].life
  BY <1>3, <1>4
<1>6. b \in LocalRecord /\ b.pc = pc /\ b.todo = Tail(bs.todo) /\ bs' = b
  <2>1. pc \in Pcs
    BY DEF Pcs
  <2> QED BY <2>1, LocalTypes, FirstAndRest DEF LocalRecord, NextSession
<1>7. mSessions' \in Seq(Sessions)
  BY LocalTypes, EraseType
<1>8. pc = "flush" => mCurrentState = "FlushSessions"
  BY DEF SendingInv
<1> HIDE DEF b, h
<1>9. \A i \in 1..Len(b.todo) : ses'[b.todo[i]].life = "finished"
  BY <1>5, <1>6, RestFinished
<1> QED BY <1>3, <1>6, <1>7, <1>8, <1>9, ListStep, LocalTypes

(* Beginning a list of finished sessions, or an empty one. *)
LEMMA FinishedListKeeps ==
    ASSUME SendingInv, NEW b \in LocalRecord, bs' = b, b.pc \in {"finished", "flush"},
           b.todo = Queued(ConfiguredAndFinished) \/ b.todo = <<>>,
           b.pc = "flush" => mCurrentState = "FlushSessions",
           UNCHANGED <<mCurrentState, mSessions, ses, captureOn>>
    PROVE  SendingInv'
<1>1. \A i \in 1..Len(b.todo) : ses'[b.todo[i]].life = "finished"
  <2>1. CASE b.todo = <<>>
    BY <2>1
  <2>2. CASE b.todo = Queued(ConfiguredAndFinished)
    BY <2>2, QueuedFacts DEF ConfiguredAndFinished
  <2> QED BY <2>1, <2>2
<1> QED BY <1>1, ListStep, SessionsStay, LocalTypes

(* Sending the requests of new sessions. *)
LEMMA NewSessionsKeep ==
    ASSUME SendingInv,
           \/ GiveUpNewSession \/ NewSessionsDone
           \/ \E r \in Responses, c \in BOOLEAN : SendNewSessionRequest(r, c)
    PROVE  SendingInv'
<1>1. CASE GiveUpNewSession
  <2>1. Head(bs.todo) \in Sessions /\ bs.todo # <<>>
    BY <1>1, LocalTypes, FirstAndRest DEF GiveUpNewSession
  <2>2. SessionsSound'
    BY <1>1, <2>1, ConfiguredSound DEF GiveUpNewSession
  <2>3. NextSession("new") /\ UNCHANGED <<mCurrentState, mSessions, captureOn>>
    BY <1>1 DEF GiveUpNewSession
  <2> QED BY <2>1, <2>2, <2>3, NextSessionKeeps
<1>2. CASE NewSessionsDone
  <2>1. UNCHANGED <<mCurrentState, mSessions, ses, captureOn>>
    BY <1>2 DEF NewSessionsDone, sharedUnchanged
  <2>2. CASE LeaveFor("CaptureOff")
    BY <2>1, <2>2, LeaveKeeps DEF States
  <2>3. CASE bs' = [bs EXCEPT !.pc = "finished", !.todo = Queued(ConfiguredAndFinished),
                              !.last = bs.response, !.response = "none"]
    <3> DEFINE q == Queued(ConfiguredAndFinished)
               b == [bs EXCEPT !.pc = "finished", !.todo = q,
                               !.last = bs.response, !.response = "none"]
    <3>1. q \in Seq(Sessions)
      BY QueuedFacts
    <3>2. bs' = b
      BY <2>3
    <3> HIDE DEF q
    <3>3. b \in LocalRecord /\ b.pc = "finished" /\ b.todo = q
      BY <3>1, LocalTypes DEF LocalRecord, Pcs
    <3>4. b.todo = Queued(ConfiguredAndFinished)
      BY <3>3 DEF q
    <3> HIDE DEF b
    <3> QED BY <2>1, <3>2, <3>3, <3>4, FinishedListKeeps
  <2> QED BY <1>2, <2>2, <2>3 DEF NewSessionsDone
<1>3. ASSUME NEW r \in Responses, NEW c \in BOOLEAN, SendNewSessionRequest(r, c)
      PROVE  SendingInv'
  <2> DEFINE h == Head(bs.todo)
             t == IF isTooManyRequestsResponse(r) THEN <<>> ELSE Tail(bs.todo)
             b == [bs EXCEPT !.response = r, !.todo = t]
  <2>1. /\ bs.pc = "new" /\ bs.todo # <<>> /\ ses[h].remaining > 0
        /\ UNCHANGED <<mCurrentState, mSessions>>
    BY <1>3 DEF SendNewSessionRequest, canSendNewSessionRequest
  <2>2. h \in Sessions
    BY <2>1, LocalTypes, FirstAndRest
  <2>3. captureOn' \in BOOLEAN
    BY <1>3, LocalTypes DEF SendNewSessionRequest
  <2>4. bs' = b
    BY <1>3 DEF SendNewSessionRequest
  <2>5. t \in Seq(Sessions)
    BY <2>1, LocalTypes, FirstAndRest
  <2>6. SessionsSound'
    <3>1. \/ ses' = [ses EXCEPT ![h].configured = TRUE, ![h].capturing = c]
          \/ ses' = ses
          \/ ses' = [ses EXCEPT ![h].remaining = @ - 1]
      BY <1>3 DEF SendNewSessionRequest
    <3> HIDE DEF h
    <3> QED BY <2>1, <2>2, <3>1, ConfiguredSound, SessionsStay, RequestUsedSound
  <2> HIDE DEF t
  <2>7. b \in LocalRecord /\ b.pc = "new"
    BY <2>1, <2>5, LocalTypes DEF LocalRecord
  <2> HIDE DEF b
  <2> QED BY <2>1, <2>3, <2>4, <2>6, <2>7, FreeStep, LocalTypes DEF Free
<1> QED BY <1>1, <1>2, <1>3

(* Sending finished sessions. *)
LEMMA FinishedKeep ==
    ASSUME SendingInv,
           \/ FinishedSession \/ FinishedSent \/ FinishedRemove
           \/ \E due \in BOOLEAN : FinishedSessionsDone(due)
    PROVE  SendingInv'
<1>1. CASE FinishedSession
  <2>1. /\ bs.pc = "finished" /\ bs.todo # <<>>
        /\ UNCHANGED <<mCurrentState, mSessions, ses, captureOn>>
    BY <1>1 DEF FinishedSession, sharedUnchanged
  <2>2. CASE CallSend("finishedSent")
    BY <2>1, <2>2, CallSendKeeps
  <2>3. CASE ~ses[Head(bs.todo)].capturing /\ Goto("finishedRemove")
    <3> DEFINE b == [bs EXCEPT !.pc = "finishedRemove"]
    <3>1. bs' = b /\ b \in LocalRecord /\ b.pc = "finishedRemove" /\ b.todo = bs.todo
      BY <2>3, LocalFields DEF Goto, Pcs
    <3> HIDE DEF b
    <3>2. SentIsGone(b, ses') /\ ~InFlush(b) /\ b.pc \in InHand \ {"clearRemove"}
      BY <2>1, <2>3, <3>1 DEF SentIsGone, InFlush, InHand
    <3>3. OnFinished(bs)
      BY <2>1 DEF OnFinished
    <3>4. \A i \in 1..Len(b.todo) : ses'[b.todo[i]].life = "finished"
      BY <2>1, <3>1, <3>3, RestFinished
    <3> QED BY <2>1, <3>1, <3>2, <3>4, InHandStep, SessionsStay
  <2> QED BY <1>1, <2>2, <2>3 DEF FinishedSession
<1>2. CASE FinishedSent
  <2>1. /\ bs.pc = "finishedSent" /\ bs.todo # <<>>
        /\ UNCHANGED <<mCurrentState, mSessions, ses, captureOn>>
    BY <1>2 DEF FinishedSent, sharedUnchanged, SendingInv, LocalFits, InHand
  <2>2. CASE bs' = [bs EXCEPT !.pc = "finished", !.todo = <<>>]
    <3> DEFINE e == <<>>
               b == [bs EXCEPT !.pc = "finished", !.todo = e]
    <3>1. bs' = b /\ e \in Seq(Sessions)
      BY <2>2
    <3> HIDE DEF e
    <3>2. b \in LocalRecord /\ b.pc = "finished" /\ b.todo = e
      BY <3>1, LocalTypes DEF LocalRecord, Pcs
    <3>3. b.todo = <<>>
      BY <3>2 DEF e
    <3> HIDE DEF b
    <3> QED BY <2>1, <3>1, <3>2, <3>3, FinishedListKeeps
  <2>3. CASE /\ isSuccessfulResponse(bs.response) \/ ~ (\/ isTooManyRequestsResponse(bs.response)
                                                        \/ ses[Head(bs.todo)].counted)
             /\ Goto("finishedRemove")
    <3> DEFINE b == [bs EXCEPT !.pc = "finishedRemove"]
               h == Head(bs.todo)
    <3>1. bs' = b /\ b \in LocalRecord /\ b.pc = "finishedRemove" /\ b.todo = bs.todo
      BY <2>3, LocalFields DEF Goto, Pcs
    <3>2. h \in Sessions
      BY <2>1, LocalTypes, FirstAndRest
    <3>3. ses[h].data => ses[h].late
      <4>1. CASE isSuccessfulResponse(bs.response)
        BY <2>1, <4>1 DEF SendingInv, LocalFits, SentIsGone, isSuccessfulResponse
      <4>2. CASE ~ses[h].counted
        BY <3>2, <4>2, OldSession
      <4> QED BY <2>3, <4>1, <4>2
    <3> HIDE DEF b
    <3>4. SentIsGone(b, ses') /\ ~InFlush(b) /\ b.pc \in InHand \ {"clearRemove"}
      BY <2>1, <3>1, <3>3 DEF SentIsGone, InFlush, InHand
    <3>5. OnFinished(bs)
      BY <2>1 DEF OnFinished
    <3>6. \A i \in 1..Len(b.todo) : ses'[b.todo[i]].life = "finished"
      BY <2>1, <3>1, <3>5, RestFinished
    <3> QED BY <2>1, <3>1, <3>4, <3>6, InHandStep, SessionsStay
  <2> QED BY <1>2, <2>2, <2>3 DEF FinishedSent
<1>3. CASE FinishedRemove
  <2>1. bs.pc = "finishedRemove" /\ bs.todo # <<>> /\ OnFinished(bs)
    BY <1>3 DEF FinishedRemove, SendingInv, LocalFits, InHand, OnFinished
  <2> QED BY <1>3, <2>1, RemoveKeeps DEF FinishedRemove
<1>4. ASSUME NEW due \in BOOLEAN, FinishedSessionsDone(due) PROVE SendingInv'
  <2>1. UNCHANGED <<mCurrentState, mSessions, ses, captureOn>>
    BY <1>4 DEF FinishedSessionsDone, sharedUnchanged
  <2>2. CASE LeaveFor("CaptureOff")
    BY <2>1, <2>2, LeaveKeeps DEF States
  <2>3. CASE bs' = [bs EXCEPT !.pc = "open", !.last = Latest, !.response = "none",
                              !.todo = IF due THEN Queued(ConfiguredAndOpen) ELSE <<>>]
    <3> DEFINE t == IF due THEN Queued(ConfiguredAndOpen) ELSE <<>>
               l == Latest
               b == [bs EXCEPT !.pc = "open", !.last = l, !.response = "none", !.todo = t]
    <3>1. t \in Seq(Sessions) /\ bs' = b
      BY <2>3, QueuedFacts
    <3>2. l \in Responses \cup {"none"}
      BY LocalTypes DEF Latest, LocalRecord
    <3> HIDE DEF t, l
    <3>3. b \in LocalRecord /\ b.pc = "open"
      BY <3>1, <3>2, LocalTypes DEF LocalRecord, Pcs
    <3> HIDE DEF b
    <3> QED BY <2>1, <3>1, <3>3, FreeStep, SessionsStay, LocalTypes DEF Free
  <2> QED BY <1>4, <2>2, <2>3 DEF FinishedSessionsDone
<1> QED BY <1>1, <1>2, <1>3, <1>4


(* Sending open sessions. *)
LEMMA OpenKeep ==
    ASSUME SendingInv, OpenSession \/ OpenSent \/ OpenSessionsDone
    PROVE  SendingInv'
<1>1. CASE OpenSession
  <2>1. /\ bs.pc = "open" /\ bs.todo # <<>>
        /\ UNCHANGED <<mCurrentState, mSessions, captureOn>>
    BY <1>1 DEF OpenSession
  <2>2. CASE CallSend("openSent") /\ ses' = ses
    BY <2>1, <2>2, CallSendKeeps
  <2>3. CASE ses' = [ses EXCEPT ![Head(bs.todo)] = Cleared(@)] /\ NextSession("open")
    <3>1. Head(bs.todo) \in Sessions /\ ses[Head(bs.todo)] \in SessionRecord
      BY <2>1, LocalTypes, FirstAndRest
    <3>2. SessionsSound'
      BY <2>3, <3>1, RecordFacts, OneSession
    <3> QED BY <2>1, <2>3, <3>2, NextSessionKeeps
  <2> QED BY <1>1, <2>2, <2>3 DEF OpenSession
<1>2. CASE OpenSent
  <2>1. /\ bs.pc = "openSent" /\ bs.todo # <<>>
        /\ UNCHANGED <<mCurrentState, mSessions, ses, captureOn>>
    BY <1>2 DEF OpenSent, sharedUnchanged, SendingInv, LocalFits, InHand
  <2>2. CASE NextSession("open")
    BY <2>1, <2>2, NextSessionKeeps, SessionsStay
  <2>3. CASE bs' = [bs EXCEPT !.pc = "open", !.todo = <<>>]
    <3> DEFINE e == <<>>
               b == [bs EXCEPT !.pc = "open", !.todo = e]
    <3>1. bs' = b /\ e \in Seq(Sessions)
      BY <2>3
    <3> HIDE DEF e
    <3>2. b \in LocalRecord /\ b.pc = "open"
      BY <3>1, LocalTypes DEF LocalRecord, Pcs
    <3> HIDE DEF b
    <3> QED BY <2>1, <3>1, <3>2, FreeStep, SessionsStay, LocalTypes DEF Free
  <2> QED BY <1>2, <2>2, <2>3 DEF OpenSent
<1>3. CASE OpenSessionsDone
  <2>1. \/ LeaveFor("CaptureOff") /\ UNCHANGED <<sharedUnchanged, appOnly>>
        \/ Leave /\ UNCHANGED <<sharedUnchanged, appOnly>>
        \/ HandleStatusResponse(Latest, <<"handled">>)
    BY <1>3 DEF OpenSessionsDone
  <2>2. Latest \in Responses \cup {"none"}
    BY LocalTypes DEF Latest, LocalRecord
  <2>3. CASE LeaveFor("CaptureOff") /\ UNCHANGED <<sharedUnchanged, appOnly>>
    BY <2>3, LeaveKeeps DEF States, sharedUnchanged
  <2>4. CASE Leave /\ UNCHANGED <<sharedUnchanged, appOnly>>
    BY <2>4, LeaveAsSet DEF sharedUnchanged
  <2>5. CASE HandleStatusResponse(Latest, <<"handled">>)
    BY <2>2, <2>5, HandleKeeps
  <2> QED BY <2>1, <2>3, <2>4, <2>5
<1> QED BY <1>1, <1>2, <1>3

(* The new sessions, as a list to go through. *)
LEMMA NewListKeeps ==
    ASSUME SendingInv, NEW pc \in {"new", "flushNew"},
           pc = "flushNew" => mCurrentState = "FlushSessions",
           bs' = [bs EXCEPT !.pc = pc, !.todo = Queued(NotConfigured),
                            !.response = "none", !.last = "none"],
           UNCHANGED <<mCurrentState, mSessions, ses, captureOn>>
    PROVE  SendingInv'
<1> DEFINE q == Queued(NotConfigured)
           b == [bs EXCEPT !.pc = pc, !.todo = q, !.response = "none", !.last = "none"]
<1>1. q \in Seq(Sessions) /\ bs' = b
  BY QueuedFacts
<1>2. pc \in Pcs /\ pc \in Free
  BY DEF Pcs, Free
<1> HIDE DEF q
<1>3. b \in LocalRecord /\ b.pc = pc
  BY <1>1, <1>2, LocalTypes DEF LocalRecord
<1> HIDE DEF b
<1> QED BY <1>1, <1>2, <1>3, FreeStep, SessionsStay, LocalTypes

(* BeaconSendingCaptureOnState. *)
LEMMA CaptureOnKeeps == SendingInv /\ CaptureOnStep => SendingInv'
<1> SUFFICES ASSUME SendingInv, CaptureOnStep PROVE SendingInv'
  OBVIOUS
<1>1. CASE CaptureOnSleep
  BY <1>1, GoToSleepKeeps DEF CaptureOnSleep, sharedUnchanged
<1>2. CASE CaptureOnAwake
  <2>1. UNCHANGED <<mCurrentState, mSessions, ses, captureOn>>
    BY <1>2 DEF CaptureOnAwake, sharedUnchanged
  <2>2. CASE bs' = [bs EXCEPT !.pc = "executed"]
    BY <2>1, <2>2, GotoKeeps DEF Goto, Free
  <2>3. CASE bs' = [bs EXCEPT !.pc = "new", !.todo = Queued(NotConfigured),
                              !.response = "none", !.last = "none"]
    BY <2>1, <2>3, NewListKeeps
  <2> QED BY <1>2, <2>2, <2>3 DEF CaptureOnAwake
<1>3. CASE CaptureOnHandled
  <2>1. /\ UNCHANGED <<mCurrentState, mSessions, ses, captureOn>>
        /\ Leave \/ LeaveFor("CaptureOff")
    BY <1>3 DEF CaptureOnHandled, sharedUnchanged
  <2> QED BY <2>1, LeaveAsSet, LeaveKeeps DEF States
<1> QED BY <1>1, <1>2, <1>3, NewSessionsKeep, FinishedKeep, OpenKeep DEF CaptureOnStep

(* BeaconSendingCaptureOffState. *)
LEMMA CaptureOffKeeps == SendingInv /\ CaptureOffStep => SendingInv'
<1> SUFFICES ASSUME SendingInv, CaptureOffStep PROVE SendingInv'
  OBVIOUS
<1>1. CASE CaptureOffClear
  BY <1>1, ClearAllKeeps DEF CaptureOffClear
<1>2. ASSUME NEW ahead \in BOOLEAN, CaptureOffSleep(ahead) PROVE SendingInv'
  <2>1. /\ UNCHANGED <<mCurrentState, mSessions, ses, captureOn>>
        /\ StartRequest \/ bs' = [bs EXCEPT !.pc = "sleep", !.cont = <<"awake">>]
    BY <1>2 DEF CaptureOffSleep, sharedUnchanged
  <2> QED BY <2>1, StartKeeps, GoToSleepKeeps
<1>3. CASE CaptureOffAwake
  <2>1. /\ UNCHANGED <<mCurrentState, mSessions, ses, captureOn>>
        /\ Leave \/ StartRequest
    BY <1>3 DEF CaptureOffAwake, sharedUnchanged
  <2> QED BY <2>1, LeaveAsSet, StartKeeps
<1>4. CASE CaptureOffRequested
  <2>1. \/ Goto("handled") /\ UNCHANGED <<mCurrentState, mSessions, ses, captureOn>>
        \/ HandleStatusResponse(bs.response, <<"handled">>)
    BY <1>4 DEF CaptureOffRequested, sharedUnchanged
  <2>2. CASE Goto("handled") /\ UNCHANGED <<mCurrentState, mSessions, ses, captureOn>>
    BY <2>2, GotoKeeps DEF Free
  <2>3. CASE HandleStatusResponse(bs.response, <<"handled">>)
    BY <2>3, HandleKeeps, LocalTypes
  <2> QED BY <2>1, <2>2, <2>3
<1>5. CASE CaptureOffHandled
  <2>1. /\ UNCHANGED <<mCurrentState, mSessions, ses, captureOn>>
        /\ Leave \/ LeaveFor("CaptureOn")
    BY <1>5 DEF CaptureOffHandled, sharedUnchanged
  <2> QED BY <2>1, LeaveAsSet, LeaveKeeps DEF States
<1> QED BY <1>1, <1>2, <1>3, <1>4, <1>5 DEF CaptureOffStep

(* BeaconSendingFlushSessionsState. *)
LEMMA FlushKeeps == SendingInv /\ FlushStep => SendingInv'
<1> SUFFICES ASSUME SendingInv, FlushStep PROVE SendingInv'
  OBVIOUS
<1>1. CASE FlushBegin
  BY <1>1, NewListKeeps DEF FlushBegin
<1>2. CASE FlushNewDone
  <2> DEFINE q == Queued(ConfiguredAndOpen)
             b == [bs EXCEPT !.pc = "flushOpen", !.todo = q]
  <2>1. /\ UNCHANGED <<mCurrentState, mSessions, ses, captureOn>> /\ bs' = b
        /\ mCurrentState = "FlushSessions" /\ q \in Seq(Sessions)
    BY <1>2, QueuedFacts DEF FlushNewDone, sharedUnchanged, SendingInv, InFlush
  <2> HIDE DEF q
  <2>2. b \in LocalRecord /\ b.pc = "flushOpen"
    BY <2>1, LocalTypes DEF LocalRecord, Pcs
  <2> HIDE DEF b
  <2> QED BY <2>1, <2>2, FreeStep, SessionsStay, LocalTypes DEF Free
<1>3. CASE FlushOpenDone
  <2> DEFINE q == Queued(ConfiguredAndFinished)
             b == [bs EXCEPT !.pc = "flush", !.todo = q]
  <2>1. /\ UNCHANGED <<mCurrentState, mSessions, ses, captureOn>> /\ bs' = b
        /\ mCurrentState = "FlushSessions" /\ q \in Seq(Sessions)
    BY <1>3, QueuedFacts DEF FlushOpenDone, sharedUnchanged, SendingInv, InFlush
  <2> HIDE DEF q
  <2>2. b \in LocalRecord /\ b.pc = "flush" /\ b.todo = q
    BY <2>1, LocalTypes DEF LocalRecord, Pcs
  <2>3. b.todo = Queued(ConfiguredAndFinished)
    BY <2>2 DEF q
  <2> HIDE DEF b
  <2> QED BY <2>1, <2>2, <2>3, FinishedListKeeps
<1>4. ASSUME NEW c \in BOOLEAN, FlushNewSession(c) PROVE SendingInv'
  <2>1. Head(bs.todo) \in Sessions /\ bs.todo # <<>> /\ bs.pc = "flushNew"
    BY <1>4, LocalTypes, FirstAndRest DEF FlushNewSession
  <2>2. SessionsSound'
    BY <1>4, <2>1, ConfiguredSound DEF FlushNewSession
  <2>3. NextSession("flushNew") /\ UNCHANGED <<mCurrentState, mSessions, captureOn>>
    BY <1>4 DEF FlushNewSession
  <2> QED BY <2>1, <2>2, <2>3, NextSessionKeeps
<1>5. ASSUME NEW c \in BOOLEAN, FlushOpenSession(c) PROVE SendingInv'
  <2> DEFINE h == Head(bs.todo)
             y == IF c /\ ses[h].capturing THEN Captured(ses[h]) ELSE ses[h]
             x == [y EXCEPT !.life = "finished"]
  <2>1. /\ bs.todo # <<>> /\ bs.pc = "flushOpen" /\ NextSession("flushOpen")
        /\ UNCHANGED <<mCurrentState, mSessions, captureOn>>
    BY <1>5 DEF FlushOpenSession
  <2>2. h \in Sessions
    BY <2>1, LocalTypes, FirstAndRest
  <2>3. ses' = ses \/ ses' = [ses EXCEPT ![h] = x]
    BY <1>5 DEF FlushOpenSession
  <2>4. y \in SessionRecord /\ (y.data => y.counted)
    BY <2>2, OldSession, RecordFacts
  <2> HIDE DEF y
  <2>5. x \in SessionRecord /\ (x.data => x.counted)
    BY <2>4 DEF SessionRecord
  <2> HIDE DEF x, h
  <2>6. SessionsSound'
    BY <2>2, <2>3, <2>5, SessionsStay, OneSession
  <2> QED BY <2>1, <2>6, NextSessionKeeps
<1>6. CASE FlushSession
  <2>1. /\ bs.pc = "flush" /\ bs.todo # <<>>
        /\ UNCHANGED <<mCurrentState, mSessions, ses, captureOn>>
        /\ CallSend("flushSent") \/ Goto("flushRemove")
    BY <1>6 DEF FlushSession, sharedUnchanged
  <2>2. CASE CallSend("flushSent")
    BY <2>1, <2>2, CallSendKeeps
  <2>3. CASE Goto("flushRemove")
    <3> DEFINE b == [bs EXCEPT !.pc = "flushRemove"]
    <3>1. bs' = b /\ b \in LocalRecord /\ b.pc = "flushRemove" /\ b.todo = bs.todo
      BY <2>3, LocalFields DEF Goto, Pcs
    <3> HIDE DEF b
    <3>2. SentIsGone(b, ses') /\ b.pc \in InHand \ {"clearRemove"}
      BY <3>1 DEF SentIsGone, InHand
    <3>3. OnFinished(bs) /\ mCurrentState = "FlushSessions"
      BY <2>1 DEF OnFinished, SendingInv, InFlush
    <3>4. \A i \in 1..Len(b.todo) : ses'[b.todo[i]].life = "finished"
      BY <2>1, <3>1, <3>3, RestFinished
    <3> QED BY <2>1, <3>1, <3>2, <3>3, <3>4, InHandStep, SessionsStay
  <2> QED BY <2>1, <2>2, <2>3
<1>7. CASE FlushSent
  <2> DEFINE b == [bs EXCEPT !.pc = "flushRemove", !.last = bs.response]
  <2>1. /\ bs.pc = "flushSent" /\ bs.todo # <<>> /\ bs' = b
        /\ UNCHANGED <<mCurrentState, mSessions, ses, captureOn>>
    BY <1>7 DEF FlushSent, sharedUnchanged, SendingInv, LocalFits, InHand
  <2>2. b \in LocalRecord /\ b.pc = "flushRemove" /\ b.todo = bs.todo
    BY LocalTypes DEF LocalRecord, Pcs
  <2> HIDE DEF b
  <2>3. SentIsGone(b, ses') /\ b.pc \in InHand \ {"clearRemove"}
    BY <2>2 DEF SentIsGone, InHand
  <2>4. OnFinished(bs) /\ mCurrentState = "FlushSessions"
    BY <2>1 DEF OnFinished, SendingInv, InFlush
  <2>5. \A i \in 1..Len(b.todo) : ses'[b.todo[i]].life = "finished"
    BY <2>1, <2>2, <2>4, RestFinished
  <2> QED BY <2>1, <2>2, <2>3, <2>4, <2>5, InHandStep, SessionsStay
<1>8. CASE FlushRemove
  <2>1. bs.pc = "flushRemove" /\ bs.todo # <<>> /\ OnFinished(bs) /\ InFlush(bs)
    BY <1>8 DEF FlushRemove, SendingInv, LocalFits, InHand, OnFinished, InFlush
  <2> QED BY <1>8, <2>1, RemoveKeeps DEF FlushRemove
<1>9. CASE FlushDone
  BY <1>9, LeaveKeeps DEF FlushDone, sharedUnchanged, States
<1> QED BY <1>1, <1>2, <1>3, <1>4, <1>5, <1>6, <1>7, <1>8, <1>9 DEF FlushStep

(* The end of execute. *)
LEMMA ExecutedKeeps == SendingInv /\ Executed => SendingInv'
<1> SUFFICES ASSUME SendingInv, Executed PROVE SendingInv'
  OBVIOUS
<1> DEFINE next == IF mShutdown THEN getShutdownState(mCurrentState)
                   ELSE IF bs.next = "none" THEN mCurrentState ELSE bs.next
           pc == IF next = "Terminal" THEN "stopped" ELSE "execute"
           e == <<>>
           b == [pc |-> pc, cont |-> e, todo |-> e, response |-> "none",
                 last |-> "none", retry |-> 0, next |-> "none"]
<1>1. mCurrentState' = next /\ bs' = b /\ UNCHANGED <<mSessions, ses, captureOn>>
  BY DEF Executed
<1>2. next \in States
  BY LocalTypes DEF getShutdownState, States, LocalRecord
<1>3. pc \in Pcs /\ pc \in Free /\ pc \notin {"flushNew", "flushOpen"}
  BY DEF Pcs, Free
<1>4. e \in Seq(Sessions) /\ e \in Seq(Pcs)
  OBVIOUS
<1> HIDE DEF next, pc, e
<1>5. b \in LocalRecord /\ b.pc = pc
  BY <1>3, <1>4 DEF LocalRecord
<1> HIDE DEF b
<1> QED BY <1>1, <1>2, <1>3, <1>5, FreeStep, SessionsStay, LocalTypes

(* The initial state. *)
LEMMA SendingInit == Init => SendingInv
<1> SUFFICES ASSUME Init PROVE SendingInv
  OBVIOUS
<1>1. NewSession \in SessionRecord
  BY SendingAssumption DEF NewSession, SessionRecord
<1>2. \A s \in Sessions : ses[s] = NewSession
  BY DEF Init
<1>3. ses \in [Sessions -> SessionRecord]
  BY <1>1 DEF Init
<1>4. \A s \in Sessions : ses[s].data => ses[s].counted
  BY <1>2 DEF NewSession
<1>5. bs \in LocalRecord
  <2> DEFINE e == <<>>
  <2>1. e \in Seq(Sessions) /\ e \in Seq(Pcs)
    OBVIOUS
  <2>2. bs = [pc |-> "execute", cont |-> e, todo |-> e, response |-> "none",
              last |-> "none", retry |-> 0, next |-> "none"]
    BY DEF Init
  <2> HIDE DEF e
  <2> QED BY <2>1, <2>2 DEF LocalRecord, Pcs
<1>6. SendTypeOK
  BY <1>3, <1>5 DEF SendTypeOK, Init, States
<1>7. bs.pc = "execute"
  BY DEF Init
<1>8. LocalFits(bs, ses) /\ ~InFlush(bs)
  BY <1>7 DEF LocalFits, ReturnsFit, InHand, OnFinished, SentIsGone, InFlush
<1> QED BY <1>4, <1>6, <1>7, <1>8 DEF SendingInv

(* Every step of every thread. *)
LEMMA SendingNext == SendingInv /\ [Next]_sendVars => SendingInv'
<1> SUFFICES ASSUME SendingInv, [Next]_sendVars PROVE SendingInv'
  OBVIOUS
<1>1. CASE AppStep
  BY <1>1, AppStepKeeps
<1>2. CASE SleepTimeout \/ SleepInterrupted
  <2>1. bs.pc = "sleep" /\ Return /\ UNCHANGED sharedUnchanged
    BY <1>2 DEF SleepTimeout, SleepInterrupted
  <2> QED BY <2>1, SleepKeeps
<1>3. CASE SenderStep /\ ~SleepInterrupted
  BY <1>3, ClearKeeps, RequestKeeps, SendKeeps, InitialKeeps, CaptureOnKeeps, CaptureOffKeeps,
     FlushKeeps, ExecutedKeeps DEF SenderStep
<1>4. CASE UNCHANGED sendVars
  BY <1>4, NoSessionTouched DEF sendVars, appUnchanged
<1> QED BY <1>1, <1>2, <1>3, <1>4 DEF Next, SenderStep

(***************************************************************************)
(* The local variables of the sending thread keep what they say about the  *)
(* sessions, whatever the other threads do meanwhile.                      *)
(***************************************************************************)
THEOREM SendingInvariant == Spec => []SendingInv
BY SendingInit, SendingNext, PTL DEF Spec


-----------------------------------------------------------------------------
(* What a step may do to the queue. *)
QueueStep ==
    \/ mSessions' = mSessions
    \/ \E s \in Sessions : mSessions' = Append(mSessions, s)
    \/ \E s \in Sessions : ses[s].life = "finished" /\ mSessions' = Erase(mSessions, {s})

(* A session is appended, or a finished one removed, or the queue stays. *)
LEMMA QueueSteps == SendingInv /\ [Next]_sendVars => QueueStep
<1> SUFFICES ASSUME SendingInv, [Next]_sendVars PROVE QueueStep
  OBVIOUS
<1>1. CASE AppStep
  <2>1. mSessions' = mSessions \/ \E s \in Sessions : mSessions' = Append(mSessions, s)
    BY <1>1 DEF AppStep, requestShutdown, wakeup, CreateSession, Capture, LeaveBegin, LeaveEnd,
                EndBegin, EndFinish, EvictRecords
  <2> QED BY <2>1 DEF QueueStep
<1>2. CASE ClearRemove
  <2>1. bs.todo # <<>>
    BY <1>2 DEF ClearRemove, SendingInv, LocalFits, InHand
  <2>2. Head(bs.todo) \in Sessions
    BY <2>1, LocalTypes, FirstAndRest
  <2> QED BY <1>2, <2>2 DEF ClearRemove, QueueStep
<1>3. CASE FinishedRemove \/ FlushRemove
  <2>1. /\ bs.pc \in {"finishedRemove", "flushRemove"}
        /\ mSessions' = Erase(mSessions, {Head(bs.todo)})
    BY <1>3 DEF FinishedRemove, FlushRemove
  <2>2. bs.todo # <<>> /\ OnFinished(bs)
    BY <2>1 DEF SendingInv, LocalFits, InHand, OnFinished
  <2>3. Head(bs.todo) \in Sessions /\ ses[Head(bs.todo)].life = "finished"
    BY <2>2, RestFinished
  <2> QED BY <2>1, <2>3 DEF QueueStep
<1>4. CASE \/ SleepTimeout \/ SleepInterrupted \/ ClearData \/ StatusRequest
           \/ StatusRequestAborted \/ SendBeaconStep \/ Executed
  BY <1>4 DEF QueueStep, SleepTimeout, SleepInterrupted, ClearData, StatusRequest,
              StatusRequestAborted, SendBeaconStep, SendBeacon, BeaconResponse, Executed,
              sharedUnchanged
<1>5. CASE InitialStep \/ CaptureOffStep
  BY <1>5 DEF QueueStep, InitialStep, InitialLoop, InitialRequested, InitialAborted,
              InitialAnswered, InitialCompleted, CaptureOffStep, CaptureOffClear,
              CaptureOffAwake, CaptureOffSleep, CaptureOffRequested, CaptureOffHandled,
              HandleStatusResponse, sharedUnchanged
<1>6. CASE CaptureOnStep /\ ~FinishedRemove
  BY <1>6 DEF QueueStep, CaptureOnStep, CaptureOnSleep, CaptureOnAwake, GiveUpNewSession,
              NewSessionsDone, SendNewSessionRequest, FinishedSession, FinishedSent,
              FinishedSessionsDone, OpenSession, OpenSent, OpenSessionsDone, CaptureOnHandled,
              HandleStatusResponse, sharedUnchanged
<1>7. CASE FlushStep /\ ~FlushRemove
  BY <1>7 DEF QueueStep, FlushStep, FlushBegin, FlushNewDone, FlushOpenDone, FlushNewSession,
              FlushOpenSession, FlushSession, FlushSent, FlushDone, sharedUnchanged
<1>8. CASE UNCHANGED sendVars
  BY <1>8 DEF QueueStep, sendVars
<1> QED BY <1>1, <1>2, <1>3, <1>4, <1>5, <1>6, <1>7, <1>8 DEF Next, SenderStep

(* The step that OnlyFinishedLeave allows. *)
Leaves == \A s \in Sessions : IsQueued(s) /\ ~IsQueued(s)' => ses[s].life = "finished"

(* Only a finished session is gone after a step. *)
LEMMA LeavesStep == SendingInv /\ [Next]_sendVars => Leaves
<1> SUFFICES ASSUME SendingInv, [Next]_sendVars, NEW s \in Sessions, IsQueued(s), ~IsQueued(s)'
             PROVE  ses[s].life = "finished"
  BY DEF Leaves
<1>0. mSessions \in Seq(Sessions)
  BY LocalTypes
<1>1. PICK i \in 1..Len(mSessions) : mSessions[i] = s
  BY <1>0 DEF IsQueued
<1>2. ~ \E j \in DOMAIN mSessions' : mSessions'[j] = s
  BY DEF IsQueued
<1>3. CASE mSessions' = mSessions
  BY <1>0, <1>1, <1>2, <1>3
<1>4. ASSUME NEW q \in Sessions, mSessions' = Append(mSessions, q) PROVE FALSE
  <2>1. i \in DOMAIN mSessions' /\ mSessions'[i] = mSessions[i]
    BY <1>0, <1>1, <1>4
  <2> QED BY <1>1, <1>2, <2>1
<1>5. ASSUME NEW q \in Sessions, ses[q].life = "finished", mSessions' = Erase(mSessions, {q})
      PROVE  s = q
  <2>1. s # q => \E k \in 1..Len(mSessions') : mSessions'[k] = s
    BY <1>0, <1>1, <1>5, EraseElements
  <2>2. mSessions' \in Seq(Sessions)
    BY <1>0, <1>5, EraseType
  <2> QED BY <1>2, <2>1, <2>2
<1>6. QueueStep
  BY QueueSteps
<1> QED BY <1>3, <1>4, <1>5, <1>6 DEF QueueStep

(***************************************************************************)
(* A session leaves the sending context's list only when it is finished:   *)
(* the lists that the thread goes through are older than the session's     *)
(* state, but a finished session never comes back to life.                 *)
(***************************************************************************)
THEOREM OpenSessionsStay == Spec => OnlyFinishedLeave
<1>1. Spec => [][Leaves]_sendVars
  BY SendingInvariant, LeavesStep, PTL DEF Spec
<1>2. Leaves <=> \A s \in Sessions :
                    IsQueued(s) /\ ~IsQueued(s)' => ses[s].life = "finished"
  BY DEF Leaves
<1> QED BY <1>1, <1>2, PTL DEF OnlyFinishedLeave

-----------------------------------------------------------------------------
(* The data a session has stays. *)
DataStays == \A s \in Sessions : ses[s].data => ses'[s].data

(* The steps of the sending thread that clear the data of one session. *)
DropsAllowed(s) ==
    \/ ~captureOn
    \/ ~ses[s].capturing
    \/ mCurrentState = "FlushSessions"
    \/ ses[s].late

(* The session in hand is cleared: the others keep what they have. *)
LEMMA OneCleared ==
    ASSUME SendingInv, bs.todo # <<>>, ses' = [ses EXCEPT ![Head(bs.todo)] = Cleared(@)]
    PROVE  \A s \in Sessions : ses[s].data /\ ~ses'[s].data => s = Head(bs.todo)
BY LocalTypes, FirstAndRest

(* A step that clears the first session of the list, which may be dropped. *)
DropsHead ==
    /\ bs.todo # <<>>
    /\ ses' = [ses EXCEPT ![Head(bs.todo)] = Cleared(@)]
    /\ ses[Head(bs.todo)].data => DropsAllowed(Head(bs.todo))

(* Every step of the sending thread keeps the data, sends it or may drop it. *)
LEMMA SenderDrops ==
    ASSUME SendingInv, SleepTimeout \/ SenderStep, bs.pc # "send"
    PROVE  DataStays \/ DropsHead
<1>1. CASE ClearData
  <2>1. CASE bs.todo = <<>>
    BY <1>1, <2>1 DEF ClearData, DataStays
  <2>2. CASE bs.todo # <<>>
    BY <1>1, <2>2 DEF ClearData, DropsHead, DropsAllowed, SendingInv
  <2> QED BY <2>1, <2>2
<1>2. CASE FinishedRemove
  <2>1. bs.todo # <<>>
    BY <1>2 DEF FinishedRemove, SendingInv, LocalFits, InHand
  <2>2. ses[Head(bs.todo)].data => ses[Head(bs.todo)].late \/ ~ses[Head(bs.todo)].capturing
    BY <1>2 DEF FinishedRemove, SendingInv, LocalFits, SentIsGone
  <2> QED BY <1>2, <2>1, <2>2 DEF FinishedRemove, DropsHead, DropsAllowed
<1>3. CASE FlushRemove
  <2>1. bs.todo # <<>> /\ mCurrentState = "FlushSessions"
    BY <1>3 DEF FlushRemove, SendingInv, LocalFits, InHand, InFlush
  <2> QED BY <1>3, <2>1 DEF FlushRemove, DropsHead, DropsAllowed
<1>4. CASE OpenSession
  BY <1>4 DEF OpenSession, DropsHead, DropsAllowed, DataStays
<1>5. CASE SendBeaconStep
  <2>1. PICK s \in Sessions, r \in Responses : BeaconResponse(s, r)
    BY <1>5 DEF SendBeaconStep, SendBeacon
  <2>2. ses' = ses \/ ses' = [ses EXCEPT ![s] = Captured(ses[s])]
    BY <2>1 DEF BeaconResponse
  <2>3. ses[s] \in SessionRecord
    BY OldSession
  <2>4. CASE ses' = [ses EXCEPT ![s] = Captured(ses[s])]
    <3>1. Captured(ses[s]).data = TRUE
      BY <2>3, RecordFacts
    <3> QED BY <2>4, <3>1, LocalTypes DEF DataStays
  <2> QED BY <2>2, <2>4 DEF DataStays
<1>6. ASSUME NEW c \in BOOLEAN, FlushOpenSession(c) PROVE DataStays
  <2> DEFINE h == Head(bs.todo)
             y == IF c /\ ses[h].capturing THEN Captured(ses[h]) ELSE ses[h]
             x == [y EXCEPT !.life = "finished"]
  <2>1. bs.todo # <<>> /\ (ses' = ses \/ ses' = [ses EXCEPT ![h] = x])
    BY <1>6 DEF FlushOpenSession
  <2>2. h \in Sessions /\ ses[h] \in SessionRecord
    BY <2>1, LocalTypes, FirstAndRest
  <2>3. y \in SessionRecord /\ (ses[h].data => y.data)
    BY <2>2, RecordFacts
  <2> HIDE DEF y
  <2>4. ses[h].data => x.data
    BY <2>3 DEF SessionRecord
  <2> HIDE DEF x, h
  <2> QED BY <2>1, <2>2, <2>4, LocalTypes DEF DataStays
<1>7. CASE \/ GiveUpNewSession \/ \E c \in BOOLEAN : FlushNewSession(c)
           \/ \E r \in Responses, c \in BOOLEAN : SendNewSessionRequest(r, c)
  <2> DEFINE h == Head(bs.todo)
  <2>1. bs.todo # <<>>
    BY <1>7 DEF GiveUpNewSession, FlushNewSession, SendNewSessionRequest
  <2>2. h \in Sessions
    BY <2>1, LocalTypes, FirstAndRest
  <2>3. \/ \E c \in BOOLEAN : ses' = [ses EXCEPT ![h].configured = TRUE, ![h].capturing = c]
        \/ ses' = ses
        \/ ses[h].remaining > 0 /\ ses' = [ses EXCEPT ![h].remaining = @ - 1]
    BY <1>7 DEF GiveUpNewSession, FlushNewSession, SendNewSessionRequest, canSendNewSessionRequest
  <2> HIDE DEF h
  <2> QED BY <2>2, <2>3, ConfiguredSound, RequestUsedSound DEF DataStays
<1>8. CASE \/ SleepTimeout \/ SleepInterrupted \/ ClearRemove \/ StatusRequest
           \/ StatusRequestAborted \/ Executed
  BY <1>8 DEF DataStays, SleepTimeout, SleepInterrupted, ClearRemove, StatusRequest,
              StatusRequestAborted, Executed, sharedUnchanged
<1>9. CASE InitialStep \/ CaptureOffStep
  BY <1>9 DEF DataStays, InitialStep, InitialLoop, InitialRequested, InitialAborted,
              InitialAnswered, InitialCompleted, CaptureOffStep, CaptureOffClear,
              CaptureOffAwake, CaptureOffSleep, CaptureOffRequested, CaptureOffHandled,
              HandleStatusResponse, sharedUnchanged
<1>10. CASE \/ CaptureOnSleep \/ CaptureOnAwake \/ NewSessionsDone \/ FinishedSession
            \/ FinishedSent \/ \E due \in BOOLEAN : FinishedSessionsDone(due)
            \/ OpenSent \/ OpenSessionsDone \/ CaptureOnHandled
  BY <1>10 DEF DataStays, CaptureOnSleep, CaptureOnAwake, NewSessionsDone, FinishedSession,
               FinishedSent, FinishedSessionsDone, OpenSent, OpenSessionsDone, CaptureOnHandled,
               HandleStatusResponse, sharedUnchanged
<1>11. CASE \/ FlushBegin \/ FlushNewDone \/ FlushOpenDone \/ FlushSession \/ FlushSent \/ FlushDone
  BY <1>11 DEF DataStays, FlushBegin, FlushNewDone, FlushOpenDone, FlushSession, FlushSent,
               FlushDone, sharedUnchanged
<1> QED BY <1>1, <1>2, <1>3, <1>4, <1>5, <1>6, <1>7, <1>8, <1>9, <1>10, <1>11
        DEF SenderStep, CaptureOnStep, FlushStep

(* The step that DroppedOnlyWhenOff allows. *)
Drops ==
    \A s \in Sessions :
        /\ bs' # bs
        /\ bs.pc # "send"
        /\ ses[s].data /\ ~ses'[s].data
        => \/ ~captureOn
           \/ ~ses[s].capturing
           \/ mCurrentState = "FlushSessions"
           \/ ses[s].late

(* Unsent data is dropped only if that is allowed. *)
LEMMA DropsStep == SendingInv /\ [Next]_sendVars => Drops
<1> SUFFICES ASSUME SendingInv, [Next]_sendVars, NEW s \in Sessions, bs' # bs, bs.pc # "send",
                    ses[s].data /\ ~ses'[s].data
             PROVE  DropsAllowed(s)
  BY DEF Drops, DropsAllowed
<1>1. ~AppStep
  BY DEF AppStep, requestShutdown, wakeup, CreateSession, Capture, LeaveBegin, LeaveEnd,
         EndBegin, EndFinish, EvictRecords, appUnchanged
<1>2. SleepTimeout \/ SenderStep
  BY <1>1 DEF Next, sendVars
<1>3. DataStays \/ DropsHead
  BY <1>2, SenderDrops
<1>4. DropsHead
  BY <1>3 DEF DataStays
<1>5. s = Head(bs.todo)
  BY <1>4, OneCleared DEF DropsHead
<1> QED BY <1>4, <1>5 DEF DropsHead

(***************************************************************************)
(* The sending thread clears data that was not sent only if capturing is   *)
(* off for all or for that session, in the final flush, or if a leave that *)
(* raced with the session's end added it late.                             *)
(***************************************************************************)
THEOREM UnsentDataIsKept == Spec => DroppedOnlyWhenOff
<1>1. Spec => [][Drops]_sendVars
  BY SendingInvariant, DropsStep, PTL DEF Spec
<1>2. Drops <=> \A s \in Sessions :
        /\ bs' # bs
        /\ bs.pc # "send"
        /\ ses[s].data /\ ~ses'[s].data
        => \/ ~captureOn
           \/ ~ses[s].capturing
           \/ mCurrentState = "FlushSessions"
           \/ ses[s].late
  BY DEF Drops
<1> QED BY <1>1, <1>2, PTL DEF DroppedOnlyWhenOff

=============================================================================
