----------------------------- MODULE ActionsProofs -----------------------------
(***************************************************************************)
(* What is proved about the actions and tracers of a session, for every    *)
(* number of threads, actions and tracers, every privacy setting and every *)
(* configuration the server sends while they are left.                     *)
(***************************************************************************)
EXTENDS Actions, ListsProofs

------------------------------------------------------------------------------
(* Sequences whose elements are of no common type. *)
IsSeq(s) == s \in Seq({s[i] : i \in DOMAIN s})

(* A sequence is one of its own elements. *)
LEMMA SeqOfOwn ==
    ASSUME NEW S, NEW s \in Seq(S) PROVE IsSeq(s)
<1>1. Len(s) \in Nat /\ DOMAIN s = 1..Len(s) /\ s = [i \in 1..Len(s) |-> s[i]]
  OBVIOUS
<1>2. \A i \in 1..Len(s) : s[i] \in {s[j] : j \in DOMAIN s}
  BY <1>1
<1>3. \E n \in Nat : s \in [1..n -> {s[j] : j \in DOMAIN s}]
  BY <1>1, <1>2
<1> QED BY <1>3 DEF IsSeq

(* What is known of every sequence. *)
LEMMA SeqFacts ==
    ASSUME NEW s, IsSeq(s)
    PROVE  /\ Len(s) \in Nat /\ DOMAIN s = 1..Len(s)
           /\ s = <<>> <=> Len(s) = 0
BY DEF IsSeq

(* One element more at the end. *)
LEMMA AppendFacts ==
    ASSUME NEW s, IsSeq(s), NEW x
    PROVE  /\ IsSeq(Append(s, x)) /\ Len(Append(s, x)) = Len(s) + 1
           /\ \A i \in 1..Len(s) : Append(s, x)[i] = s[i]
           /\ Append(s, x)[Len(s) + 1] = x
<1> DEFINE S == {s[i] : i \in DOMAIN s} \cup {x}
<1>1. s \in Seq(S) /\ x \in S
  BY DEF IsSeq
<1> HIDE DEF S
<1>2. Append(s, x) \in Seq(S)
  BY <1>1
<1>3. IsSeq(Append(s, x))
  BY <1>2, SeqOfOwn
<1> QED BY <1>1, <1>3

(* One element less at the end. *)
LEMMA FrontFacts ==
    ASSUME NEW s, IsSeq(s), s # <<>>
    PROVE  /\ Len(s) \in Nat \ {0} /\ Last(s) = s[Len(s)]
           /\ IsSeq(Front(s)) /\ Len(Front(s)) = Len(s) - 1
           /\ \A i \in 1..(Len(s) - 1) : Front(s)[i] = s[i]
<1> DEFINE S == {s[i] : i \in DOMAIN s}
<1>1. s \in Seq(S)
  BY DEF IsSeq
<1> HIDE DEF S
<1>2. Len(s) \in Nat \ {0} /\ Last(s) = s[Len(s)]
  BY <1>1 DEF Last
<1>3. Front(s) = SubSeq(s, 1, Len(s) - 1)
  BY DEF Front
<1>4. Front(s) \in Seq(S) /\ Len(Front(s)) = Len(s) - 1
  <2> DEFINE n == Len(s) - 1
  <2>1. n \in Nat /\ n <= Len(s) /\ \A i \in 1..n : s[i] \in S
    BY <1>1, <1>2
  <2>2. Front(s) = SubSeq(s, 1, n) /\ n = Len(s) - 1
    BY <1>3
  <2> HIDE DEF n
  <2>3. SubSeq(s, 1, n) \in Seq(S) /\ Len(SubSeq(s, 1, n)) = IF 1 <= n THEN n - 1 + 1 ELSE 0
    BY <2>1, SubSeqProperties
  <2> QED BY <2>1, <2>2, <2>3
<1>5. \A i \in 1..(Len(s) - 1) : Front(s)[i] = s[i]
  BY <1>1, <1>2, <1>3
<1>6. IsSeq(Front(s))
  BY <1>4, SeqOfOwn
<1> QED BY <1>2, <1>4, <1>5, <1>6

(* The last element replaced. *)
LEMMA LastReplaced ==
    ASSUME NEW s, IsSeq(s), s # <<>>, NEW x
    PROVE  /\ IsSeq(Append(Front(s), x)) /\ Len(Append(Front(s), x)) = Len(s)
           /\ \A i \in 1..(Len(s) - 1) : Append(Front(s), x)[i] = s[i]
           /\ Append(Front(s), x)[Len(s)] = x
<1>1. /\ Len(s) \in Nat \ {0} /\ IsSeq(Front(s)) /\ Len(Front(s)) = Len(s) - 1
      /\ \A i \in 1..(Len(s) - 1) : Front(s)[i] = s[i]
  BY FrontFacts
<1>2. /\ IsSeq(Append(Front(s), x)) /\ Len(Append(Front(s), x)) = Len(Front(s)) + 1
      /\ \A i \in 1..Len(Front(s)) : Append(Front(s), x)[i] = Front(s)[i]
      /\ Append(Front(s), x)[Len(Front(s)) + 1] = x
  BY <1>1, AppendFacts
<1> QED BY <1>1, <1>2

(* A single element, and none. *)
LEMMA ShortSeqs ==
    ASSUME NEW x
    PROVE  /\ IsSeq(<<>>) /\ Len(<<>>) = 0
           /\ IsSeq(<<x>>) /\ Len(<<x>>) = 1 /\ <<x>>[1] = x /\ <<x>> # <<>>
<1>1. <<>> \in Seq({x}) /\ <<x>> \in Seq({x})
  OBVIOUS
<1>2. IsSeq(<<>>) /\ IsSeq(<<x>>)
  BY <1>1, SeqOfOwn
<1> QED BY <1>2

(* A single element joined to a sequence. *)
LEMMA JoinFacts ==
    ASSUME NEW s, IsSeq(s), NEW x
    PROVE  /\ IsSeq(s \o <<x>>) /\ Len(s \o <<x>>) = Len(s) + 1
           /\ \A i \in 1..Len(s) : (s \o <<x>>)[i] = s[i]
           /\ (s \o <<x>>)[Len(s) + 1] = x
<1> DEFINE S == {s[i] : i \in DOMAIN s} \cup {x}
<1>1. s \in Seq(S) /\ x \in S
  BY DEF IsSeq
<1> HIDE DEF S
<1>2. s \o <<x>> \in Seq(S)
  BY <1>1
<1>3. IsSeq(s \o <<x>>)
  BY <1>2, SeqOfOwn
<1>4. Len(s \o <<x>>) = Len(s) + 1
  BY <1>1
<1>5. \A i \in 1..Len(s) : (s \o <<x>>)[i] = s[i]
  BY <1>1
<1>6. (s \o <<x>>)[Len(s) + 1] = x
  BY <1>1
<1> QED BY <1>3, <1>4, <1>5, <1>6

(* The least element of a set of positive numbers is one of them. *)
LEMMA MinIn ==
    ASSUME NEW m \in Nat, NEW S \in SUBSET (1..m), S # {}
    PROVE  Min(S) \in S
<1>1. PICK k \in S : TRUE
  OBVIOUS
<1>2. 1 \in 1..Cardinality(S)
  <2>1. Rank(S, k) \in 1..Cardinality(S) /\ Cardinality(S) \in Nat
    BY <1>1, KeptRanks
  <2> HIDE DEF Rank
  <2> QED BY <2>1
<1>3. PICK i \in S : Rank(S, i) = 1
  BY <1>2, KeptRanks
<1>4. \A j \in S : i <= j
  <2> SUFFICES ASSUME NEW j \in S, j < i PROVE FALSE
    OBVIOUS
  <2>1. Rank(S, j) < 1 /\ Rank(S, j) \in 1..Cardinality(S)
    BY ZenonT(60), <1>3, KeptRanks
  <2> QED BY <2>1, KeptRanks
<1> QED BY <1>4 DEF Min

------------------------------------------------------------------------------
(* What holds in every state. *)
Children == Actions \cup Tracers
Parents == {Session} \cup Actions
EndTypes == {"ACTION", "WEBREQUEST", "SESSION_END"}
LeavingPcs == {"copy", "children", "record", "add", "detach", "addEnd", "finished"}
ObjectFields == {"state", "parent", "mChildren", "id", "parentID", "start", "end", "cancelled",
                 "tag", "bytesSent", "bytesReceived", "responseCode"}
FrameFields == {"pc", "o", "discard", "event", "holds", "todo", "record"}
BeaconFields == {"privacy", "config", "mTrafficControlValue", "mDeviceID", "mSessionNumber",
                 "mSessionSequenceNumber", "mSequenceNumber", "mID", "records", "supplement"}

ObjectOK(x) ==
    /\ DOMAIN x = ObjectFields
    /\ x.state \in {"none", "open", "left", "closed"}
    /\ x.parent \in Parents /\ x.mChildren \in Seq(Children)
    /\ x.start \in Nat /\ x.end \in Nat /\ x.cancelled \in BOOLEAN

FrameOK(f) ==
    /\ DOMAIN f = FrameFields
    /\ f.pc \in LeavingPcs \cup {"addReport"} /\ f.o \in Objects
    /\ f.todo \in Seq(Children) /\ f.discard \in BOOLEAN

BeaconOK(b) == DOMAIN b = BeaconFields /\ b.mSequenceNumber \in Nat /\ IsSeq(b.records)

(* The objects, the calls under way and the beacon are what they should be. *)
ActionsTypeOK ==
    /\ DOMAIN obj = Objects /\ \A o \in Objects : ObjectOK(obj[o])
    /\ BeaconOK(beacon)
    /\ DOMAIN stack = Threads
    /\ \A u \in Threads : IsSeq(stack[u]) /\ \A i \in 1..Len(stack[u]) : FrameOK(stack[u][i])
    /\ wasOff \in BOOLEAN

(* A call that leaves an object, unlike one that adds a report. *)
Leaves(f) == f.pc # "addReport"

(* What is recorded of the end of o, and whether it must be. *)
Ends(o) == Recorded(o, EndTypes)
AtMostOne(S) == \A i, j \in S : i = j
Telling == ~wasOff /\ beacon.privacy.level # "OFF"

OpenChild(c, o) == obj[c].state = "open" /\ obj[c].parent = o

Single(r, whos, types) == r = <<r[1]>> /\ r[1].who \in whos /\ r[1].type \in types

(* A report under way, which is not about an end. *)
ReportFits(f) == f.record = <<f.record[1]>> /\ f.record[1].type \notin EndTypes

(***************************************************************************)
(* Whoever leaves an object has marked it and has recorded nothing of it   *)
(* yet, up to the step that does.  Open children are still to be closed:   *)
(* before the copy all of them, later those in the copy.                   *)
(***************************************************************************)
LeaveFits(f) ==
    /\ obj[f.o].state = "left" /\ f.discard = obj[f.o].cancelled
    /\ f.pc \in {"record", "add", "detach"} => f.o # Session
    /\ f.pc \in {"addEnd", "finished"} => f.o = Session
    /\ f.pc \in {"copy", "children"} => obj[f.o].end = 0 /\ f.o \notin Tracers
    /\ f.pc # "copy" => \A c \in Children : OpenChild(c, f.o) =>
                          f.pc = "children" /\ \E i \in 1..Len(f.todo) : f.todo[i] = c
    /\ f.pc = "add" => Single(f.record, {f.o}, {"ACTION", "WEBREQUEST"}) /\ ~f.discard
    /\ f.pc = "addEnd" => Single(f.record, {Session}, {"SESSION_END"})
    /\ f.pc \notin {"detach", "finished"} => Ends(f.o) = {}
    /\ AtMostOne(Ends(f.o))
    /\ f.discard => Ends(f.o) = {}
    /\ f.pc = "detach" /\ ~f.discard /\ Telling => Ends(f.o) # {}

FrameFits(f) == IF Leaves(f) THEN LeaveFits(f) ELSE ReportFits(f)

FramesFit == \A u \in Threads : \A i \in 1..Len(stack[u]) :
                 FrameFits(stack[u][i]) /\ (stack[u][i].pc = "addReport" => Len(stack[u]) = 1)

(* An object is left by one call only, and by one as long as it is marked. *)
OneLeaves ==
    \A u, v \in Threads : \A i \in 1..Len(stack[u]), j \in 1..Len(stack[v]) :
        /\ Leaves(stack[u][i]) /\ Leaves(stack[v][j])
        /\ stack[u][i].o = stack[v][j].o
        => u = v /\ i = j

LeftIsLeaving ==
    \A o \in Objects : obj[o].state = "left" =>
        \E u \in Threads : \E i \in 1..Len(stack[u]) :
            Leaves(stack[u][i]) /\ stack[u][i].o = o

(* What is recorded of an object by its state, and whom its list holds. *)
ObjectFits(o) ==
    /\ obj[o].state \in {"none", "open"} =>
         ~obj[o].cancelled /\ obj[o].end = 0 /\ Ends(o) = {}
    /\ obj[o].state = "none" => obj[o].mChildren = <<>>
    /\ obj[o].state = "closed" =>
         /\ AtMostOne(Ends(o))
         /\ obj[o].cancelled => Ends(o) = {}
         /\ o # Session /\ ~obj[o].cancelled /\ Telling => Ends(o) # {}
    /\ \A i \in 1..Len(obj[o].mChildren) :
         /\ obj[obj[o].mChildren[i]].parent = o
         /\ obj[obj[o].mChildren[i]].state \in {"open", "left"}

(* An open child is in the list of a parent that is not through. *)
ChildFits(c) ==
    /\ obj[c].state = "open" =>
         /\ obj[obj[c].parent].state \in {"open", "left"}
         /\ \E i \in 1..Len(obj[obj[c].parent].mChildren) : obj[obj[c].parent].mChildren[i] = c
    /\ obj[c].state # "none" => obj[obj[c].parent].state # "none" /\ obj[c].parent # c
    /\ obj[c].state # "none" /\ c \in Actions /\ obj[c].parent # Session =>
         obj[obj[c].parent].parent = Session

ObjectsFit ==
    /\ \A o \in Objects : ObjectFits(o)
    /\ \A c \in Children : ChildFits(c)
    /\ obj[Session].parent = Session /\ obj[Session].state # "none" /\ ~obj[Session].cancelled

(* The numbers of a web request and of its action. *)
WebRequestFits(w) ==
    LET a == obj[w].parent IN
    obj[w].state # "none" /\ a # Session =>
        /\ obj[a].start < obj[w].start
        /\ obj[w].state = "open" => obj[a].end = 0
        /\ obj[w].state # "open" =>
             obj[w].start < obj[w].end /\ (obj[a].end = 0 \/ obj[w].end < obj[a].end)

NumbersFit ==
    /\ \A o \in Objects : /\ obj[o].start <= beacon.mSequenceNumber
                          /\ obj[o].end <= beacon.mSequenceNumber
    /\ \A w \in Tracers : WebRequestFits(w)

CaptureFits == ~wasOff => isDataCapturingEnabled(beacon)

LeavingInv ==
    /\ ActionsTypeOK /\ FramesFit /\ OneLeaves /\ LeftIsLeaving
    /\ ObjectsFit /\ NumbersFit /\ CaptureFits

------------------------------------------------------------------------------
(* The stacks of the calls under way, and how a step changes one of them. *)
Others(t) == DOMAIN stack' = Threads /\ \A u \in Threads : u # t => stack'[u] = stack[u]
Below(t) == \A i \in 1..(Len(stack[t]) - 1) : stack'[t][i] = stack[t][i]
Busy(t) == stack[t] # <<>> /\ Len(stack[t]) \in Nat \ {0} /\ Top(t) = stack[t][Len(stack[t])]

Replaced(t, f) ==
    /\ Others(t) /\ Below(t) /\ IsSeq(stack'[t])
    /\ Len(stack'[t]) = Len(stack[t]) /\ stack'[t][Len(stack[t])] = f
Popped(t) == Others(t) /\ Below(t) /\ IsSeq(stack'[t]) /\ Len(stack'[t]) = Len(stack[t]) - 1
Pushed(t, f) ==
    /\ Others(t) /\ IsSeq(stack'[t]) /\ Len(stack'[t]) = 1 /\ stack'[t][1] = f
PushedOn(t, g, f) ==
    /\ Others(t) /\ Below(t) /\ IsSeq(stack'[t]) /\ Len(stack'[t]) = Len(stack[t]) + 1
    /\ stack'[t][Len(stack[t])] = g /\ stack'[t][Len(stack[t]) + 1] = f

(* The call on top. *)
LEMMA BusyFacts ==
    ASSUME ActionsTypeOK, NEW t \in Threads, ~Idle(t)
    PROVE  Busy(t) /\ FrameOK(Top(t))
<1>1. IsSeq(stack[t]) /\ stack[t] # <<>>
  BY DEF ActionsTypeOK, Idle
<1>2. Busy(t)
  BY <1>1, FrontFacts DEF Busy, Top
<1> QED BY <1>2 DEF ActionsTypeOK, Busy

(* The call on top goes on. *)
LEMMA ReplacedFacts ==
    ASSUME ActionsTypeOK, NEW t \in Threads, ~Idle(t), NEW f, stack' = Replace(t, f)
    PROVE  Replaced(t, f)
<1>1. IsSeq(stack[t]) /\ stack[t] # <<>> /\ DOMAIN stack = Threads
  BY DEF ActionsTypeOK, Idle
<1>2. stack' = [stack EXCEPT ![t] = Append(Front(stack[t]), f)]
  BY DEF Replace
<1>3. DOMAIN stack' = Threads /\ stack'[t] = Append(Front(stack[t]), f)
  BY <1>1, <1>2
<1>4. Others(t)
  BY <1>1, <1>2, <1>3 DEF Others
<1> QED BY <1>1, <1>3, <1>4, LastReplaced DEF Replaced, Below

(* The call on top returns. *)
LEMMA PoppedFacts ==
    ASSUME ActionsTypeOK, NEW t \in Threads, ~Idle(t), stack' = [stack EXCEPT ![t] = Front(@)]
    PROVE  Popped(t)
<1>1. IsSeq(stack[t]) /\ stack[t] # <<>> /\ DOMAIN stack = Threads
  BY DEF ActionsTypeOK, Idle
<1>2. DOMAIN stack' = Threads /\ stack'[t] = Front(stack[t])
  BY <1>1
<1>3. Others(t)
  BY <1>1, <1>2 DEF Others
<1> QED BY <1>1, <1>2, <1>3, FrontFacts DEF Popped, Below

(* A thread that is in no call begins one. *)
LEMMA PushedFacts ==
    ASSUME ActionsTypeOK, NEW t \in Threads, NEW f,
           stack' = [stack EXCEPT ![t] = <<f>>] \/ stack' = [stack EXCEPT ![t] = Append(<<>>, f)]
    PROVE  Pushed(t, f)
<1>1. DOMAIN stack = Threads /\ Append(<<>>, f) = <<f>>
  BY DEF ActionsTypeOK
<1>2. DOMAIN stack' = Threads /\ stack'[t] = <<f>>
  BY <1>1
<1>3. Others(t)
  BY <1>1, <1>2 DEF Others
<1> QED BY <1>2, <1>3, ShortSeqs DEF Pushed

(* The call on top calls another one. *)
LEMMA PushedOnFacts ==
    ASSUME ActionsTypeOK, NEW t \in Threads, ~Idle(t), NEW g, NEW f,
           stack' = [stack EXCEPT ![t] = Append(Append(Front(stack[t]), g), f)]
    PROVE  PushedOn(t, g, f)
<1> DEFINE s == Append(Front(stack[t]), g)
           n == Len(stack[t])
<1>1. IsSeq(stack[t]) /\ stack[t] # <<>> /\ DOMAIN stack = Threads
  BY DEF ActionsTypeOK, Idle
<1>2. /\ IsSeq(s) /\ Len(s) = n /\ s[n] = g
      /\ \A i \in 1..(n - 1) : s[i] = stack[t][i]
  BY <1>1, LastReplaced
<1>3. DOMAIN stack' = Threads /\ stack'[t] = Append(s, f)
  BY <1>1
<1>4. Others(t)
  BY <1>1, <1>3 DEF Others
<1>5. n \in Nat \ {0}
  BY <1>1, FrontFacts
<1> HIDE DEF s
<1>6. /\ IsSeq(Append(s, f)) /\ Len(Append(s, f)) = n + 1
      /\ \A i \in 1..n : Append(s, f)[i] = s[i]
      /\ Append(s, f)[n + 1] = f
  BY <1>2, AppendFacts
<1>7. Append(s, f)[n] = g /\ \A i \in 1..(n - 1) : Append(s, f)[i] = stack[t][i]
  BY <1>2, <1>5, <1>6
<1> QED BY <1>3, <1>4, <1>6, <1>7 DEF PushedOn, Below

(* The type of the stacks after a step of each kind. *)
LEMMA ReplacedType ==
    ASSUME ActionsTypeOK, NEW t \in Threads, Busy(t), NEW f, FrameOK(f), Replaced(t, f)
    PROVE  \A u \in Threads : IsSeq(stack'[u]) /\ \A i \in 1..Len(stack'[u]) : FrameOK(stack'[u][i])
<1>1. \A i \in 1..Len(stack'[t]) : i \in 1..(Len(stack[t]) - 1) \/ i = Len(stack[t])
  BY DEF Busy, Replaced
<1>2. \A i \in 1..(Len(stack[t]) - 1) : i \in 1..Len(stack[t])
  BY DEF Busy
<1>3. \A i \in 1..Len(stack'[t]) : FrameOK(stack'[t][i])
  BY <1>1, <1>2 DEF ActionsTypeOK, Replaced, Below
<1> QED BY <1>3 DEF ActionsTypeOK, Replaced, Others

(* The frames after a return are frames. *)
LEMMA PoppedType ==
    ASSUME ActionsTypeOK, NEW t \in Threads, Busy(t), Popped(t)
    PROVE  \A u \in Threads : IsSeq(stack'[u]) /\ \A i \in 1..Len(stack'[u]) : FrameOK(stack'[u][i])
<1>1. \A i \in 1..Len(stack'[t]) : i \in 1..(Len(stack[t]) - 1) /\ i \in 1..Len(stack[t])
  BY DEF Busy, Popped
<1>2. \A i \in 1..Len(stack'[t]) : FrameOK(stack'[t][i])
  BY <1>1 DEF ActionsTypeOK, Popped, Below
<1> QED BY <1>2 DEF ActionsTypeOK, Popped, Others

(* The frames after a call of an idle thread are frames. *)
LEMMA PushedType ==
    ASSUME ActionsTypeOK, NEW t \in Threads, NEW f, FrameOK(f), Pushed(t, f)
    PROVE  \A u \in Threads : IsSeq(stack'[u]) /\ \A i \in 1..Len(stack'[u]) : FrameOK(stack'[u][i])
<1>1. \A i \in 1..Len(stack'[t]) : i = 1
  BY DEF Pushed
<1> QED BY <1>1 DEF ActionsTypeOK, Pushed, Others

(* The frames after a nested call are frames. *)
LEMMA PushedOnType ==
    ASSUME ActionsTypeOK, NEW t \in Threads, Busy(t), NEW g, FrameOK(g), NEW f, FrameOK(f),
           PushedOn(t, g, f)
    PROVE  \A u \in Threads : IsSeq(stack'[u]) /\ \A i \in 1..Len(stack'[u]) : FrameOK(stack'[u][i])
<1>1. \A i \in 1..Len(stack'[t]) : \/ i \in 1..(Len(stack[t]) - 1)
                                   \/ i = Len(stack[t])
                                   \/ i = Len(stack[t]) + 1
  BY DEF Busy, PushedOn
<1>2. \A i \in 1..(Len(stack[t]) - 1) : i \in 1..Len(stack[t])
  BY DEF Busy
<1>3. \A i \in 1..Len(stack'[t]) : FrameOK(stack'[t][i])
  BY <1>1, <1>2 DEF ActionsTypeOK, PushedOn, Below
<1> QED BY <1>3 DEF ActionsTypeOK, PushedOn, Others

------------------------------------------------------------------------------
(* What a step that does not touch an object leaves of what is known of it. *)

(* What is recorded of an object. *)
LEMMA SameEnds ==
    ASSUME beacon'.records = beacon.records, NEW o PROVE Ends(o)' = Ends(o)
BY DEF Ends, Recorded

(* What is recorded of an end when a record r is added. *)
LEMMA EndsGrow ==
    ASSUME IsSeq(beacon.records), NEW r, beacon'.records = beacon.records \o <<r>>, NEW o
    PROVE  Ends(o)' = IF r.who = o /\ r.type \in EndTypes
                      THEN Ends(o) \cup {Len(beacon.records) + 1} ELSE Ends(o)
<1> DEFINE n == Len(beacon.records)
           s == beacon'.records
<1>1. /\ n \in Nat /\ DOMAIN beacon.records = 1..n
      /\ IsSeq(s) /\ Len(s) = n + 1
      /\ \A i \in 1..n : s[i] = beacon.records[i]
      /\ s[n + 1] = r
  <2>1. n \in Nat /\ DOMAIN beacon.records = 1..n
    BY SeqFacts
  <2>2. s = beacon.records \o <<r>>
    OBVIOUS
  <2> HIDE DEF s
  <2> QED BY <2>1, <2>2, JoinFacts
<1>2. DOMAIN s = 1..(n + 1)
  BY <1>1, SeqFacts
<1>3. Ends(o)' = {i \in DOMAIN s : s[i].who = o /\ s[i].type \in EndTypes}
  BY DEF Ends, Recorded, EndTypes
<1>4. Ends(o) = {i \in 1..n : beacon.records[i].who = o /\ beacon.records[i].type \in EndTypes}
  BY <1>1 DEF Ends, Recorded
<1> HIDE DEF s, n
<1>5. \A i \in 1..(n + 1) : i \in 1..n \/ i = n + 1
  BY <1>1
<1>6. \A i \in 1..n : i \in 1..(n + 1) /\ i # n + 1
  BY <1>1
<1>7. n + 1 \in 1..(n + 1)
  BY <1>1
<1>8. CASE r.who = o /\ r.type \in EndTypes
  BY <1>1, <1>2, <1>3, <1>4, <1>5, <1>6, <1>7, <1>8 DEF n
<1>9. CASE ~(r.who = o /\ r.type \in EndTypes)
  BY <1>1, <1>2, <1>3, <1>4, <1>5, <1>6, <1>9 DEF n
<1> QED BY <1>8, <1>9

(* A call that leaves an object the step does not touch. *)
LEMMA LeaveKept ==
    ASSUME NEW f, LeaveFits(f),
           obj'[f.o].state = obj[f.o].state, obj'[f.o].cancelled = obj[f.o].cancelled,
           obj'[f.o].end = obj[f.o].end, Ends(f.o)' = Ends(f.o),
           \A c \in Children : OpenChild(c, f.o)' => OpenChild(c, f.o),
           Telling' => Telling
    PROVE  LeaveFits(f)'
BY DEF LeaveFits, Single, AtMostOne

(* A report is the same whatever a step does. *)
LEMMA ReportKept ==
    ASSUME NEW f, ReportFits(f) PROVE ReportFits(f)'
BY DEF ReportFits

(* An object the step does not touch, unless it be its list's children. *)
LEMMA ObjectKept ==
    ASSUME NEW o \in Objects, ObjectFits(o), obj[o].mChildren \in Seq(Children),
           obj'[o].state = obj[o].state, obj'[o].mChildren = obj[o].mChildren,
           obj'[o].cancelled = obj[o].cancelled, obj'[o].end = obj[o].end,
           Ends(o)' = Ends(o), Telling' => Telling,
           \A c \in Children : obj[c].parent = o /\ obj[c].state \in {"open", "left"} =>
                                 obj'[c].parent = o /\ obj'[c].state \in {"open", "left"}
    PROVE  ObjectFits(o)'
<1>1. \A i \in 1..Len(obj[o].mChildren) : obj[o].mChildren[i] \in Children
  OBVIOUS
<1>2. \A i \in 1..Len(obj'[o].mChildren) :
         /\ obj'[obj'[o].mChildren[i]].parent = o
         /\ obj'[obj'[o].mChildren[i]].state \in {"open", "left"}
  BY <1>1 DEF ObjectFits
<1>3. obj'[o].state = "closed" =>
         /\ AtMostOne(Ends(o)')
         /\ obj'[o].cancelled => Ends(o)' = {}
         /\ o # Session /\ ~obj'[o].cancelled /\ Telling' => Ends(o)' # {}
  BY DEF ObjectFits
<1>4. /\ obj'[o].state \in {"none", "open"} =>
           ~obj'[o].cancelled /\ obj'[o].end = 0 /\ Ends(o)' = {}
      /\ obj'[o].state = "none" => obj'[o].mChildren = <<>>
  BY DEF ObjectFits
<1> QED BY <1>2, <1>3, <1>4 DEF ObjectFits, AtMostOne

(* A child neither of whose states, and whose parent's list, changes. *)
LEMMA ChildKept ==
    ASSUME NEW c \in Children, ChildFits(c), obj[c].parent \in Objects,
           obj'[c].state = obj[c].state, obj'[c].parent = obj[c].parent,
           obj'[obj[c].parent].parent = obj[obj[c].parent].parent,
           obj[obj[c].parent].state # "none" => obj'[obj[c].parent].state # "none",
           obj[c].state = "open" /\ obj[obj[c].parent].state \in {"open", "left"} =>
             /\ obj'[obj[c].parent].state \in {"open", "left"}
             /\ obj'[obj[c].parent].mChildren = obj[obj[c].parent].mChildren
    PROVE  ChildFits(c)'
BY DEF ChildFits

------------------------------------------------------------------------------
(* What a step leaves of the objects not in X, and of the calls leaving them. *)
Untouched(X) ==
    \A o \in Objects \ X :
        /\ obj'[o].state = obj[o].state /\ obj'[o].cancelled = obj[o].cancelled
        /\ obj'[o].end = obj[o].end /\ Ends(o)' = Ends(o)
        /\ \A c \in Children : OpenChild(c, o)' => OpenChild(c, o)

(* A call is as it should be after a step that leaves its object alone. *)
LEMMA FrameKept ==
    ASSUME NEW X, Untouched(X), Telling' => Telling,
           NEW f, FrameOK(f), FrameFits(f), Leaves(f) => f.o \notin X
    PROVE  FrameFits(f)'
<1>1. CASE Leaves(f)
  <2>1. f.o \in Objects \ X /\ LeaveFits(f)
    BY <1>1 DEF FrameOK, FrameFits
  <2>2. /\ obj'[f.o].state = obj[f.o].state /\ obj'[f.o].cancelled = obj[f.o].cancelled
        /\ obj'[f.o].end = obj[f.o].end /\ Ends(f.o)' = Ends(f.o)
        /\ \A c \in Children : OpenChild(c, f.o)' => OpenChild(c, f.o)
    BY <2>1 DEF Untouched
  <2>3. LeaveFits(f)'
    BY <2>1, <2>2, LeaveKept
  <2> QED BY <1>1, <2>3 DEF FrameFits, Leaves
<1>2. CASE ~Leaves(f)
  BY <1>2, ReportKept DEF FrameFits, Leaves
<1> QED BY <1>1, <1>2

(* Nothing but numbers of an object changes. *)
SameObjects ==
    /\ DOMAIN obj' = Objects
    /\ \A o \in Objects :
         /\ ObjectOK(obj'[o])
         /\ obj'[o].state = obj[o].state /\ obj'[o].parent = obj[o].parent
         /\ obj'[o].mChildren = obj[o].mChildren /\ obj'[o].cancelled = obj[o].cancelled
         /\ obj'[o].start = obj[o].start

(* The objects are as they should be after a step that changes no state or list. *)
LEMMA ObjectsKept ==
    ASSUME LeavingInv, SameObjects, Telling' => Telling,
           \A o \in Objects : \/ obj'[o].end = obj[o].end /\ Ends(o)' = Ends(o)
                              \/ obj[o].state = "left"
    PROVE  ObjectsFit'
<1>1. ASSUME NEW o \in Objects PROVE ObjectFits(o)'
  <2>1. \A c \in Children : c \in Objects
    BY DEF Children, Objects
  <2>2. obj[o].mChildren \in Seq(Children) /\ ObjectFits(o)
    BY DEF LeavingInv, ActionsTypeOK, ObjectOK, ObjectsFit
  <2>3. CASE obj'[o].end = obj[o].end /\ Ends(o)' = Ends(o)
    BY <2>1, <2>2, <2>3, ObjectKept DEF SameObjects
  <2>4. CASE obj[o].state = "left"
    <3>1. \A i \in 1..Len(obj[o].mChildren) : obj[o].mChildren[i] \in Children
      BY <2>2
    <3>2. \A i \in 1..Len(obj'[o].mChildren) :
            /\ obj'[obj'[o].mChildren[i]].parent = o
            /\ obj'[obj'[o].mChildren[i]].state \in {"open", "left"}
      BY <2>1, <2>2, <3>1 DEF SameObjects, ObjectFits
    <3>3. obj'[o].state = "left"
      BY <2>4 DEF SameObjects
    <3> QED BY <3>2, <3>3 DEF ObjectFits
  <2> QED BY <2>3, <2>4 DEF LeavingInv
<1>2. ASSUME NEW c \in Children PROVE ChildFits(c)'
  <2>1. c \in Objects
    BY DEF Children, Objects
  <2>2. obj[c].parent \in Objects /\ ChildFits(c)
    BY <2>1 DEF LeavingInv, ActionsTypeOK, ObjectOK, ObjectsFit, Parents, Objects
  <2> QED BY <2>1, <2>2, ChildKept DEF SameObjects
<1>3. Session \in Objects
  BY DEF Objects
<1>4. obj'[Session].parent = Session /\ obj'[Session].state # "none" /\ ~obj'[Session].cancelled
  BY <1>3 DEF SameObjects, LeavingInv, ObjectsFit
<1> QED BY <1>1, <1>2, <1>4 DEF ObjectsFit

(* A call under way, and that no other one leaves the same object. *)
LEMMA FrameFacts ==
    ASSUME LeavingInv, NEW u \in Threads, NEW i \in 1..Len(stack[u])
    PROVE  /\ FrameOK(stack[u][i]) /\ FrameFits(stack[u][i])
           /\ Leaves(stack[u][i]) => LeaveFits(stack[u][i])
           /\ ~Leaves(stack[u][i]) => ReportFits(stack[u][i])
           /\ stack[u][i].pc = "addReport" => Len(stack[u]) = 1
<1>1. FrameOK(stack[u][i])
  BY DEF LeavingInv, ActionsTypeOK
<1>2. FrameFits(stack[u][i]) /\ (stack[u][i].pc = "addReport" => Len(stack[u]) = 1)
  BY DEF LeavingInv, FramesFit
<1> QED BY <1>1, <1>2 DEF FrameFits

(* Two calls that leave the same object are one. *)
LEMMA OnlyOne ==
    ASSUME LeavingInv, NEW u \in Threads, NEW i \in 1..Len(stack[u]),
           NEW v \in Threads, NEW j \in 1..Len(stack[v]),
           Leaves(stack[u][i]), Leaves(stack[v][j]), stack[u][i].o = stack[v][j].o
    PROVE  u = v /\ i = j
<1>1. OneLeaves
  BY DEF LeavingInv
<1> QED BY <1>1 DEF OneLeaves

(* A call that the step leaves where it is. *)
LEMMA OldFrame ==
    ASSUME LeavingInv, NEW X, Untouched(X), Telling' => Telling,
           NEW u \in Threads, NEW i \in 1..Len(stack[u]), stack'[u][i] = stack[u][i],
           Leaves(stack[u][i]) => stack[u][i].o \notin X
    PROVE  FrameFits(stack[u][i])' /\ (stack[u][i].pc = "addReport" => Len(stack[u]) = 1)
<1>1. /\ FrameOK(stack[u][i]) /\ FrameFits(stack[u][i])
      /\ stack[u][i].pc = "addReport" => Len(stack[u]) = 1
  BY FrameFacts
<1>2. \A h : FrameOK(h) /\ FrameFits(h) /\ (Leaves(h) => h.o \notin X) => FrameFits(h)'
  BY FrameKept
<1> QED BY <1>1, <1>2

------------------------------------------------------------------------------
(* A call that leaves an object goes on. *)
LEMMA AdvanceKeeps ==
    ASSUME LeavingInv, NEW t \in Threads, Busy(t), Leaves(Top(t)),
           NEW f, FrameOK(f), Leaves(f), f.o = Top(t).o, Replaced(t, f), LeaveFits(f)',
           SameObjects, \A o \in Objects \ {f.o} : obj'[o].end = obj[o].end /\ Ends(o)' = Ends(o),
           BeaconOK(beacon'), wasOff' \in BOOLEAN, Telling' => Telling, NumbersFit', CaptureFits'
    PROVE  LeavingInv'
<1> DEFINE n == Len(stack[t])
<1>1. /\ n \in Nat \ {0} /\ Top(t) = stack[t][n] /\ n \in 1..Len(stack[t])
      /\ Len(stack[t]) = n /\ Len(stack'[t]) = n
      /\ stack'[t][n] = f
      /\ \A i \in 1..n : i # n => stack'[t][i] = stack[t][i]
      /\ \A u \in Threads : u # t => stack'[u] = stack[u]
  BY DEF Busy, Replaced, Others, Below
<1>2. ActionsTypeOK'
  BY ReplacedType DEF LeavingInv, ActionsTypeOK, SameObjects, Replaced, Others
<1>3. Untouched({f.o})
  <2>1. \A c \in Children : c \in Objects
    BY DEF Children, Objects
  <2> QED BY <2>1 DEF Untouched, SameObjects, OpenChild
<1>4. \A u \in Threads : \A i \in 1..Len(stack'[u]) :
         \/ u = t /\ i = n
         \/ i \in 1..Len(stack[u]) /\ stack'[u][i] = stack[u][i] /\ ~(u = t /\ i = n)
  BY <1>1
<1>5. \A u \in Threads : Len(stack'[u]) = Len(stack[u])
  BY <1>1
<1> HIDE DEF n
<1>6. FramesFit'
  <2> SUFFICES ASSUME NEW u \in Threads, NEW i \in 1..Len(stack'[u])
               PROVE  /\ FrameFits(stack[u][i])'
                      /\ stack'[u][i].pc = "addReport" => Len(stack'[u]) = 1
    BY DEF FramesFit
  <2>1. CASE u = t /\ i = n
    BY <1>1, <2>1 DEF FrameFits, Leaves
  <2>2. CASE i \in 1..Len(stack[u]) /\ stack'[u][i] = stack[u][i] /\ ~(u = t /\ i = n)
    <3> DEFINE g == stack[u][i]
    <3>1. Leaves(g) => g.o \notin {f.o}
      BY <1>1, <2>2, OnlyOne
    <3>2. FrameFits(stack[u][i])' /\ (g.pc = "addReport" => Len(stack[u]) = 1)
      BY <1>3, <2>2, <3>1, OldFrame
    <3> QED BY <1>5, <2>2, <3>2
  <2> QED BY <1>4, <2>1, <2>2
<1>7. OneLeaves'
  <2> SUFFICES ASSUME NEW u \in Threads, NEW v \in Threads,
                      NEW i \in 1..Len(stack'[u]), NEW j \in 1..Len(stack'[v]),
                      Leaves(stack'[u][i]), Leaves(stack'[v][j]), stack'[u][i].o = stack'[v][j].o
               PROVE  u = v /\ i = j
    BY DEF OneLeaves, Leaves
  <2>1. i \in 1..Len(stack[u]) /\ j \in 1..Len(stack[v])
    BY <1>5
  <2>2. /\ Leaves(stack[u][i]) /\ stack[u][i].o = stack'[u][i].o
        /\ Leaves(stack[v][j]) /\ stack[v][j].o = stack'[v][j].o
    BY <1>1, <1>4
  <2> QED BY <2>1, <2>2, OnlyOne
<1>8. LeftIsLeaving'
  <2> SUFFICES ASSUME NEW o \in Objects, obj'[o].state = "left"
               PROVE  \E u \in Threads : \E i \in 1..Len(stack'[u]) :
                        Leaves(stack'[u][i]) /\ stack'[u][i].o = o
    BY DEF LeftIsLeaving, Leaves
  <2>1. PICK u \in Threads : \E i \in 1..Len(stack[u]) : Leaves(stack[u][i]) /\ stack[u][i].o = o
    BY DEF SameObjects, LeavingInv, LeftIsLeaving
  <2>2. PICK i \in 1..Len(stack[u]) : Leaves(stack[u][i]) /\ stack[u][i].o = o
    BY <2>1
  <2>3. i \in 1..Len(stack'[u]) /\ Leaves(stack'[u][i]) /\ stack'[u][i].o = o
    BY <1>1, <1>4, <1>5, <2>2
  <2> QED BY <2>3
<1>9. ObjectsFit'
  <2>1. f.o \in Objects /\ obj[f.o].state = "left"
    <3>1. LeaveFits(stack[t][n]) /\ FrameOK(stack[t][n])
      BY <1>1, FrameFacts
    <3> QED BY <1>1, <3>1 DEF FrameOK, LeaveFits
  <2> QED BY <2>1, ObjectsKept
<1> QED BY <1>2, <1>6, <1>7, <1>8, <1>9 DEF LeavingInv

(* Nothing happens to the objects, the calls and what is recorded of ends. *)
LEMMA QuietKeeps ==
    ASSUME LeavingInv, SameObjects, stack' = stack,
           \A o \in Objects : obj'[o].end = obj[o].end /\ Ends(o)' = Ends(o),
           BeaconOK(beacon'), wasOff' \in BOOLEAN, Telling' => Telling, NumbersFit', CaptureFits'
    PROVE  LeavingInv'
<1>1. ActionsTypeOK'
  BY DEF LeavingInv, ActionsTypeOK, SameObjects
<1>2. Untouched({})
  <2>1. \A c \in Children : c \in Objects
    BY DEF Children, Objects
  <2> QED BY <2>1 DEF Untouched, SameObjects, OpenChild
<1>3. FramesFit'
  <2> SUFFICES ASSUME NEW u \in Threads, NEW i \in 1..Len(stack[u])
               PROVE  /\ FrameFits(stack[u][i])'
                      /\ stack[u][i].pc = "addReport" => Len(stack[u]) = 1
    BY DEF FramesFit
  <2> QED BY <1>2, OldFrame
<1>4. OneLeaves'
  BY DEF LeavingInv, OneLeaves, Leaves
<1>5. LeftIsLeaving'
  BY DEF LeavingInv, LeftIsLeaving, Leaves, SameObjects
<1>6. ObjectsFit'
  BY ObjectsKept
<1> QED BY <1>1, <1>3, <1>4, <1>5, <1>6 DEF LeavingInv

(* A report begins. *)
LEMMA ReportBegins ==
    ASSUME LeavingInv, NEW t \in Threads, Idle(t), NEW f, FrameOK(f), ~Leaves(f), ReportFits(f),
           Pushed(t, f), SameObjects,
           \A o \in Objects : obj'[o].end = obj[o].end /\ Ends(o)' = Ends(o),
           BeaconOK(beacon'), wasOff' \in BOOLEAN, Telling' => Telling, NumbersFit', CaptureFits'
    PROVE  LeavingInv'
<1>1. ActionsTypeOK'
  BY PushedType DEF LeavingInv, ActionsTypeOK, SameObjects, Pushed, Others
<1>2. Untouched({})
  <2>1. \A c \in Children : c \in Objects
    BY DEF Children, Objects
  <2> QED BY <2>1 DEF Untouched, SameObjects, OpenChild
<1>3. /\ Len(stack[t]) = 0 /\ Len(stack'[t]) = 1 /\ stack'[t][1] = f
      /\ \A u \in Threads : u # t => stack'[u] = stack[u]
  BY ShortSeqs DEF Idle, Pushed, Others
<1>4. \A u \in Threads : \A i \in 1..Len(stack'[u]) :
         \/ u = t /\ i = 1
         \/ u # t /\ i \in 1..Len(stack[u]) /\ stack'[u] = stack[u]
  <2>1. \A i \in 1..Len(stack'[t]) : i = 1
    BY <1>3
  <2> QED BY <1>3, <2>1
<1>5. \A u \in Threads : \A i \in 1..Len(stack[u]) : u # t
  BY <1>3
<1>6. FramesFit'
  <2> SUFFICES ASSUME NEW u \in Threads, NEW i \in 1..Len(stack'[u])
               PROVE  /\ FrameFits(stack[u][i])'
                      /\ stack'[u][i].pc = "addReport" => Len(stack'[u]) = 1
    BY DEF FramesFit
  <2>1. CASE u = t /\ i = 1
    BY <1>3, <2>1 DEF FrameFits, Leaves, ReportFits
  <2>2. CASE u # t /\ i \in 1..Len(stack[u]) /\ stack'[u] = stack[u]
    BY <1>2, <2>2, OldFrame
  <2> QED BY <1>4, <2>1, <2>2
<1>7. OneLeaves'
  BY <1>3, <1>4 DEF LeavingInv, OneLeaves, Leaves
<1>8. LeftIsLeaving'
  BY <1>3, <1>5 DEF LeavingInv, LeftIsLeaving, Leaves, SameObjects
<1>9. ObjectsFit'
  BY ObjectsKept
<1> QED BY <1>1, <1>6, <1>7, <1>8, <1>9 DEF LeavingInv

(* A report is added, and the call returns. *)
LEMMA ReportEnds ==
    ASSUME LeavingInv, NEW t \in Threads, Busy(t), ~Leaves(Top(t)), Popped(t), SameObjects,
           \A o \in Objects : obj'[o].end = obj[o].end /\ Ends(o)' = Ends(o),
           BeaconOK(beacon'), wasOff' \in BOOLEAN, Telling' => Telling, NumbersFit', CaptureFits'
    PROVE  LeavingInv'
<1>1. ActionsTypeOK'
  BY PoppedType DEF LeavingInv, ActionsTypeOK, SameObjects, Popped, Others
<1>2. Untouched({})
  <2>1. \A c \in Children : c \in Objects
    BY DEF Children, Objects
  <2> QED BY <2>1 DEF Untouched, SameObjects, OpenChild
<1>3. /\ Len(stack[t]) \in Nat \ {0} /\ Top(t) = stack[t][Len(stack[t])]
      /\ Len(stack[t]) \in 1..Len(stack[t])
  BY DEF Busy
<1>4. Len(stack[t]) = 1 /\ Top(t) = stack[t][1] /\ Len(stack'[t]) = 0
  BY <1>3, FrameFacts DEF Leaves, Popped
<1>5. \A u \in Threads : u # t => stack'[u] = stack[u]
  BY DEF Popped, Others
<1>6. \A u \in Threads : \A i \in 1..Len(stack'[u]) :
         u # t /\ i \in 1..Len(stack[u]) /\ stack'[u] = stack[u]
  BY <1>4, <1>5
<1>7. \A u \in Threads : \A i \in 1..Len(stack[u]) :
         Leaves(stack[u][i]) => u # t /\ stack'[u] = stack[u]
  BY <1>4, <1>5
<1>8. FramesFit'
  <2> SUFFICES ASSUME NEW u \in Threads, NEW i \in 1..Len(stack'[u])
               PROVE  /\ FrameFits(stack[u][i])'
                      /\ stack'[u][i].pc = "addReport" => Len(stack'[u]) = 1
    BY DEF FramesFit
  <2>1. u # t /\ i \in 1..Len(stack[u]) /\ stack'[u] = stack[u]
    BY <1>6
  <2> QED BY <1>2, <2>1, OldFrame
<1>9. OneLeaves'
  BY <1>6 DEF LeavingInv, OneLeaves, Leaves
<1>10. LeftIsLeaving'
  <2> SUFFICES ASSUME NEW o \in Objects, obj'[o].state = "left"
               PROVE  \E u \in Threads : \E i \in 1..Len(stack'[u]) :
                        Leaves(stack'[u][i]) /\ stack'[u][i].o = o
    BY DEF LeftIsLeaving, Leaves
  <2>1. PICK u \in Threads : \E i \in 1..Len(stack[u]) : Leaves(stack[u][i]) /\ stack[u][i].o = o
    BY DEF SameObjects, LeavingInv, LeftIsLeaving
  <2> QED BY <1>7, <2>1
<1>11. ObjectsFit'
  BY ObjectsKept
<1> QED BY <1>1, <1>8, <1>9, <1>10, <1>11 DEF LeavingInv

------------------------------------------------------------------------------
(* An open object is marked as left. *)
Marks(c) ==
    /\ DOMAIN obj' = Objects
    /\ \A o \in Objects \ {c} : obj'[o] = obj[o]
    /\ ObjectOK(obj'[c]) /\ obj'[c].state = "left" /\ obj'[c].parent = obj[c].parent
    /\ obj'[c].mChildren = obj[c].mChildren /\ obj'[c].start = obj[c].start
    /\ c = Session => ~obj'[c].cancelled

(* The objects are as they should be after c has been marked. *)
LEMMA MarkObjects ==
    ASSUME LeavingInv, NEW c \in Objects, Open(c), Marks(c),
           \A o \in Objects : Ends(o)' = Ends(o), Telling' => Telling
    PROVE  /\ ObjectsFit' /\ Untouched({c})
           /\ \A o \in Objects : obj'[o].parent = obj[o].parent /\ ObjectOK(obj'[o])
           /\ \A b \in Children : OpenChild(b, c)' => OpenChild(b, c)
<1>1. \A b \in Children : b \in Objects
  BY DEF Children, Objects
<1>2. /\ obj[c].state = "open"
      /\ \A o \in Objects : o # c => obj'[o] = obj[o]
      /\ \A o \in Objects : /\ ObjectOK(obj'[o]) /\ obj'[o].parent = obj[o].parent
                            /\ obj'[o].mChildren = obj[o].mChildren
                            /\ obj'[o].state = "open" => obj[o].state = "open"
                            /\ obj[o].state \in {"open", "left"} =>
                                 obj'[o].state \in {"open", "left"}
                            /\ obj[o].state # "none" => obj'[o].state # "none"
  BY DEF Marks, Open, LeavingInv, ActionsTypeOK
<1>3. ASSUME NEW o \in Objects PROVE ObjectFits(o)'
  <2>1. obj[o].mChildren \in Seq(Children) /\ ObjectFits(o)
    BY DEF LeavingInv, ActionsTypeOK, ObjectOK, ObjectsFit
  <2>2. CASE o # c
    BY <1>1, <1>2, <2>1, <2>2, ObjectKept
  <2>3. CASE o = c
    <3>1. \A i \in 1..Len(obj[o].mChildren) : obj[o].mChildren[i] \in Objects
      BY <1>1, <2>1
    <3>2. \A i \in 1..Len(obj'[o].mChildren) :
            /\ obj'[obj'[o].mChildren[i]].parent = o
            /\ obj'[obj'[o].mChildren[i]].state \in {"open", "left"}
      BY <1>2, <2>1, <3>1 DEF ObjectFits
    <3>3. obj'[o].state = "left"
      BY <2>3 DEF Marks
    <3> QED BY <3>2, <3>3 DEF ObjectFits
  <2> QED BY <2>2, <2>3
<1>4. ASSUME NEW b \in Children PROVE ChildFits(b)'
  <2>1. b \in Objects /\ obj[b].parent \in Objects /\ ChildFits(b)
    BY <1>1 DEF LeavingInv, ActionsTypeOK, ObjectOK, ObjectsFit, Parents, Objects
  <2>2. CASE b # c
    BY <1>2, <2>1, <2>2, ChildKept
  <2>3. CASE b = c
    BY <1>2, <2>1, <2>3 DEF ChildFits, Marks
  <2> QED BY <2>2, <2>3
<1>5. obj'[Session].parent = Session /\ obj'[Session].state # "none" /\ ~obj'[Session].cancelled
  <2>1. Session \in Objects
    BY DEF Objects
  <2>2. obj[Session].parent = Session /\ obj[Session].state # "none" /\ ~obj[Session].cancelled
    BY DEF LeavingInv, ObjectsFit
  <2> QED BY <1>2, <2>1, <2>2 DEF Marks
<1>6. \A o \in Objects : \A b \in Children : OpenChild(b, o)' => OpenChild(b, o)
  BY <1>1, <1>2 DEF OpenChild
<1>7. Untouched({c})
  BY <1>2, <1>6 DEF Untouched
<1> QED BY <1>2, <1>3, <1>4, <1>5, <1>6, <1>7 DEF ObjectsFit

(* No call leaves an open object. *)
LEMMA NobodyLeaves ==
    ASSUME LeavingInv, NEW c \in Objects, Open(c),
           NEW u \in Threads, NEW i \in 1..Len(stack[u]), Leaves(stack[u][i])
    PROVE  stack[u][i].o # c
<1>1. LeaveFits(stack[u][i])
  BY FrameFacts
<1>2. obj[stack[u][i].o].state = "left"
  BY <1>1 DEF LeaveFits
<1> QED BY <1>2 DEF Open

(* The application leaves an object. *)
LEMMA LeaveBegins ==
    ASSUME LeavingInv, NEW t \in Threads, Idle(t), NEW c \in Objects, Open(c), Marks(c),
           NEW f, FrameOK(f), Leaves(f), f.o = c, LeaveFits(f)', Pushed(t, f),
           \A o \in Objects : Ends(o)' = Ends(o), Telling' => Telling,
           BeaconOK(beacon'), wasOff' \in BOOLEAN, NumbersFit', CaptureFits'
    PROVE  LeavingInv'
<1>1. /\ ObjectsFit' /\ Untouched({c})
      /\ \A o \in Objects : ObjectOK(obj'[o])
  BY MarkObjects
<1>2. ActionsTypeOK'
  BY <1>1, PushedType DEF LeavingInv, ActionsTypeOK, Marks, Pushed, Others
<1>3. /\ Len(stack[t]) = 0 /\ Len(stack'[t]) = 1 /\ stack'[t][1] = f /\ 1 \in 1..Len(stack'[t])
      /\ \A u \in Threads : u # t => stack'[u] = stack[u]
  BY ShortSeqs DEF Idle, Pushed, Others
<1>4. \A u \in Threads : \A i \in 1..Len(stack'[u]) :
         \/ u = t /\ i = 1
         \/ u # t /\ i \in 1..Len(stack[u]) /\ stack'[u] = stack[u]
  <2>1. \A i \in 1..Len(stack'[t]) : i = 1
    BY <1>3
  <2> QED BY <1>3, <2>1
<1>5. \A u \in Threads : \A i \in 1..Len(stack[u]) : u # t
  BY <1>3
<1>6. FramesFit'
  <2> SUFFICES ASSUME NEW u \in Threads, NEW i \in 1..Len(stack'[u])
               PROVE  /\ FrameFits(stack[u][i])'
                      /\ stack'[u][i].pc = "addReport" => Len(stack'[u]) = 1
    BY DEF FramesFit
  <2>1. CASE u = t /\ i = 1
    BY <1>3, <2>1 DEF FrameFits, Leaves
  <2>2. CASE u # t /\ i \in 1..Len(stack[u]) /\ stack'[u] = stack[u]
    <3>1. Leaves(stack[u][i]) => stack[u][i].o \notin {c}
      BY <2>2, NobodyLeaves
    <3> QED BY <1>1, <2>2, <3>1, OldFrame
  <2> QED BY <1>4, <2>1, <2>2
<1>7. OneLeaves'
  <2> SUFFICES ASSUME NEW u \in Threads, NEW v \in Threads,
                      NEW i \in 1..Len(stack'[u]), NEW j \in 1..Len(stack'[v]),
                      Leaves(stack'[u][i]), Leaves(stack'[v][j]), stack'[u][i].o = stack'[v][j].o
               PROVE  u = v /\ i = j
    BY DEF OneLeaves, Leaves
  <2>1. CASE u = t /\ v = t
    BY <1>4, <2>1
  <2>2. CASE u = t /\ v # t
    BY <1>3, <1>4, <2>2, NobodyLeaves
  <2>3. CASE u # t /\ v = t
    BY <1>3, <1>4, <2>3, NobodyLeaves
  <2>4. CASE u # t /\ v # t
    BY <1>3, <2>4, OnlyOne
  <2> QED BY <2>1, <2>2, <2>3, <2>4
<1>8. LeftIsLeaving'
  <2> SUFFICES ASSUME NEW o \in Objects, obj'[o].state = "left"
               PROVE  \E u \in Threads : \E i \in 1..Len(stack'[u]) :
                        Leaves(stack'[u][i]) /\ stack'[u][i].o = o
    BY DEF LeftIsLeaving, Leaves
  <2>1. CASE o = c
    BY <1>3, <2>1
  <2>2. CASE o # c
    <3>1. obj[o].state = "left"
      BY <2>2 DEF Marks
    <3>2. PICK u \in Threads : \E i \in 1..Len(stack[u]) : Leaves(stack[u][i]) /\ stack[u][i].o = o
      BY <3>1 DEF LeavingInv, LeftIsLeaving
    <3> QED BY <1>3, <1>5, <3>2
  <2> QED BY <2>1, <2>2
<1> QED BY <1>1, <1>2, <1>6, <1>7, <1>8 DEF LeavingInv

(* Leaving an object closes one of its children. *)
LEMMA LeaveOn ==
    ASSUME LeavingInv, NEW t \in Threads, Busy(t), Leaves(Top(t)),
           NEW c \in Objects, Open(c), Marks(c),
           NEW g, FrameOK(g), Leaves(g), g.o = Top(t).o, LeaveFits(g)',
           NEW f, FrameOK(f), Leaves(f), f.o = c, LeaveFits(f)', PushedOn(t, g, f),
           \A o \in Objects : Ends(o)' = Ends(o), Telling' => Telling,
           BeaconOK(beacon'), wasOff' \in BOOLEAN, NumbersFit', CaptureFits'
    PROVE  LeavingInv'
<1> DEFINE n == Len(stack[t])
<1>1. /\ ObjectsFit' /\ Untouched({c})
      /\ \A o \in Objects : ObjectOK(obj'[o])
  BY MarkObjects
<1>2. ActionsTypeOK'
  BY <1>1, PushedOnType DEF LeavingInv, ActionsTypeOK, Marks, PushedOn, Others
<1>3. /\ n \in Nat \ {0} /\ n = Len(stack[t]) /\ n \in 1..Len(stack[t]) /\ Top(t) = stack[t][n]
      /\ Len(stack'[t]) = n + 1 /\ stack'[t][n] = g /\ stack'[t][n + 1] = f
      /\ n + 1 \in 1..Len(stack'[t])
      /\ \A i \in 1..Len(stack[t]) : i # n => stack'[t][i] = stack[t][i]
      /\ \A u \in Threads : u # t => stack'[u] = stack[u]
  BY DEF Busy, PushedOn, Others, Below
<1> HIDE DEF n
<1>4. \A u \in Threads : \A i \in 1..Len(stack'[u]) :
         \/ u = t /\ i = n + 1
         \/ i \in 1..Len(stack[u]) /\ (u = t => i # n + 1)
  BY <1>3
<1>5. \A u \in Threads : \A i \in 1..Len(stack[u]) :
         /\ i \in 1..Len(stack'[u]) /\ (u = t => i # n + 1)
         /\ (u = t /\ i = n) \/ stack'[u][i] = stack[u][i]
         /\ Leaves(stack[u][i]) <=> Leaves(stack'[u][i])
         /\ stack[u][i].o = stack'[u][i].o \/ ~Leaves(stack[u][i])
  BY <1>3
<1>6. Len(stack[t]) # 1 \/ stack[t][1].pc # "addReport"
  BY <1>3 DEF Leaves
<1>7. FramesFit'
  <2> SUFFICES ASSUME NEW u \in Threads, NEW i \in 1..Len(stack'[u])
               PROVE  /\ FrameFits(stack[u][i])'
                      /\ stack'[u][i].pc = "addReport" => Len(stack'[u]) = 1
    BY DEF FramesFit
  <2>1. CASE u = t /\ i = n + 1
    BY <1>3, <2>1 DEF FrameFits, Leaves
  <2>2. CASE u = t /\ i = n
    BY <1>3, <2>2 DEF FrameFits, Leaves
  <2>3. CASE i \in 1..Len(stack[u]) /\ stack'[u][i] = stack[u][i]
    <3>1. Leaves(stack[u][i]) => stack[u][i].o \notin {c}
      BY <2>3, NobodyLeaves
    <3>2. FrameFits(stack[u][i])' /\ (stack[u][i].pc = "addReport" => Len(stack[u]) = 1)
      BY <1>1, <2>3, <3>1, OldFrame
    <3>3. u = t /\ Len(stack[u]) = 1 => i = n
      BY <1>3, <2>3
    <3> QED BY <1>3, <1>6, <2>3, <3>2, <3>3 DEF Leaves
  <2> QED BY <1>4, <1>5, <2>1, <2>2, <2>3
<1>8. OneLeaves'
  <2> SUFFICES ASSUME NEW u \in Threads, NEW v \in Threads,
                      NEW i \in 1..Len(stack'[u]), NEW j \in 1..Len(stack'[v]),
                      Leaves(stack'[u][i]), Leaves(stack'[v][j]), stack'[u][i].o = stack'[v][j].o
               PROVE  u = v /\ i = j
    BY DEF OneLeaves, Leaves
  <2>1. CASE (u = t /\ i = n + 1) /\ (v = t /\ j = n + 1)
    BY <2>1
  <2>2. CASE (u = t /\ i = n + 1) /\ j \in 1..Len(stack[v])
    BY <1>3, <1>5, <2>2, NobodyLeaves
  <2>3. CASE i \in 1..Len(stack[u]) /\ (v = t /\ j = n + 1)
    BY <1>3, <1>5, <2>3, NobodyLeaves
  <2>4. CASE i \in 1..Len(stack[u]) /\ j \in 1..Len(stack[v])
    BY <1>5, <2>4, OnlyOne
  <2> QED BY <1>4, <2>1, <2>2, <2>3, <2>4
<1>9. LeftIsLeaving'
  <2> SUFFICES ASSUME NEW o \in Objects, obj'[o].state = "left"
               PROVE  \E u \in Threads : \E i \in 1..Len(stack'[u]) :
                        Leaves(stack'[u][i]) /\ stack'[u][i].o = o
    BY DEF LeftIsLeaving, Leaves
  <2>1. CASE o = c
    BY <1>3, <2>1
  <2>2. CASE o # c
    <3>1. obj[o].state = "left"
      BY <2>2 DEF Marks
    <3>2. PICK u \in Threads : \E i \in 1..Len(stack[u]) : Leaves(stack[u][i]) /\ stack[u][i].o = o
      BY <3>1 DEF LeavingInv, LeftIsLeaving
    <3> QED BY <1>5, <3>2
  <2> QED BY <2>1, <2>2
<1> QED BY <1>1, <1>2, <1>7, <1>8, <1>9 DEF LeavingInv

------------------------------------------------------------------------------
(***************************************************************************)
(* The call on top is through with its object x, which is closed; p is the *)
(* parent that forgets it, or x itself if it is the session.  The session  *)
(* may be marked as left by the same step.                                 *)
(***************************************************************************)
Closes(x, p, session) ==
    /\ DOMAIN obj' = Objects /\ \A o \in Objects : ObjectOK(obj'[o])
    /\ \A o \in Objects : /\ obj'[o].parent = obj[o].parent /\ obj'[o].start = obj[o].start
                          /\ obj'[o].cancelled = obj[o].cancelled /\ obj'[o].end = obj[o].end
    /\ \A o \in Objects \ {x, Session} : obj'[o].state = obj[o].state
    /\ obj'[x].state = "closed"
    /\ x # Session => obj'[Session].state = session
    /\ \A o \in Objects \ {p} : obj'[o].mChildren = obj[o].mChildren

(* The list of p is what is left of it without x. *)
Forgets(p, x) ==
    /\ \A i \in 1..Len(obj'[p].mChildren) :
         obj'[p].mChildren[i] # x /\ \E j \in 1..Len(obj[p].mChildren) :
                                       obj'[p].mChildren[i] = obj[p].mChildren[j]
    /\ \A j \in 1..Len(obj[p].mChildren) : obj[p].mChildren[j] # x =>
         \E i \in 1..Len(obj'[p].mChildren) : obj'[p].mChildren[i] = obj[p].mChildren[j]

(* A list that does not change, of a parent x never had. *)
LEMMA ForgetsNothing ==
    ASSUME LeavingInv, NEW p \in Objects, NEW x \in Objects,
           obj'[p].mChildren = obj[p].mChildren, obj[x].parent # p \/ obj[x].state = "none"
    PROVE  Forgets(p, x)
<1>1. ObjectFits(p)
  BY DEF LeavingInv, ObjectsFit
<1> QED BY <1>1 DEF ObjectFits, Forgets

(* The session is nobody's child. *)
LEMMA NotSession == \A c \in Children : c # Session /\ c \in Objects
BY ActionsAssumption DEF Children, Actions, Tracers, Session, Objects

(* What the objects are like when x has been closed. *)
LEMMA CloseObjects ==
    ASSUME LeavingInv, NEW x \in Objects, NEW p \in Objects, NEW session,
           Closes(x, p, session), Forgets(p, x),
           IF x = Session THEN p = Session ELSE p = obj[x].parent,
           \/ session = obj[Session].state
           \/ obj[Session].state = "open" /\ session = "left",
           obj[x].state = "left", \A c \in Children : ~OpenChild(c, x),
           AtMostOne(Ends(x)), obj[x].cancelled => Ends(x) = {},
           x # Session /\ ~obj[x].cancelled /\ Telling => Ends(x) # {},
           \A o \in Objects : Ends(o)' = Ends(o), Telling' => Telling
    PROVE  ObjectsFit'
<1>1. /\ \A o \in Objects : ObjectOK(obj[o]) /\ ObjectFits(o)
      /\ \A c \in Children : ChildFits(c)
      /\ obj[Session].parent = Session /\ obj[Session].state # "none" /\ ~obj[Session].cancelled
      /\ Session \in Objects
  BY DEF LeavingInv, ActionsTypeOK, ObjectsFit, Objects
<1>2. \A o \in Objects : obj[o].parent \in Objects /\ obj[o].mChildren \in Seq(Children)
  BY <1>1 DEF ObjectOK, Parents, Objects
<1>3. \A c \in Children : c # x => obj'[c].state = obj[c].state
  BY NotSession DEF Closes
<1>4. x # Session => x \in Children
  BY DEF Objects, Children
<1>5. ASSUME NEW o \in Objects, NEW i \in 1..Len(obj'[o].mChildren)
      PROVE  LET e == obj'[o].mChildren[i] IN
             obj'[e].parent = o /\ obj'[e].state \in {"open", "left"}
  <2> DEFINE e == obj'[o].mChildren[i]
  <2>1. PICK j \in 1..Len(obj[o].mChildren) : e = obj[o].mChildren[j]
    BY DEF Closes, Forgets
  <2>2. e \in Children /\ obj[e].parent = o /\ obj[e].state \in {"open", "left"}
    <3>1. e \in Children
      BY <1>2, <2>1
    <3> HIDE DEF e
    <3>2. ObjectFits(o)
      BY <1>1
    <3> QED BY <2>1, <3>1, <3>2 DEF ObjectFits
  <2>3. e # x
    <3>1. CASE o = p
      BY <3>1 DEF Forgets
    <3>2. CASE o # p
      BY <2>2, <3>2, NotSession
    <3> QED BY <3>1, <3>2
  <2>4. e \in Objects /\ obj'[e].state = obj[e].state /\ obj'[e].parent = obj[e].parent
    BY <1>3, <2>2, <2>3, NotSession DEF Closes
  <2> HIDE DEF e
  <2>5. obj'[e].parent = o /\ obj'[e].state \in {"open", "left"}
    BY <2>2, <2>4
  <2> QED BY <2>5 DEF e
<1>6. ASSUME NEW o \in Objects PROVE ObjectFits(o)'
  <2>1. CASE o = x
    <3>1. /\ obj'[o].state = "closed" /\ obj'[o].cancelled = obj[o].cancelled /\ Ends(o)' = Ends(o)
      BY <2>1 DEF Closes
    <3> QED BY <1>5, <2>1, <3>1 DEF ObjectFits, AtMostOne
  <2>2. CASE o # x /\ obj'[o].state = obj[o].state
    <3>1. /\ obj'[o].cancelled = obj[o].cancelled /\ obj'[o].end = obj[o].end
          /\ Ends(o)' = Ends(o) /\ ObjectFits(o)
      BY <1>1 DEF Closes
    <3>2. obj[o].state = "none" => obj'[o].mChildren = <<>>
      <4>1. CASE o # p
        BY <3>1, <4>1 DEF Closes, ObjectFits
      <4>2. CASE o = p
        <5>1. obj[p].state # "none"
          <6>1. CASE x = Session
            BY <1>1, <6>1
          <6>2. CASE x # Session
            BY <1>1, <1>4, <6>2 DEF ChildFits
          <6> QED BY <6>1, <6>2
        <5> QED BY <4>2, <5>1
      <4> QED BY <4>1, <4>2
    <3> QED BY <1>5, <2>2, <3>1, <3>2 DEF ObjectFits, AtMostOne
  <2>3. CASE o # x /\ obj'[o].state # obj[o].state
    <3>1. o = Session /\ obj'[o].state = "left"
      BY <2>3 DEF Closes
    <3> QED BY <1>5, <3>1 DEF ObjectFits
  <2> QED BY <2>1, <2>2, <2>3
<1>7. ASSUME NEW c \in Children PROVE ChildFits(c)'
  <2> DEFINE q == obj[c].parent
  <2>1. /\ c \in Objects /\ c # Session /\ q \in Objects /\ ChildFits(c)
        /\ obj'[c].parent = q /\ obj'[q].parent = obj[q].parent
    BY <1>1, <1>2, NotSession DEF Closes
  <2>2. obj[q].state # "none" => obj'[q].state # "none"
    <3>1. CASE q = x
      BY <3>1 DEF Closes
    <3>2. CASE q # x /\ q # Session
      BY <2>1, <3>2 DEF Closes
    <3>3. CASE q # x /\ q = Session
      BY <3>3 DEF Closes
    <3> QED BY <3>1, <3>2, <3>3
  <2>3. CASE c = x
    <3>1. obj'[c].state = "closed" /\ obj[c].state = "left"
      BY <2>3 DEF Closes
    <3> QED BY <2>1, <2>2, <3>1 DEF ChildFits
  <2>4. CASE c # x /\ obj[c].state # "open"
    <3>1. obj'[c].state = obj[c].state
      BY <1>3, <2>4
    <3> QED BY <2>1, <2>2, <2>4, <3>1 DEF ChildFits
  <2>5. CASE c # x /\ obj[c].state = "open"
    <3>1. obj'[c].state = obj[c].state
      BY <1>3, <2>5
    <3>2. q # x
      BY <2>5 DEF OpenChild
    <3>3. obj'[q].state \in {"open", "left"}
      <4>1. obj[q].state \in {"open", "left"}
        BY <2>1, <2>5 DEF ChildFits
      <4>2. CASE q = Session
        BY <3>2, <4>1, <4>2 DEF Closes
      <4>3. CASE q # Session
        BY <2>1, <3>2, <4>1, <4>3 DEF Closes
      <4> QED BY <4>2, <4>3
    <3>4. \E i \in 1..Len(obj'[q].mChildren) : obj'[q].mChildren[i] = c
      <4>1. PICK j \in 1..Len(obj[q].mChildren) : obj[q].mChildren[j] = c
        BY <2>1, <2>5 DEF ChildFits
      <4>2. CASE q = p
        BY <2>5, <4>1, <4>2 DEF Forgets
      <4>3. CASE q # p
        BY <2>1, <4>1, <4>3 DEF Closes
      <4> QED BY <4>2, <4>3
    <3> QED BY <2>1, <2>2, <3>1, <3>3, <3>4 DEF ChildFits
  <2> QED BY <2>3, <2>4, <2>5
<1>8. obj'[Session].parent = Session /\ obj'[Session].state # "none" /\ ~obj'[Session].cancelled
  BY <1>1 DEF Closes
<1> QED BY <1>6, <1>7, <1>8 DEF ObjectsFit

(* The objects a step that closes x does not touch. *)
LEMMA CloseUntouched ==
    ASSUME NEW x \in Objects, NEW p \in Objects, NEW session, Closes(x, p, session),
           \A o \in Objects : Ends(o)' = Ends(o)
    PROVE  /\ Untouched({x, Session})
           /\ x = Session \/ session = obj[Session].state => Untouched({x})
<1>1. \A c \in Children : c \in Objects /\ c # Session
  BY NotSession
<1>2. \A o \in Objects : \A c \in Children : OpenChild(c, o)' => OpenChild(c, o)
  BY <1>1 DEF OpenChild, Closes
<1>3. Untouched({x, Session})
  BY <1>2 DEF Untouched, Closes
<1>4. ASSUME x = Session \/ session = obj[Session].state PROVE Untouched({x})
  BY <1>2, <1>4 DEF Untouched, Closes
<1> QED BY <1>3, <1>4

(* An object is closed, and the call that left it returns. *)
LEMMA CloseReturns ==
    ASSUME LeavingInv, NEW t \in Threads, Busy(t), Leaves(Top(t)), Popped(t),
           NEW x \in Objects, x = Top(t).o, NEW p \in Objects, Closes(x, p, obj[Session].state),
           ObjectsFit', \A o \in Objects : Ends(o)' = Ends(o), Telling' => Telling,
           BeaconOK(beacon'), wasOff' \in BOOLEAN, NumbersFit', CaptureFits'
    PROVE  LeavingInv'
<1> DEFINE n == Len(stack[t])
<1>1. Untouched({x})
  BY CloseUntouched
<1>2. ActionsTypeOK'
  BY PoppedType DEF LeavingInv, ActionsTypeOK, Closes, Popped, Others
<1>3. /\ n \in Nat \ {0} /\ n = Len(stack[t]) /\ n \in 1..Len(stack[t]) /\ Top(t) = stack[t][n]
      /\ Len(stack'[t]) = n - 1
      /\ \A i \in 1..(n - 1) : i \in 1..Len(stack[t]) /\ i # n /\ stack'[t][i] = stack[t][i]
      /\ \A i \in 1..Len(stack[t]) : i # n => i \in 1..(n - 1)
      /\ \A u \in Threads : u # t => stack'[u] = stack[u]
  BY DEF Busy, Popped, Others, Below
<1> HIDE DEF n
<1>4. \A u \in Threads : \A i \in 1..Len(stack'[u]) :
         i \in 1..Len(stack[u]) /\ stack'[u][i] = stack[u][i] /\ ~(u = t /\ i = n)
  BY <1>3
<1>5. \A u \in Threads : \A i \in 1..Len(stack[u]) : ~(u = t /\ i = n) =>
         i \in 1..Len(stack'[u]) /\ stack'[u][i] = stack[u][i]
  BY <1>3
<1>6. FramesFit'
  <2> SUFFICES ASSUME NEW u \in Threads, NEW i \in 1..Len(stack'[u])
               PROVE  /\ FrameFits(stack[u][i])'
                      /\ stack'[u][i].pc = "addReport" => Len(stack'[u]) = 1
    BY DEF FramesFit
  <2>1. i \in 1..Len(stack[u]) /\ stack'[u][i] = stack[u][i] /\ ~(u = t /\ i = n)
    BY <1>4
  <2>2. Leaves(stack[u][i]) => stack[u][i].o \notin {x}
    <3>1. Leaves(stack[t][n]) /\ stack[t][n].o = x
      BY <1>3
    <3>2. ASSUME Leaves(stack[u][i]), stack[u][i].o = x PROVE FALSE
      <4>1. n \in 1..Len(stack[t]) /\ i \in 1..Len(stack[u]) /\ ~(u = t /\ i = n)
        BY <1>3, <2>1
      <4>2. stack[u][i].o = stack[t][n].o
        BY <3>1, <3>2
      <4>3. u = t /\ i = n
        BY <3>1, <3>2, <4>1, <4>2, OnlyOne
      <4> QED BY <4>1, <4>3
    <3> QED BY <3>2
  <2>3. FrameFits(stack[u][i])' /\ (stack[u][i].pc = "addReport" => Len(stack[u]) = 1)
    BY <1>1, <2>1, <2>2, OldFrame
  <2>4. u = t => Len(stack[u]) # 1
    BY <1>3
  <2> QED BY <1>3, <2>1, <2>3, <2>4
<1>7. OneLeaves'
  <2> SUFFICES ASSUME NEW u \in Threads, NEW v \in Threads,
                      NEW i \in 1..Len(stack'[u]), NEW j \in 1..Len(stack'[v]),
                      Leaves(stack'[u][i]), Leaves(stack'[v][j]), stack'[u][i].o = stack'[v][j].o
               PROVE  u = v /\ i = j
    BY DEF OneLeaves, Leaves
  <2> QED BY ZenonT(60), <1>4, OnlyOne
<1>8. LeftIsLeaving'
  <2> SUFFICES ASSUME NEW o \in Objects, obj'[o].state = "left"
               PROVE  \E u \in Threads : \E i \in 1..Len(stack'[u]) :
                        Leaves(stack'[u][i]) /\ stack'[u][i].o = o
    BY DEF LeftIsLeaving, Leaves
  <2>1. o # x /\ obj[o].state = "left"
    BY DEF Closes
  <2>2. PICK u \in Threads : \E i \in 1..Len(stack[u]) : Leaves(stack[u][i]) /\ stack[u][i].o = o
    BY <2>1 DEF LeavingInv, LeftIsLeaving
  <2>3. PICK i \in 1..Len(stack[u]) : Leaves(stack[u][i]) /\ stack[u][i].o = o
    BY <2>2
  <2>4. ~(u = t /\ i = n)
    BY <1>3, <2>1, <2>3
  <2> QED BY <1>5, <2>3, <2>4
<1> QED BY <1>2, <1>6, <1>7, <1>8 DEF LeavingInv

(* The last child is closed, and the call ends the session. *)
LEMMA CloseEndsSession ==
    ASSUME LeavingInv, NEW t \in Threads, Busy(t), Leaves(Top(t)), Open(Session),
           NEW x \in Objects, x = Top(t).o, Closes(x, Session, "left"),
           NEW f, FrameOK(f), Leaves(f), f.o = Session, LeaveFits(f)', Replaced(t, f),
           ObjectsFit', \A o \in Objects : Ends(o)' = Ends(o), Telling' => Telling,
           BeaconOK(beacon'), wasOff' \in BOOLEAN, NumbersFit', CaptureFits'
    PROVE  LeavingInv'
<1> DEFINE n == Len(stack[t])
<1>1. Untouched({x, Session}) /\ Session \in Objects
  <2>1. Session \in Objects
    BY DEF Objects
  <2> QED BY <2>1, CloseUntouched
<1>2. ActionsTypeOK'
  BY ReplacedType DEF LeavingInv, ActionsTypeOK, Closes, Replaced, Others
<1>3. /\ n \in Nat \ {0} /\ n = Len(stack[t]) /\ n \in 1..Len(stack[t]) /\ Top(t) = stack[t][n]
      /\ Len(stack'[t]) = n /\ stack'[t][n] = f
      /\ \A i \in 1..n : i # n => stack'[t][i] = stack[t][i]
      /\ \A u \in Threads : u # t => stack'[u] = stack[u]
  BY DEF Busy, Replaced, Others, Below
<1> HIDE DEF n
<1>4. \A u \in Threads : \A i \in 1..Len(stack[u]) :
         \/ u = t /\ i = n
         \/ stack'[u][i] = stack[u][i]
  BY <1>3
<1>5. \A u \in Threads : Len(stack'[u]) = Len(stack[u])
  BY <1>3
<1>6. FramesFit'
  <2> SUFFICES ASSUME NEW u \in Threads, NEW i \in 1..Len(stack[u])
               PROVE  /\ FrameFits(stack[u][i])'
                      /\ stack'[u][i].pc = "addReport" => Len(stack'[u]) = 1
    BY <1>5 DEF FramesFit
  <2>1. CASE u = t /\ i = n
    BY <1>3, <2>1 DEF FrameFits, Leaves
  <2>2. CASE ~(u = t /\ i = n)
    <3>1. stack'[u][i] = stack[u][i]
      BY <1>4, <2>2
    <3>2. Leaves(stack[u][i]) => stack[u][i].o # x
      BY <1>3, <2>2, OnlyOne
    <3>3. Leaves(stack[u][i]) => stack[u][i].o # Session
      BY <1>1, NobodyLeaves
    <3>4. Leaves(stack[u][i]) => stack[u][i].o \notin {x, Session}
      BY <3>2, <3>3
    <3>5. FrameFits(stack[u][i])' /\ (stack[u][i].pc = "addReport" => Len(stack[u]) = 1)
      BY <1>1, <3>1, <3>4, OldFrame
    <3> QED BY <1>5, <3>1, <3>5
  <2> QED BY <2>1, <2>2
<1>7. OneLeaves'
  <2> SUFFICES ASSUME NEW u \in Threads, NEW v \in Threads,
                      NEW i \in 1..Len(stack[u]), NEW j \in 1..Len(stack[v]),
                      Leaves(stack'[u][i]), Leaves(stack'[v][j]), stack'[u][i].o = stack'[v][j].o
               PROVE  u = v /\ i = j
    BY <1>5 DEF OneLeaves, Leaves
  <2>1. CASE (u = t /\ i = n) /\ (v = t /\ j = n)
    BY <2>1
  <2>2. CASE (u = t /\ i = n) /\ ~(v = t /\ j = n)
    BY <1>1, <1>3, <1>4, <2>2, NobodyLeaves
  <2>3. CASE ~(u = t /\ i = n) /\ (v = t /\ j = n)
    BY <1>1, <1>3, <1>4, <2>3, NobodyLeaves
  <2>4. CASE ~(u = t /\ i = n) /\ ~(v = t /\ j = n)
    BY <1>4, <2>4, OnlyOne
  <2> QED BY <2>1, <2>2, <2>3, <2>4
<1>8. LeftIsLeaving'
  <2> SUFFICES ASSUME NEW o \in Objects, obj'[o].state = "left"
               PROVE  \E u \in Threads : \E i \in 1..Len(stack'[u]) :
                        Leaves(stack'[u][i]) /\ stack'[u][i].o = o
    BY DEF LeftIsLeaving, Leaves
  <2>1. CASE o = Session
    BY <1>3, <1>5, <2>1
  <2>2. CASE o # Session
    <3>1. o # x /\ obj[o].state = "left"
      BY <2>2 DEF Closes
    <3>2. PICK u \in Threads : \E i \in 1..Len(stack[u]) : Leaves(stack[u][i]) /\ stack[u][i].o = o
      BY <3>1 DEF LeavingInv, LeftIsLeaving
    <3>3. PICK i \in 1..Len(stack[u]) : Leaves(stack[u][i]) /\ stack[u][i].o = o
      BY <3>2
    <3>4. ~(u = t /\ i = n)
      BY <1>3, <3>1, <3>3
    <3> QED BY <1>4, <1>5, <3>3, <3>4
  <2> QED BY <2>1, <2>2
<1> QED BY <1>2, <1>6, <1>7, <1>8 DEF LeavingInv

------------------------------------------------------------------------------
(* A child is added to an open parent. *)
LEMMA NewChildKeeps ==
    ASSUME LeavingInv, NEW p \in Parents, Open(p), NEW c \in Children, obj[c].state = "none",
           NEW new, ObjectOK(new), new.state = "open", new.parent = p, new.mChildren = <<>>,
           ~new.cancelled, new.end = 0, c \in Actions => obj[p].parent = Session,
           obj' = [obj EXCEPT ![c] = new, ![p].mChildren = Append(@, c)],
           stack' = stack, beacon'.records = beacon.records, Telling' => Telling,
           BeaconOK(beacon'), wasOff' \in BOOLEAN, NumbersFit', CaptureFits'
    PROVE  LeavingInv'
<1>1. /\ \A o \in Objects : ObjectOK(obj[o]) /\ ObjectFits(o)
      /\ \A b \in Children : ChildFits(b) /\ b \in Objects
      /\ DOMAIN obj = Objects /\ p \in Objects /\ c \in Objects
      /\ obj[Session].parent = Session /\ obj[Session].state # "none" /\ ~obj[Session].cancelled
      /\ Session \in Objects /\ c # Session /\ obj[p].state = "open" /\ p # c
  BY NotSession DEF LeavingInv, ActionsTypeOK, ObjectsFit, Parents, Objects, Open
<1>2. /\ DOMAIN obj' = Objects /\ obj'[c] = new
      /\ obj'[p] = [obj[p] EXCEPT !.mChildren = Append(obj[p].mChildren, c)]
      /\ \A o \in Objects : o # c /\ o # p => obj'[o] = obj[o]
  BY <1>1
<1> DEFINE l == obj[p].mChildren
<1>3. /\ l \in Seq(Children) /\ Append(l, c) \in Seq(Children) /\ Len(l) \in Nat
      /\ Len(Append(l, c)) = Len(l) + 1 /\ Append(l, c)[Len(l) + 1] = c
      /\ \A i \in 1..Len(l) : Append(l, c)[i] = l[i]
  BY <1>1 DEF ObjectOK
<1>4. /\ ObjectOK(obj'[p]) /\ obj'[p].mChildren = Append(l, c) /\ obj'[p].state = obj[p].state
      /\ obj'[p].parent = obj[p].parent /\ obj'[p].cancelled = obj[p].cancelled
      /\ obj'[p].end = obj[p].end /\ obj'[p].start = obj[p].start
  BY SMTT(60), <1>1, <1>2, <1>3 DEF ObjectOK, ObjectFields
<1>5. \A o \in Objects : o # c =>
         /\ obj'[o].state = obj[o].state /\ obj'[o].parent = obj[o].parent
         /\ obj'[o].cancelled = obj[o].cancelled /\ obj'[o].end = obj[o].end
         /\ o # p => obj'[o].mChildren = obj[o].mChildren
  BY <1>2, <1>4
<1>6. \A o \in Objects : ObjectOK(obj'[o])
  BY <1>1, <1>2, <1>4
<1>7. ActionsTypeOK'
  BY <1>2, <1>6 DEF LeavingInv, ActionsTypeOK
<1>8. \A o \in Objects : Ends(o)' = Ends(o)
  BY SameEnds
<1> HIDE DEF l
<1>9. ASSUME NEW o \in Objects PROVE ObjectFits(o)'
  <2>1. ObjectFits(o) /\ obj[o].mChildren \in Seq(Children)
    BY <1>1 DEF ObjectOK
  <2>2. CASE o = c
    <3>1. Ends(o) = {}
      BY <2>1, <2>2 DEF ObjectFits
    <3>2. /\ Ends(o)' = {} /\ obj'[o].mChildren = <<>> /\ obj'[o].state = "open"
          /\ ~obj'[o].cancelled /\ obj'[o].end = 0
      BY <1>2, <1>8, <2>2, <3>1
    <3>3. \A i \in 1..Len(obj'[o].mChildren) : FALSE
      BY <3>2
    <3> QED BY <3>2, <3>3 DEF ObjectFits
  <2>3. CASE o = p
    <3>1. ASSUME NEW i \in 1..Len(Append(l, c))
          PROVE  LET e == Append(l, c)[i] IN
                 obj'[e].parent = p /\ obj'[e].state \in {"open", "left"}
      <4>1. CASE i = Len(l) + 1
        BY <1>2, <1>3, <4>1
      <4>2. CASE i \in 1..Len(l)
        <5>1. /\ Append(l, c)[i] = l[i] /\ l[i] \in Children
              /\ obj[l[i]].parent = p /\ obj[l[i]].state \in {"open", "left"}
          BY <1>3, <2>1, <2>3, <4>2 DEF ObjectFits, l
        <5> QED BY <1>1, <1>5, <5>1
      <4> QED BY <1>3, <4>1, <4>2
    <3>2. /\ obj'[o].state = "open" /\ ~obj'[o].cancelled /\ obj'[o].end = 0 /\ Ends(o)' = {}
      BY <1>1, <1>4, <1>8, <2>1, <2>3 DEF ObjectFits
    <3> QED BY ZenonT(60), <1>4, <2>3, <3>1, <3>2 DEF ObjectFits
  <2>4. CASE o # c /\ o # p
    <3>1. \A b \in Children : obj[b].parent = o /\ obj[b].state \in {"open", "left"} =>
                                obj'[b].parent = o /\ obj'[b].state \in {"open", "left"}
      BY <1>1, <1>5
    <3> QED BY <1>5, <1>8, <2>1, <2>4, <3>1, ObjectKept
  <2> QED BY <2>2, <2>3, <2>4
<1>10. ASSUME NEW b \in Children PROVE ChildFits(b)'
  <2> DEFINE q == obj[b].parent
  <2>1. b \in Objects /\ q \in Objects /\ ChildFits(b)
    BY <1>1 DEF ObjectOK, Parents, Objects
  <2>2. CASE b = c
    <3>1. obj'[b].state = "open" /\ obj'[b].parent = p
      BY <1>2, <2>2
    <3>2. Len(l) + 1 \in 1..Len(Append(l, c))
      BY <1>3
    <3>3. \E i \in 1..Len(obj'[p].mChildren) : obj'[p].mChildren[i] = c
      BY <1>3, <1>4, <3>2
    <3> QED BY <1>1, <1>4, <2>2, <3>1, <3>3 DEF ChildFits
  <2>3. CASE b # c /\ obj[b].state = "none"
    BY <1>5, <2>1, <2>3 DEF ChildFits
  <2>4. CASE b # c /\ obj[b].state # "none" /\ q # p
    <3>1. q # c
      BY <2>1, <2>4 DEF ChildFits
    <3>2. obj'[q] = obj[q] /\ obj'[b].state = obj[b].state /\ obj'[b].parent = q
      BY <1>2, <1>5, <2>1, <2>4, <3>1
    <3> QED BY <2>1, <3>2 DEF ChildFits
  <2>5. CASE b # c /\ obj[b].state # "none" /\ q = p
    <3>1. obj[b].state = "open" => \E i \in 1..Len(obj'[p].mChildren) : obj'[p].mChildren[i] = b
      <4> SUFFICES ASSUME obj[b].state = "open"
                   PROVE  \E i \in 1..Len(obj'[p].mChildren) : obj'[p].mChildren[i] = b
        OBVIOUS
      <4>1. PICK i \in 1..Len(l) : l[i] = b
        BY <2>1, <2>5 DEF ChildFits, l
      <4>2. i \in 1..Len(Append(l, c)) /\ Append(l, c)[i] = b
        BY <1>3, <4>1
      <4> QED BY <1>4, <4>2
    <3> QED BY ZenonT(60), <1>1, <1>4, <1>5, <2>1, <2>5, <3>1 DEF ChildFits
  <2> QED BY <2>2, <2>3, <2>4, <2>5
<1>11. ObjectsFit'
  BY <1>1, <1>5, <1>9, <1>10 DEF ObjectsFit
<1>12. Untouched({c, p})
  <2>1. ASSUME NEW o \in Objects \ {c, p}, NEW b \in Children, OpenChild(b, o)'
        PROVE  OpenChild(b, o)
    <3>1. b # c
      BY <1>2, <2>1 DEF OpenChild
    <3> QED BY <1>1, <1>5, <2>1, <3>1 DEF OpenChild
  <2> QED BY <1>5, <1>8, <2>1 DEF Untouched
<1>13. FramesFit'
  <2> SUFFICES ASSUME NEW u \in Threads, NEW i \in 1..Len(stack[u])
               PROVE  /\ FrameFits(stack[u][i])'
                      /\ stack[u][i].pc = "addReport" => Len(stack[u]) = 1
    BY DEF FramesFit
  <2>1. Leaves(stack[u][i]) => LeaveFits(stack[u][i])
    BY FrameFacts
  <2>2. Leaves(stack[u][i]) => obj[stack[u][i].o].state = "left"
    BY <2>1 DEF LeaveFits
  <2>3. Leaves(stack[u][i]) => stack[u][i].o \notin {c, p}
    BY <1>1, <2>2
  <2> QED BY <1>12, <2>3, OldFrame
<1>14. OneLeaves'
  BY DEF LeavingInv, OneLeaves, Leaves
<1>15. LeftIsLeaving'
  <2>1. \A o \in Objects : obj'[o].state = "left" => obj[o].state = "left"
    BY <1>2, <1>5
  <2> QED BY <2>1 DEF LeavingInv, LeftIsLeaving, Leaves
<1> QED BY <1>7, <1>11, <1>13, <1>14, <1>15 DEF LeavingInv

------------------------------------------------------------------------------
(* The steps of the threads, one by one. *)

(* A step that changes neither the settings nor what is captured. *)
SameSettings ==
    /\ beacon'.privacy = beacon.privacy /\ beacon'.config = beacon.config
    /\ beacon'.mTrafficControlValue = beacon.mTrafficControlValue /\ wasOff' = wasOff

(* What must be recorded and what is captured stay as they are. *)
LEMMA SettingsKept ==
    ASSUME LeavingInv, SameSettings
    PROVE  wasOff' \in BOOLEAN /\ (Telling' => Telling) /\ CaptureFits'
<1>1. wasOff' \in BOOLEAN
  BY DEF LeavingInv, ActionsTypeOK, SameSettings
<1>2. Telling' => Telling
  BY DEF Telling, SameSettings
<1>3. InSample(beacon)' = InSample(beacon)
  BY DEF InSample, SameSettings
<1>4. isDataCapturingEnabled(beacon)' = isDataCapturingEnabled(beacon)
  BY <1>3 DEF isDataCapturingEnabled, SameSettings
<1>5. CaptureFits'
  BY <1>4 DEF LeavingInv, CaptureFits, SameSettings
<1> QED BY <1>1, <1>2, <1>5

(* The numbers stay in order when objects are only marked or closed. *)
LEMMA NumbersKept ==
    ASSUME LeavingInv, beacon'.mSequenceNumber \in Nat,
           beacon.mSequenceNumber <= beacon'.mSequenceNumber,
           \A o \in Objects : /\ obj'[o].parent = obj[o].parent /\ obj'[o].start = obj[o].start
                              /\ obj'[o].end = obj[o].end,
           \A w \in Tracers : /\ obj'[w].state = "open" <=> obj[w].state = "open"
                              /\ obj'[w].state = "none" <=> obj[w].state = "none"
    PROVE  NumbersFit'
<1>1. \A o \in Objects : obj[o].start \in Nat /\ obj[o].end \in Nat /\ obj[o].parent \in Objects
  BY DEF LeavingInv, ActionsTypeOK, ObjectOK, Parents, Objects
<1>2. beacon.mSequenceNumber \in Nat
  BY DEF LeavingInv, ActionsTypeOK, BeaconOK
<1>3. \A o \in Objects : /\ obj[o].start <= beacon.mSequenceNumber
                         /\ obj[o].end <= beacon.mSequenceNumber
  BY DEF LeavingInv, NumbersFit
<1>4. \A o \in Objects : /\ obj'[o].start <= beacon'.mSequenceNumber
                         /\ obj'[o].end <= beacon'.mSequenceNumber
  BY <1>1, <1>2, <1>3
<1>5. ASSUME NEW w \in Tracers PROVE WebRequestFits(w)'
  <2>1. WebRequestFits(w) /\ w \in Objects /\ obj[w].parent \in Objects
    BY <1>1 DEF LeavingInv, NumbersFit, Objects
  <2> QED BY <2>1 DEF WebRequestFits
<1> QED BY <1>4, <1>5 DEF NumbersFit

(* Objects that do not change at all, or only in what a tracer is told. *)
LEMMA UnchangedObjects ==
    ASSUME LeavingInv, obj' = obj
    PROVE  /\ SameObjects /\ \A o \in Objects : obj'[o].end = obj[o].end
           /\ \A w \in Tracers : obj'[w].state = obj[w].state
BY DEF LeavingInv, ActionsTypeOK, SameObjects

(* setBytesSent and setBytesReceived. *)
LEMMA SetBytesKeeps ==
    ASSUME LeavingInv, NEW t \in Threads, NEW w \in Tracers,
           NEW field \in {"bytesSent", "bytesReceived"}, NEW n, setBytes(t, w, field, n)
    PROVE  LeavingInv'
<1>1. /\ obj' = [obj EXCEPT ![w][field] = n] /\ beacon' = beacon /\ stack' = stack
      /\ wasOff' = wasOff
  BY DEF setBytes
<1>2. /\ DOMAIN obj = Objects /\ BeaconOK(beacon) /\ \A o \in Objects : ObjectOK(obj[o])
      /\ w \in Objects
  BY DEF LeavingInv, ActionsTypeOK, Objects
<1>3. DOMAIN obj' = Objects /\ \A o \in Objects \ {w} : obj'[o] = obj[o]
  BY <1>1, <1>2
<1>4. obj'[w] = [obj[w] EXCEPT ![field] = n]
  BY <1>1, <1>2
<1>5. /\ ObjectOK(obj'[w]) /\ obj'[w].end = obj[w].end
      /\ obj'[w].state = obj[w].state /\ obj'[w].parent = obj[w].parent
      /\ obj'[w].mChildren = obj[w].mChildren /\ obj'[w].cancelled = obj[w].cancelled
      /\ obj'[w].start = obj[w].start
  <2>1. ObjectOK(obj[w])
    BY <1>2
  <2> QED BY <1>4, <2>1 DEF ObjectOK, ObjectFields
<1>6. SameObjects /\ \A o \in Objects : obj'[o].end = obj[o].end
  BY <1>2, <1>3, <1>5 DEF SameObjects
<1>7. \A v \in Tracers : v \in Objects
  BY DEF Objects
<1>8. beacon'.mSequenceNumber \in Nat /\ beacon.mSequenceNumber <= beacon'.mSequenceNumber
  BY <1>1, <1>2 DEF BeaconOK
<1>9. NumbersFit'
  BY <1>6, <1>7, <1>8, NumbersKept DEF SameObjects
<1>10. wasOff' \in BOOLEAN /\ (Telling' => Telling) /\ CaptureFits'
  BY <1>1, SettingsKept DEF SameSettings
<1>11. \A o \in Objects : Ends(o)' = Ends(o)
  BY <1>1, SameEnds
<1> QED BY <1>1, <1>2, <1>6, <1>9, <1>10, <1>11, QuietKeeps

(* A beacon that takes at most a number, or is told something. *)
LEMMA BeaconOnly ==
    ASSUME LeavingInv, SameSettings, obj' = obj, DOMAIN beacon' = BeaconFields,
           beacon'.records = beacon.records,
           beacon'.mSequenceNumber \in {beacon.mSequenceNumber, beacon.mSequenceNumber + 1}
    PROVE  /\ BeaconOK(beacon') /\ SameObjects /\ NumbersFit'
           /\ \A o \in Objects : obj'[o].end = obj[o].end /\ Ends(o)' = Ends(o)
           /\ wasOff' \in BOOLEAN /\ (Telling' => Telling) /\ CaptureFits'
<1>1. BeaconOK(beacon)
  BY DEF LeavingInv, ActionsTypeOK
<1>2. BeaconOK(beacon') /\ beacon.mSequenceNumber <= beacon'.mSequenceNumber
  BY <1>1 DEF BeaconOK
<1>3. /\ SameObjects /\ \A o \in Objects : obj'[o].end = obj[o].end
  BY UnchangedObjects
<1>4. NumbersFit'
  BY <1>2, NumbersKept DEF BeaconOK
<1>5. \A o \in Objects : Ends(o)' = Ends(o)
  BY SameEnds
<1> QED BY <1>2, <1>3, <1>4, <1>5, SettingsKept

(* reportNetworkTechnology, reportCarrier and reportConnectionType. *)
LEMMA SupplementKeeps ==
    ASSUME LeavingInv, NEW t \in Threads, NEW what, Supplement(t, what)
    PROVE  LeavingInv'
<1>1. DOMAIN beacon = BeaconFields
  BY DEF LeavingInv, ActionsTypeOK, BeaconOK
<1>2. PICK s : beacon' = [beacon EXCEPT !.supplement = s]
  BY DEF Supplement
<1>3. obj' = obj /\ stack' = stack /\ wasOff' = wasOff
  BY DEF Supplement
<1>4. /\ DOMAIN beacon' = BeaconFields /\ beacon'.records = beacon.records
      /\ beacon'.mSequenceNumber = beacon.mSequenceNumber /\ SameSettings
  BY <1>1, <1>2, <1>3 DEF SameSettings, BeaconFields
<1> QED BY <1>3, <1>4, BeaconOnly, QuietKeeps

(* tryEnd of a session that has children. *)
LEMMA TryEndLater ==
    ASSUME LeavingInv, beacon' = beacon, obj' = obj, stack' = stack, wasOff' = wasOff
    PROVE  LeavingInv'
<1>1. DOMAIN beacon = BeaconFields
  BY DEF LeavingInv, ActionsTypeOK, BeaconOK
<1>2. SameSettings
  BY DEF SameSettings
<1> QED BY <1>1, <1>2, BeaconOnly, QuietKeeps

(* A configuration of the server: capturing that was off is remembered. *)
LEMMA ConfigurationKeeps ==
    ASSUME LeavingInv, NEW c, updateServerConfiguration(c)
    PROVE  LeavingInv'
<1> DEFINE merged == mergeConfigurations(beacon.config, c)
<1>1. BeaconOK(beacon)
  BY DEF LeavingInv, ActionsTypeOK
<1>2. /\ beacon' = [beacon EXCEPT !.config = merged]
      /\ obj' = obj /\ stack' = stack
      /\ wasOff' = (wasOff \/ ~isDataCapturingEnabled(beacon'))
  BY DEF updateServerConfiguration
<1> HIDE DEF merged
<1>3. /\ DOMAIN beacon' = BeaconFields /\ beacon'.records = beacon.records
      /\ beacon'.mSequenceNumber = beacon.mSequenceNumber /\ beacon'.privacy = beacon.privacy
  BY <1>1, <1>2 DEF BeaconOK, BeaconFields
<1>4. BeaconOK(beacon') /\ beacon.mSequenceNumber <= beacon'.mSequenceNumber
  BY <1>1, <1>3 DEF BeaconOK
<1>5. wasOff' \in BOOLEAN /\ (~wasOff' => ~wasOff /\ isDataCapturingEnabled(beacon'))
  BY <1>2
<1>6. (Telling' => Telling) /\ CaptureFits'
  BY <1>3, <1>5 DEF Telling, CaptureFits
<1>7. /\ SameObjects /\ \A o \in Objects : obj'[o].end = obj[o].end
  BY <1>2, UnchangedObjects
<1>8. NumbersFit'
  BY <1>2, <1>4, NumbersKept DEF BeaconOK
<1>9. \A o \in Objects : Ends(o)' = Ends(o)
  BY <1>3, SameEnds
<1> QED BY <1>2, <1>4, <1>5, <1>6, <1>7, <1>8, <1>9, QuietKeeps

(* What a report is built of: at most a number is taken, and no end told. *)
Builds(built) ==
    /\ \/ built.beacon = beacon
       \/ built.beacon = [beacon EXCEPT !.mSequenceNumber = createSequenceNumber(beacon)]
    /\ \/ built.record = NoRecord
       \/ built.record = <<built.record[1]>> /\ built.record[1].type \notin EndTypes

(* Every event that takes a number is built so. *)
LEMMA EventBuilds ==
    ASSUME NEW allowed, NEW type, type \notin EndTypes, NEW who, NEW parent
    PROVE  Builds(buildEvent(beacon, allowed, type, who, parent))
BY DEF Builds, buildEvent, Built, Record

(* So are the events whose attributes the application gives. *)
LEMMA PayloadBuilds ==
    ASSUME NEW s, NEW attributes, NEW tooLong
    PROVE  Builds(sendEventPayload(beacon, s, attributes, tooLong)) /\ Builds(Built(beacon, NoRecord))
BY DEF Builds, sendEventPayload, Built, Record, EndTypes

(* The values an application reports of an action or of the session. *)
LEMMA ReportKeeps ==
    ASSUME LeavingInv, NEW t \in Threads, NEW o \in Objects, NEW built, Builds(built),
           Report(t, o, built)
    PROVE  LeavingInv'
<1>1. BeaconOK(beacon)
  BY DEF LeavingInv, ActionsTypeOK
<1>2. Idle(t) /\ beacon' = built.beacon /\ obj' = obj /\ wasOff' = wasOff
  BY DEF Report
<1>3. \/ beacon' = beacon
      \/ beacon' = [beacon EXCEPT !.mSequenceNumber = createSequenceNumber(beacon)]
  BY <1>2 DEF Builds
<1>4. /\ DOMAIN beacon' = BeaconFields /\ beacon'.records = beacon.records /\ SameSettings
      /\ beacon'.mSequenceNumber \in {beacon.mSequenceNumber, beacon.mSequenceNumber + 1}
  BY <1>1, <1>2, <1>3 DEF BeaconOK, BeaconFields, SameSettings, createSequenceNumber
<1>5. /\ BeaconOK(beacon') /\ SameObjects /\ NumbersFit'
      /\ \A x \in Objects : obj'[x].end = obj[x].end /\ Ends(x)' = Ends(x)
      /\ wasOff' \in BOOLEAN /\ (Telling' => Telling) /\ CaptureFits'
  BY <1>2, <1>4, BeaconOnly
<1>6. CASE built.record = NoRecord
  <2>1. stack' = stack
    BY <1>6 DEF Report
  <2> QED BY <1>5, <2>1, QuietKeeps
<1>7. CASE built.record # NoRecord
  <2> DEFINE f == [Frame("addReport", o) EXCEPT !.holds = TRUE, !.record = built.record]
  <2>1. stack' = [stack EXCEPT ![t] = <<f>>]
    BY <1>7 DEF Report
  <2>2. f.pc = "addReport" /\ f.o = o /\ f.record = built.record
    BY DEF Frame
  <2>3. FrameOK(f)
    BY DEF FrameOK, Frame, FrameFields
  <2>4. f.record = <<f.record[1]>> /\ f.record[1].type \notin EndTypes
    BY <1>7, <2>2 DEF Builds
  <2> HIDE DEF f
  <2>5. Pushed(t, f)
    BY <2>1, PushedFacts DEF LeavingInv
  <2> QED BY <1>2, <1>5, <2>2, <2>3, <2>4, <2>5, ReportBegins DEF Leaves, ReportFits
<1> QED BY <1>6, <1>7

(* The reports of an action. *)
LEMMA ActionReportKeeps ==
    ASSUME LeavingInv, NEW t \in Threads, NEW a \in Actions, ActionReport(t, a)
    PROVE  LeavingInv'
<1> DEFINE id == obj[a].id
<1>1. a \in Objects
  BY DEF Objects
<1>2. \A built : Builds(built) /\ Report(t, a, built) => LeavingInv'
  BY <1>1, ReportKeeps
<1>3. /\ Builds(reportEvent(beacon, a, id)) /\ Builds(reportIntValue(beacon, a, id))
      /\ Builds(reportDoubleValue(beacon, a, id)) /\ Builds(reportStringValue(beacon, a, id))
      /\ Builds(reportErrorCode(beacon, a, id)) /\ Builds(reportErrorCause(beacon, a, id))
  <2>1. \A allowed, type : type \notin EndTypes =>
            Builds(buildEvent(beacon, allowed, type, a, id))
    BY EventBuilds
  <2>2. /\ "NAMED_EVENT" \notin EndTypes /\ "VALUE_INT" \notin EndTypes
        /\ "VALUE_DOUBLE" \notin EndTypes /\ "VALUE_STRING" \notin EndTypes
        /\ "FAILURE_ERROR" \notin EndTypes /\ "FAILURE_EXCEPTION" \notin EndTypes
    BY DEF EndTypes
  <2> QED BY <2>1, <2>2, Zenon DEF reportEvent, reportIntValue, reportDoubleValue,
        reportStringValue, reportErrorCode, reportErrorCause
<1> HIDE DEF id
<1> QED BY <1>2, <1>3, Zenon DEF ActionReport, id

(* The reports of the session. *)
LEMMA SessionReportKeeps ==
    ASSUME LeavingInv, NEW t \in Threads, SessionReport(t)
    PROVE  LeavingInv'
<1>1. Session \in Objects
  BY DEF Objects
<1>2. \A built : Builds(built) /\ Report(t, Session, built) => LeavingInv'
  BY <1>1, ReportKeeps
<1>3. Builds(identifyUser(beacon, Session)) /\ Builds(reportCrash(beacon, Session))
  <2>1. "IDENTIFY_USER" \notin EndTypes /\ "FAILURE_CRASH" \notin EndTypes
    BY DEF EndTypes
  <2> QED BY <2>1, EventBuilds, Zenon DEF identifyUser, reportCrash
<1>4. ASSUME NEW attributes, NEW tooLong
      PROVE  /\ Builds(sendBizEvent(beacon, Session, attributes, tooLong))
             /\ Builds(sendEvent(beacon, Session, attributes, tooLong))
  <2>1. \A all : Builds(sendEventPayload(beacon, Session, all, tooLong))
    BY PayloadBuilds
  <2>2. Builds(Built(beacon, NoRecord))
    BY PayloadBuilds
  <2>3. Builds(sendBizEvent(beacon, Session, attributes, tooLong))
    BY <2>1, <2>2, Zenon DEF sendBizEvent
  <2>4. Builds(sendEvent(beacon, Session, attributes, tooLong))
    BY <2>1, <2>2, Zenon DEF sendEvent
  <2> QED BY <2>3, <2>4
<1> QED BY <1>2, <1>3, <1>4, Zenon DEF SessionReport

(* A record is put into the cache if data is captured. *)
LEMMA AddsRecord ==
    ASSUME LeavingInv, NEW r, beacon' = addEventData(beacon, <<r>>), obj' = obj, wasOff' = wasOff
    PROVE  /\ BeaconOK(beacon') /\ SameObjects /\ NumbersFit'
           /\ \A o \in Objects : obj'[o].end = obj[o].end
           /\ wasOff' \in BOOLEAN /\ (Telling' => Telling) /\ CaptureFits'
           /\ \A o \in Objects :
                \/ /\ Ends(o)' = Ends(o)
                   /\ ~(isDataCapturingEnabled(beacon) /\ r.who = o /\ r.type \in EndTypes)
                \/ /\ Ends(o)' = Ends(o) \cup {Len(beacon.records) + 1}
                   /\ r.who = o /\ r.type \in EndTypes
<1>1. BeaconOK(beacon)
  BY DEF LeavingInv, ActionsTypeOK
<1>2. \/ beacon' = beacon /\ ~isDataCapturingEnabled(beacon)
      \/ beacon' = [beacon EXCEPT !.records = beacon.records \o <<r>>]
  BY DEF addEventData
<1>3. /\ DOMAIN beacon' = BeaconFields /\ SameSettings
      /\ beacon'.mSequenceNumber = beacon.mSequenceNumber
      /\ \/ beacon'.records = beacon.records /\ ~isDataCapturingEnabled(beacon)
         \/ beacon'.records = beacon.records \o <<r>>
  BY <1>1, <1>2 DEF BeaconOK, BeaconFields, SameSettings
<1>4. CASE beacon'.records = beacon.records /\ ~isDataCapturingEnabled(beacon)
  <2>1. \A o \in Objects : Ends(o)' = Ends(o)
    BY <1>4, SameEnds
  <2> QED BY <1>3, <1>4, <2>1, BeaconOnly
<1>5. CASE beacon'.records = beacon.records \o <<r>>
  <2>1. IsSeq(beacon.records)
    BY <1>1 DEF BeaconOK
  <2>2. IsSeq(beacon'.records)
    <3>1. IsSeq(beacon.records \o <<r>>)
      BY <2>1, JoinFacts
    <3> QED BY <1>5, <3>1
  <2>3. BeaconOK(beacon') /\ beacon.mSequenceNumber <= beacon'.mSequenceNumber
    BY <1>1, <1>3, <2>2 DEF BeaconOK
  <2>4. SameObjects /\ \A o \in Objects : obj'[o].end = obj[o].end
    BY UnchangedObjects
  <2>5. NumbersFit'
    BY <2>3, NumbersKept DEF BeaconOK
  <2>6. wasOff' \in BOOLEAN /\ (Telling' => Telling) /\ CaptureFits'
    BY <1>3, SettingsKept
  <2>7. \A o \in Objects : Ends(o)' = IF r.who = o /\ r.type \in EndTypes
                                      THEN Ends(o) \cup {Len(beacon.records) + 1} ELSE Ends(o)
    BY <1>5, <2>1, EndsGrow
  <2> QED BY <2>3, <2>4, <2>5, <2>6, <2>7
<1> QED BY <1>3, <1>4, <1>5

(* The second step of a report. *)
LEMMA AddReportKeeps ==
    ASSUME LeavingInv, NEW t \in Threads, addReport(t)
    PROVE  LeavingInv'
<1> DEFINE n == Len(stack[t])
           r == Top(t).record[1]
<1>1. ~Idle(t) /\ Top(t).pc = "addReport" /\ obj' = obj /\ wasOff' = wasOff
  BY DEF addReport, At
<1>2. Busy(t) /\ ~Leaves(Top(t))
  BY <1>1, BusyFacts DEF LeavingInv, Leaves
<1>3. n \in 1..Len(stack[t]) /\ Top(t) = stack[t][n]
  BY <1>2 DEF Busy
<1>4. n = 1 /\ Len(stack[t]) = 1 /\ Top(t).record = <<r>> /\ r.type \notin EndTypes
  BY <1>1, <1>3, FrameFacts DEF Leaves, ReportFits
<1>5. beacon' = addEventData(beacon, <<r>>)
  BY <1>4 DEF addReport
<1>6. stack' = [stack EXCEPT ![t] = <<>>] /\ DOMAIN stack = Threads
  BY DEF addReport, LeavingInv, ActionsTypeOK
<1> HIDE DEF r, n
<1>7. Popped(t)
  <2>1. DOMAIN stack' = Threads /\ stack'[t] = <<>> /\ Others(t)
    BY <1>6 DEF Others
  <2>2. IsSeq(<<>>) /\ Len(<<>>) = 0
    BY ShortSeqs
  <2> QED BY <1>4, <2>1, <2>2 DEF Popped, Below
<1>8. /\ BeaconOK(beacon') /\ SameObjects /\ NumbersFit'
      /\ \A o \in Objects : obj'[o].end = obj[o].end /\ Ends(o)' = Ends(o)
      /\ wasOff' \in BOOLEAN /\ (Telling' => Telling) /\ CaptureFits'
  BY <1>1, <1>4, <1>5, AddsRecord
<1> QED BY <1>2, <1>7, <1>8, ReportEnds

(* Actions and tracers are told apart by their numbers. *)
LEMMA Kinds ==
    /\ MaxActions \in Nat /\ MaxTracers \in Nat
    /\ Actions \cap Tracers = {}
    /\ \A b \in Bounds : b.actions \in 0..MaxActions /\ b.tracers \in 0..MaxTracers
BY ActionsAssumption DEF Actions, Tracers

(* The first number that is free is one of an action or of a tracer. *)
LEMMA Unused ==
    ASSUME bound \in Bounds
    PROVE  /\ UnusedActions # {} =>
                Min(UnusedActions) \in Actions /\ obj[Min(UnusedActions)].state = "none"
           /\ UnusedTracers # {} =>
                Min(UnusedTracers) \in Tracers /\ obj[Min(UnusedTracers)].state = "none"
<1>1. /\ MaxActions \in Nat /\ MaxTracers \in Nat
      /\ bound.actions \in 0..MaxActions /\ bound.tracers \in 0..MaxTracers
  BY Kinds
<1>2. ASSUME UnusedActions # {}
      PROVE  Min(UnusedActions) \in Actions /\ obj[Min(UnusedActions)].state = "none"
  <2>1. UnusedActions \in SUBSET (1..MaxActions)
    BY <1>1 DEF UnusedActions
  <2>2. Min(UnusedActions) \in UnusedActions
    BY <1>1, <1>2, <2>1, MinIn
  <2> QED BY <1>1, <2>2 DEF UnusedActions, Actions
<1>3. ASSUME UnusedTracers # {}
      PROVE  Min(UnusedTracers) \in Tracers /\ obj[Min(UnusedTracers)].state = "none"
  <2> DEFINE m == MaxActions + MaxTracers
  <2>1. m \in Nat /\ UnusedTracers \in SUBSET (1..m)
    BY <1>1 DEF UnusedTracers
  <2> HIDE DEF m
  <2>2. Min(UnusedTracers) \in UnusedTracers
    BY <1>3, <2>1, MinIn
  <2> QED BY <1>1, <2>2 DEF UnusedTracers, Tracers
<1> QED BY <1>2, <1>3

(* The number of a new child is above all others, its parent has no end. *)
LEMMA NewNumbers ==
    ASSUME LeavingInv, NEW p \in Parents, Open(p), NEW c \in Children, obj[c].state = "none",
           NEW new, new.state = "open", new.parent = p, new.end = 0,
           new.start = beacon.mSequenceNumber + 1,
           beacon'.mSequenceNumber = beacon.mSequenceNumber + 1,
           obj' = [obj EXCEPT ![c] = new, ![p].mChildren = Append(@, c)]
    PROVE  NumbersFit'
<1>1. /\ DOMAIN obj = Objects /\ \A o \in Objects : ObjectOK(obj[o])
      /\ beacon.mSequenceNumber \in Nat
  BY DEF LeavingInv, ActionsTypeOK, BeaconOK
<1>2. p \in Objects /\ c \in Objects /\ p # c /\ c # Session
  BY NotSession DEF Open, Parents, Objects, Children
<1>3. obj'[c] = new /\ DOMAIN obj' = Objects
  BY <1>1, <1>2
<1>4. \A o \in Objects : o # c /\ o # p => obj'[o] = obj[o]
  BY <1>1, <1>2
<1>5. obj'[p] = [obj[p] EXCEPT !.mChildren = Append(obj[p].mChildren, c)]
  BY <1>1, <1>2
<1>6. /\ obj'[p].state = obj[p].state /\ obj'[p].parent = obj[p].parent
      /\ obj'[p].start = obj[p].start /\ obj'[p].end = obj[p].end
  <2>1. DOMAIN obj[p] = ObjectFields
    BY <1>1, <1>2 DEF ObjectOK
  <2> QED BY <1>5, <2>1 DEF ObjectFields
<1>7. \A o \in Objects : o # c =>
        /\ obj'[o].state = obj[o].state /\ obj'[o].parent = obj[o].parent
        /\ obj'[o].start = obj[o].start /\ obj'[o].end = obj[o].end
  BY <1>4, <1>6
<1>8. \A o \in Objects : /\ obj[o].start \in Nat /\ obj[o].end \in Nat
                         /\ obj[o].parent \in Objects
                         /\ obj[o].start <= beacon.mSequenceNumber
                         /\ obj[o].end <= beacon.mSequenceNumber
  BY <1>1 DEF LeavingInv, NumbersFit, ObjectOK, Parents, Objects
<1>9. \A o \in Objects : /\ obj'[o].start <= beacon'.mSequenceNumber
                         /\ obj'[o].end <= beacon'.mSequenceNumber
  BY <1>1, <1>3, <1>7, <1>8
<1>10. ASSUME NEW w \in Tracers PROVE WebRequestFits(w)'
  <2>1. w \in Objects /\ w \in Children /\ WebRequestFits(w) /\ ChildFits(w)
    BY DEF LeavingInv, NumbersFit, ObjectsFit, Objects, Children
  <2>2. CASE w = c
    <3>1. obj[p].end = 0 /\ obj[p].start < new.start
      BY <1>1, <1>2, <1>8 DEF LeavingInv, ObjectsFit, ObjectFits, Open
    <3> QED BY <1>2, <1>3, <1>7, <2>2, <3>1 DEF WebRequestFits
  <2>3. CASE w # c /\ obj[w].state = "none"
    BY <1>7, <2>1, <2>3 DEF WebRequestFits
  <2>4. CASE w # c /\ obj[w].state # "none"
    <3>1. obj[w].parent # c /\ obj[w].parent \in Objects
      BY <1>8, <2>1, <2>4 DEF ChildFits
    <3> QED BY <1>7, <2>1, <2>4, <3>1 DEF WebRequestFits
  <2> QED BY <2>2, <2>3, <2>4
<1> QED BY <1>9, <1>10 DEF NumbersFit

(* Entering an action. *)
LEMMA EnterActionKeeps ==
    ASSUME LeavingInv, bound \in Bounds, NEW t \in Threads, NEW p \in Parents, enterAction(t, p)
    PROVE  LeavingInv'
<1> DEFINE c == Min(UnusedActions)
           new == ActionCommonImpl(p)
<1>1. /\ obj[p].parent = Session /\ UnusedActions # {} /\ NewChild(t, p, c, new)
      /\ beacon' = [beacon EXCEPT !.mSequenceNumber = createSequenceNumber(beacon),
                                  !.mID = createID(beacon)]
  BY DEF enterAction
<1>2. BeaconOK(beacon)
  BY DEF LeavingInv, ActionsTypeOK
<1>3. c \in Children /\ obj[c].state = "none"
  BY <1>1, Unused DEF Children
<1>4. /\ ObjectOK(new) /\ new.state = "open" /\ new.parent = p /\ new.mChildren = <<>>
      /\ ~new.cancelled /\ new.end = 0 /\ new.start = beacon.mSequenceNumber + 1
  BY <1>2 DEF ActionCommonImpl, NoObject, ObjectOK, ObjectFields, BeaconOK, createSequenceNumber
<1> HIDE DEF c, new
<1>5. /\ Open(p) /\ obj' = [obj EXCEPT ![c] = new, ![p].mChildren = Append(@, c)]
      /\ stack' = stack /\ wasOff' = wasOff
  BY <1>1 DEF NewChild
<1>6. /\ DOMAIN beacon' = BeaconFields /\ beacon'.records = beacon.records /\ SameSettings
      /\ beacon'.mSequenceNumber = beacon.mSequenceNumber + 1
  BY <1>1, <1>2, <1>5 DEF BeaconOK, BeaconFields, SameSettings, createSequenceNumber
<1>7. BeaconOK(beacon')
  BY <1>2, <1>6 DEF BeaconOK
<1>8. NumbersFit'
  BY <1>3, <1>4, <1>5, <1>6, NewNumbers
<1> QED BY <1>1, <1>3, <1>4, <1>5, <1>6, <1>7, <1>8, SettingsKept, NewChildKeeps

(* Tracing a web request. *)
LEMMA TraceWebRequestKeeps ==
    ASSUME LeavingInv, bound \in Bounds, NEW t \in Threads, NEW p \in Parents,
           traceWebRequest(t, p)
    PROVE  LeavingInv'
<1> DEFINE c == Min(UnusedTracers)
           new == WebRequestTracer(p)
<1>1. /\ UnusedTracers # {} /\ NewChild(t, p, c, new)
      /\ beacon' = [beacon EXCEPT !.mSequenceNumber = createSequenceNumber(beacon)]
  BY DEF traceWebRequest
<1>2. BeaconOK(beacon)
  BY DEF LeavingInv, ActionsTypeOK
<1>3. c \in Children /\ obj[c].state = "none" /\ c \notin Actions
  BY <1>1, Unused, Kinds DEF Children
<1>4. /\ ObjectOK(new) /\ new.state = "open" /\ new.parent = p /\ new.mChildren = <<>>
      /\ ~new.cancelled /\ new.end = 0 /\ new.start = beacon.mSequenceNumber + 1
  BY <1>2 DEF WebRequestTracer, NoObject, ObjectOK, ObjectFields, BeaconOK, createSequenceNumber
<1> HIDE DEF c, new
<1>5. /\ Open(p) /\ obj' = [obj EXCEPT ![c] = new, ![p].mChildren = Append(@, c)]
      /\ stack' = stack /\ wasOff' = wasOff
  BY <1>1 DEF NewChild
<1>6. /\ DOMAIN beacon' = BeaconFields /\ beacon'.records = beacon.records /\ SameSettings
      /\ beacon'.mSequenceNumber = beacon.mSequenceNumber + 1
  BY <1>1, <1>2, <1>5 DEF BeaconOK, BeaconFields, SameSettings, createSequenceNumber
<1>7. BeaconOK(beacon')
  BY <1>2, <1>6 DEF BeaconOK
<1>8. NumbersFit'
  BY <1>3, <1>4, <1>5, <1>6, NewNumbers
<1> QED BY <1>3, <1>4, <1>5, <1>6, <1>7, <1>8, SettingsKept, NewChildKeeps

------------------------------------------------------------------------------
(* The first step of leaving an object. *)

(* A step that leaves the beacon alone. *)
LEMMA BeaconAlone ==
    ASSUME LeavingInv, beacon' = beacon, wasOff' = wasOff
    PROVE  /\ BeaconOK(beacon') /\ wasOff' \in BOOLEAN /\ (Telling' => Telling) /\ CaptureFits'
           /\ \A o \in Objects : Ends(o)' = Ends(o)
           /\ beacon'.mSequenceNumber \in Nat
           /\ beacon.mSequenceNumber <= beacon'.mSequenceNumber
<1>1. BeaconOK(beacon)
  BY DEF LeavingInv, ActionsTypeOK
<1>2. SameSettings
  BY DEF SameSettings
<1>3. \A o \in Objects : Ends(o)' = Ends(o)
  BY SameEnds
<1> QED BY <1>1, <1>2, <1>3, SettingsKept DEF BeaconOK

(* The mark of an action. *)
LEMMA ActionMarked ==
    ASSUME LeavingInv, NEW a \in Actions, NEW discard \in BOOLEAN,
           obj' = [obj EXCEPT ![a].state = "left", ![a].cancelled = discard]
    PROVE  Marks(a) /\ obj'[a].cancelled = discard /\ obj'[a].end = obj[a].end
<1>1. /\ DOMAIN obj = Objects /\ a \in Objects /\ ObjectOK(obj[a]) /\ a # Session
  BY NotSession DEF LeavingInv, ActionsTypeOK, Objects, Children
<1>2. DOMAIN obj' = Objects /\ \A o \in Objects \ {a} : obj'[o] = obj[o]
  BY <1>1
<1>3. obj'[a] = [obj[a] EXCEPT !.state = "left", !.cancelled = discard]
  BY <1>1
<1> QED BY <1>1, <1>2, <1>3 DEF Marks, ObjectOK, ObjectFields

(* The mark of the session. *)
LEMMA SessionMarked ==
    ASSUME LeavingInv, obj' = [obj EXCEPT ![Session].state = "left"]
    PROVE  Marks(Session) /\ ~obj'[Session].cancelled /\ obj'[Session].end = obj[Session].end
<1>1. /\ DOMAIN obj = Objects /\ Session \in Objects /\ ObjectOK(obj[Session])
      /\ ~obj[Session].cancelled
  BY DEF LeavingInv, ActionsTypeOK, ObjectsFit, Objects
<1>2. DOMAIN obj' = Objects /\ \A o \in Objects \ {Session} : obj'[o] = obj[o]
  BY <1>1
<1>3. obj'[Session] = [obj[Session] EXCEPT !.state = "left"]
  BY <1>1
<1> QED BY <1>1, <1>2, <1>3 DEF Marks, ObjectOK, ObjectFields

(* The mark of a tracer, which comes with its end number. *)
LEMMA TracerMarked ==
    ASSUME LeavingInv, NEW w \in Tracers, NEW discard \in BOOLEAN, NEW code,
           obj' = [obj EXCEPT ![w].state = "left", ![w].cancelled = discard,
                              ![w].responseCode = code, ![w].end = createSequenceNumber(beacon)]
    PROVE  /\ Marks(w) /\ obj'[w].cancelled = discard
           /\ obj'[w].end = beacon.mSequenceNumber + 1
<1>1. /\ DOMAIN obj = Objects /\ w \in Objects /\ ObjectOK(obj[w]) /\ w # Session
      /\ beacon.mSequenceNumber \in Nat
  BY NotSession DEF LeavingInv, ActionsTypeOK, BeaconOK, Objects, Children
<1>2. DOMAIN obj' = Objects /\ \A o \in Objects \ {w} : obj'[o] = obj[o]
  BY <1>1
<1>3. obj'[w] = [obj[w] EXCEPT !.state = "left", !.cancelled = discard, !.responseCode = code,
                               !.end = createSequenceNumber(beacon)]
  BY <1>1
<1>4. createSequenceNumber(beacon) = beacon.mSequenceNumber + 1
  BY DEF createSequenceNumber
<1>5. obj'[w].cancelled = discard /\ obj'[w].end = beacon.mSequenceNumber + 1
  BY <1>1, <1>3, <1>4 DEF ObjectOK, ObjectFields
<1>6. ObjectOK(obj'[w])
  BY <1>1, <1>3, <1>4 DEF ObjectOK, ObjectFields
<1>7. /\ obj'[w].state = "left" /\ obj'[w].parent = obj[w].parent
      /\ obj'[w].mChildren = obj[w].mChildren /\ obj'[w].start = obj[w].start
  BY <1>1, <1>3 DEF ObjectOK, ObjectFields
<1> QED BY <1>1, <1>2, <1>5, <1>6, <1>7 DEF Marks

(* What holds for the call that has set the mark. *)
LEMMA MarkFits ==
    ASSUME LeavingInv, NEW c \in Objects, Open(c), Marks(c),
           \A o \in Objects : Ends(o)' = Ends(o),
           NEW f, f.o = c, f.discard = obj'[c].cancelled,
           \/ f.pc = "copy" /\ c \notin Tracers /\ obj'[c].end = obj[c].end
           \/ f.pc = "record" /\ c \in Tracers
    PROVE  Leaves(f) /\ LeaveFits(f)'
<1>1. Ends(c)' = {} /\ obj[c].end = 0
  BY DEF LeavingInv, ObjectsFit, ObjectFits, Open
<1>2. obj'[c].state = "left"
  BY DEF Marks
<1>0. c \in Tracers => c # Session
  BY NotSession DEF Children
<1>3. c \in Tracers => \A b \in Children : ~OpenChild(b, c)'
  <2> SUFFICES ASSUME c \in Tracers, NEW b \in Children PROVE obj'[b].parent # c
    BY DEF OpenChild
  <2>1. c \notin Parents
    BY <1>0, Kinds DEF Parents
  <2>2. b \in Objects /\ obj[b].parent \in Parents
    BY NotSession DEF LeavingInv, ActionsTypeOK, ObjectOK
  <2>3. obj'[b].parent = obj[b].parent
    BY <2>2 DEF Marks
  <2> QED BY <2>1, <2>2, <2>3
<1>4. AtMostOne({})
  BY DEF AtMostOne
<1>5. CASE f.pc = "copy" /\ c \notin Tracers /\ obj'[c].end = obj[c].end
  <2>1. obj'[c].end = 0
    BY <1>1, <1>5
  <2>2. AtMostOne(Ends(c))'
    BY <1>1 DEF AtMostOne
  <2> QED BY <1>1, <1>2, <1>5, <2>1, <2>2 DEF Leaves, LeaveFits
<1>6. CASE f.pc = "record" /\ c \in Tracers
  <2>1. AtMostOne(Ends(c))'
    BY <1>1 DEF AtMostOne
  <2> QED BY <1>0, <1>1, <1>2, <1>3, <1>6, <2>1 DEF Leaves, LeaveFits
<1> QED BY <1>5, <1>6

(* A mark without a number, and one with it. *)
LEMMA MarkNumbers ==
    ASSUME LeavingInv, NEW c \in Objects, Open(c), Marks(c),
           \/ /\ c \notin Tracers /\ obj'[c].end = obj[c].end
              /\ beacon'.mSequenceNumber = beacon.mSequenceNumber
           \/ /\ c \in Tracers /\ obj'[c].end = beacon.mSequenceNumber + 1
              /\ beacon'.mSequenceNumber = beacon.mSequenceNumber + 1
    PROVE  NumbersFit'
<1>1. /\ \A o \in Objects : ObjectOK(obj[o])
      /\ beacon.mSequenceNumber \in Nat
  BY DEF LeavingInv, ActionsTypeOK, BeaconOK
<1>2. \A w \in Tracers : w \in Objects
  BY DEF Objects
<1>3. \A o \in Objects : obj'[o].parent = obj[o].parent /\ obj'[o].start = obj[o].start
  BY DEF Marks
<1>4. CASE c \notin Tracers
  <2>1. \A o \in Objects : obj'[o].end = obj[o].end
    BY <1>4 DEF Marks
  <2>2. \A w \in Tracers : obj'[w].state = obj[w].state
    BY <1>2, <1>4 DEF Marks
  <2> QED BY <1>1, <1>3, <1>4, <2>1, <2>2, NumbersKept
<1>5. CASE c \in Tracers
  <2>1. \A o \in Objects : /\ obj[o].start \in Nat /\ obj[o].end \in Nat
                           /\ obj[o].parent \in Parents /\ obj[o].parent \in Objects
                           /\ obj[o].start <= beacon.mSequenceNumber
                           /\ obj[o].end <= beacon.mSequenceNumber
    BY <1>1 DEF LeavingInv, NumbersFit, ObjectOK, Parents, Objects
  <2>2. c \notin Parents
    BY <1>5, NotSession, Kinds DEF Children, Parents
  <2>3. \A o \in Objects : o # c => obj'[o] = obj[o]
    BY DEF Marks
  <2>4. \A o \in Objects : /\ obj'[o].start <= beacon'.mSequenceNumber
                           /\ obj'[o].end <= beacon'.mSequenceNumber
    BY <1>1, <1>3, <1>5, <2>1, <2>3
  <2>5. ASSUME NEW w \in Tracers PROVE WebRequestFits(w)'
    <3>1. w \in Objects /\ WebRequestFits(w) /\ obj[w].parent # c
      BY <1>2, <2>1, <2>2 DEF LeavingInv, NumbersFit
    <3>2. obj'[obj[w].parent] = obj[obj[w].parent]
      BY <2>1, <2>3, <3>1
    <3>3. CASE w # c
      BY <2>3, <3>1, <3>2, <3>3 DEF WebRequestFits
    <3>4. CASE w = c
      <4>1. obj'[w].state = "left" /\ obj[w].state = "open"
        BY <3>4 DEF Marks, Open
      <4>2. obj'[w].start < obj'[w].end
        BY <1>1, <1>3, <1>5, <2>1, <3>4
      <4> QED BY <1>3, <3>1, <3>2, <4>1, <4>2 DEF WebRequestFits
    <3> QED BY <3>3, <3>4
  <2> QED BY <2>4, <2>5 DEF NumbersFit
<1> QED BY <1>4, <1>5

(* leaveAction and cancelAction. *)
LEMMA LeaveActionKeeps ==
    ASSUME LeavingInv, NEW t \in Threads, Idle(t), NEW a \in Actions, Open(a),
           NEW discard \in BOOLEAN, doLeaveAction(t, a, discard, <<>>)
    PROVE  LeavingInv'
<1>1. PICK f : f = [Frame("copy", a) EXCEPT !.discard = discard]
  OBVIOUS
<1>2. /\ obj' = [obj EXCEPT ![a].state = "left", ![a].cancelled = discard]
      /\ stack' = [stack EXCEPT ![t] = Append(<<>>, f)]
      /\ beacon' = beacon /\ wasOff' = wasOff
  BY <1>1 DEF doLeaveAction
<1>3. a \in Objects /\ a \notin Tracers
  BY Kinds DEF Objects
<1>4. FrameOK(f) /\ f.o = a /\ f.pc = "copy" /\ f.discard = discard
  BY <1>1, <1>3 DEF FrameOK, Frame, FrameFields, LeavingPcs
<1>5. Marks(a) /\ obj'[a].cancelled = discard /\ obj'[a].end = obj[a].end
  BY <1>2, ActionMarked
<1>6. /\ BeaconOK(beacon') /\ wasOff' \in BOOLEAN /\ (Telling' => Telling) /\ CaptureFits'
      /\ \A o \in Objects : Ends(o)' = Ends(o)
  BY <1>2, BeaconAlone
<1>7. Leaves(f) /\ LeaveFits(f)'
  BY <1>3, <1>4, <1>5, <1>6, MarkFits
<1>8. NumbersFit'
  BY <1>2, <1>3, <1>5, MarkNumbers
<1>9. Pushed(t, f)
  BY <1>2, PushedFacts DEF LeavingInv
<1> QED BY <1>3, <1>4, <1>5, <1>6, <1>7, <1>8, <1>9, LeaveBegins

(* A beacon that takes a number. *)
LEMMA NumberTaken ==
    ASSUME LeavingInv, wasOff' = wasOff,
           beacon' = [beacon EXCEPT !.mSequenceNumber = createSequenceNumber(beacon)]
    PROVE  /\ BeaconOK(beacon') /\ wasOff' \in BOOLEAN /\ (Telling' => Telling) /\ CaptureFits'
           /\ \A o \in Objects : Ends(o)' = Ends(o)
           /\ beacon.mSequenceNumber \in Nat
           /\ beacon'.mSequenceNumber = beacon.mSequenceNumber + 1
<1>1. BeaconOK(beacon)
  BY DEF LeavingInv, ActionsTypeOK
<1>2. /\ DOMAIN beacon' = BeaconFields /\ beacon'.records = beacon.records /\ SameSettings
      /\ beacon'.mSequenceNumber = beacon.mSequenceNumber + 1
  BY <1>1 DEF BeaconOK, BeaconFields, SameSettings, createSequenceNumber
<1>3. BeaconOK(beacon') /\ beacon.mSequenceNumber \in Nat
  BY <1>1, <1>2 DEF BeaconOK
<1>4. \A o \in Objects : Ends(o)' = Ends(o)
  BY <1>2, SameEnds
<1> QED BY <1>2, <1>3, <1>4, SettingsKept

(* stop of a tracer. *)
LEMMA StopKeeps ==
    ASSUME LeavingInv, NEW t \in Threads, NEW w \in Tracers, stop(t, w)
    PROVE  LeavingInv'
<1>1. PICK f : f = [Frame("record", w) EXCEPT !.discard = FALSE]
  OBVIOUS
<1>2. Idle(t) /\ Open(w) /\ doStop(t, w, 200, FALSE, <<>>)
  BY DEF stop
<1>3. /\ obj' = [obj EXCEPT ![w].state = "left", ![w].cancelled = FALSE,
                            ![w].responseCode = 200, ![w].end = createSequenceNumber(beacon)]
      /\ beacon' = [beacon EXCEPT !.mSequenceNumber = createSequenceNumber(beacon)]
      /\ stack' = [stack EXCEPT ![t] = Append(<<>>, f)] /\ wasOff' = wasOff
  BY <1>1, <1>2 DEF doStop
<1>4. w \in Objects
  BY DEF Objects
<1>5. FrameOK(f) /\ f.o = w /\ f.pc = "record" /\ f.discard = FALSE
  BY <1>1, <1>4 DEF FrameOK, Frame, FrameFields, LeavingPcs
<1>6. Marks(w) /\ obj'[w].cancelled = FALSE /\ obj'[w].end = beacon.mSequenceNumber + 1
  BY <1>3, TracerMarked
<1>7. /\ BeaconOK(beacon') /\ wasOff' \in BOOLEAN /\ (Telling' => Telling) /\ CaptureFits'
      /\ \A o \in Objects : Ends(o)' = Ends(o)
      /\ beacon'.mSequenceNumber = beacon.mSequenceNumber + 1
  BY <1>3, NumberTaken
<1>8. Leaves(f) /\ LeaveFits(f)'
  BY <1>2, <1>4, <1>5, <1>6, <1>7, MarkFits
<1>9. NumbersFit'
  BY <1>2, <1>4, <1>6, <1>7, MarkNumbers
<1>10. Pushed(t, f)
  BY <1>3, PushedFacts DEF LeavingInv
<1> QED BY <1>2, <1>4, <1>5, <1>6, <1>7, <1>8, <1>9, <1>10, LeaveBegins

(* The session begins to end: end, and tryEnd without children. *)
LEMMA SessionEndBegins ==
    ASSUME LeavingInv, NEW t \in Threads, Idle(t), Open(Session), beacon' = beacon,
           wasOff' = wasOff, obj' = [obj EXCEPT ![Session].state = "left"],
           NEW f, FrameOK(f), f.o = Session, f.pc = "copy", f.discard = FALSE,
           stack' = [stack EXCEPT ![t] = <<f>>]
    PROVE  LeavingInv'
<1>1. Session \in Objects /\ Session \notin Tracers
  BY NotSession DEF Objects, Children
<1>2. Marks(Session) /\ ~obj'[Session].cancelled /\ obj'[Session].end = obj[Session].end
  BY SessionMarked
<1>3. obj'[Session].cancelled = FALSE
  BY <1>1, <1>2 DEF Marks, ObjectOK
<1>4. /\ BeaconOK(beacon') /\ wasOff' \in BOOLEAN /\ (Telling' => Telling) /\ CaptureFits'
      /\ \A o \in Objects : Ends(o)' = Ends(o)
  BY BeaconAlone
<1>5. Leaves(f) /\ LeaveFits(f)'
  BY <1>1, <1>2, <1>3, <1>4, MarkFits
<1>6. NumbersFit'
  BY <1>1, <1>2, MarkNumbers
<1>7. Pushed(t, f)
  BY PushedFacts DEF LeavingInv
<1> QED BY <1>1, <1>2, <1>4, <1>5, <1>6, <1>7, LeaveBegins

(* end. *)
LEMMA EndKeeps ==
    ASSUME LeavingInv, NEW t \in Threads, NEW sendSessionEndEvent, end(t, sendSessionEndEvent)
    PROVE  LeavingInv'
<1>1. PICK f : f = [Frame("copy", Session) EXCEPT !.event = sendSessionEndEvent]
  OBVIOUS
<1>2. /\ Idle(t) /\ Open(Session) /\ beacon' = beacon /\ wasOff' = wasOff
      /\ obj' = [obj EXCEPT ![Session].state = "left"]
      /\ stack' = [stack EXCEPT ![t] = <<f>>]
  BY <1>1 DEF end
<1>3. FrameOK(f) /\ f.o = Session /\ f.pc = "copy" /\ f.discard = FALSE
  BY <1>1 DEF FrameOK, Frame, FrameFields, LeavingPcs, Objects
<1> QED BY <1>2, <1>3, SessionEndBegins

(* tryEnd. *)
LEMMA TryEndKeeps ==
    ASSUME LeavingInv, NEW t \in Threads, tryEnd(t)
    PROVE  LeavingInv'
<1>1. PICK f : f = [Frame("copy", Session) EXCEPT !.holds = TRUE]
  OBVIOUS
<1>2. Idle(t) /\ Open(Session) /\ beacon' = beacon /\ wasOff' = wasOff
  BY DEF tryEnd
<1>3. CASE obj[Session].mChildren = <<>>
  <2>1. /\ obj' = [obj EXCEPT ![Session].state = "left"]
        /\ stack' = [stack EXCEPT ![t] = <<f>>]
    BY <1>1, <1>3 DEF tryEnd
  <2>2. FrameOK(f) /\ f.o = Session /\ f.pc = "copy" /\ f.discard = FALSE
    BY <1>1 DEF FrameOK, Frame, FrameFields, LeavingPcs, Objects
  <2> QED BY <1>2, <2>1, <2>2, SessionEndBegins
<1>4. CASE obj[Session].mChildren # <<>>
  <2>1. obj' = obj /\ stack' = stack
    BY <1>4 DEF tryEnd
  <2> QED BY <1>2, <2>1, TryEndLater
<1> QED BY <1>3, <1>4

------------------------------------------------------------------------------
(* The steps of a call that leaves an object. *)

(* What is left of a list without its first element. *)
LEMMA TailFacts ==
    ASSUME NEW S, NEW s \in Seq(S), s # <<>>
    PROVE  /\ Head(s) \in S /\ Tail(s) \in Seq(S)
           /\ \A i \in 1..Len(s) : s[i] # Head(s) => \E j \in 1..Len(Tail(s)) : Tail(s)[j] = s[i]
<1>1. Head(s) \in S /\ Tail(s) \in Seq(S) /\ Len(s) \in Nat \ {0} /\ Head(s) = s[1]
  OBVIOUS
<1>2. Len(Tail(s)) = Len(s) - 1 /\ \A j \in 1..(Len(s) - 1) : Tail(s)[j] = s[j + 1]
  BY <1>1
<1>3. ASSUME NEW i \in 1..Len(s), s[i] # Head(s)
      PROVE  \E j \in 1..Len(Tail(s)) : Tail(s)[j] = s[i]
  <2>1. i # 1
    BY <1>1, <1>3
  <2>2. i - 1 \in 1..Len(Tail(s)) /\ (i - 1) + 1 = i
    BY <1>1, <1>2, <2>1
  <2>3. Tail(s)[i - 1] = s[i]
    BY <1>2, <2>2
  <2> QED BY <2>2, <2>3
<1> QED BY <1>1, <1>3

(* The call on top, which leaves an object. *)
LEMMA TopFacts ==
    ASSUME LeavingInv, NEW t \in Threads, ~Idle(t), Top(t).pc # "addReport"
    PROVE  /\ Busy(t) /\ Leaves(Top(t)) /\ FrameOK(Top(t)) /\ LeaveFits(Top(t))
           /\ Top(t).o \in Objects /\ obj[Top(t).o].state = "left"
<1>1. Busy(t) /\ FrameOK(Top(t)) /\ Leaves(Top(t))
  BY BusyFacts DEF LeavingInv, Leaves
<1>2. Len(stack[t]) \in 1..Len(stack[t]) /\ Top(t) = stack[t][Len(stack[t])]
  BY <1>1 DEF Busy
<1>3. LeaveFits(Top(t))
  BY <1>1, <1>2, FrameFacts
<1> QED BY <1>1, <1>3 DEF FrameOK, LeaveFits

(* The list of children is copied. *)
LEMMA CopyKeeps ==
    ASSUME LeavingInv, NEW t \in Threads, getCopyOfChildObjects(t)
    PROVE  LeavingInv'
<1>1. PICK f : f = Top(t)
  OBVIOUS
<1>2. PICK g : g = [f EXCEPT !.pc = "children", !.todo = obj[f.o].mChildren]
  OBVIOUS
<1>3. /\ ~Idle(t) /\ f.pc = "copy" /\ stack' = Replace(t, g)
      /\ beacon' = beacon /\ obj' = obj /\ wasOff' = wasOff
  BY <1>1, <1>2 DEF getCopyOfChildObjects, At
<1>4. /\ Busy(t) /\ Leaves(f) /\ FrameOK(f) /\ LeaveFits(f)
      /\ f.o \in Objects /\ obj[f.o].state = "left"
  BY <1>1, <1>3, TopFacts
<1>5. /\ obj[f.o].mChildren \in Seq(Children)
      /\ \A c \in Children : OpenChild(c, f.o) =>
           \E i \in 1..Len(obj[f.o].mChildren) : obj[f.o].mChildren[i] = c
  BY SMTT(60), <1>4 DEF LeavingInv, ActionsTypeOK, ObjectOK, ObjectsFit, ChildFits, OpenChild
<1>6. /\ g.pc = "children" /\ g.o = f.o /\ g.discard = f.discard
      /\ g.todo = obj[f.o].mChildren /\ DOMAIN g = FrameFields
  BY <1>2, <1>4 DEF FrameOK, FrameFields
<1>7. FrameOK(g) /\ Leaves(g)
  BY <1>4, <1>5, <1>6 DEF FrameOK, Leaves, LeavingPcs
<1>8. Replaced(t, g)
  BY <1>3, ReplacedFacts DEF LeavingInv
<1>9. /\ BeaconOK(beacon') /\ wasOff' \in BOOLEAN /\ (Telling' => Telling) /\ CaptureFits'
      /\ \A o \in Objects : Ends(o)' = Ends(o)
      /\ beacon'.mSequenceNumber \in Nat
      /\ beacon.mSequenceNumber <= beacon'.mSequenceNumber
  BY <1>3, BeaconAlone
<1>10. SameObjects /\ \A o \in Objects : obj'[o].end = obj[o].end
  BY <1>3, UnchangedObjects
<1>11. NumbersFit'
  BY <1>3, <1>9, NumbersKept
<1>12. LeaveFits(g)
  BY <1>3, <1>4, <1>5, <1>6 DEF LeaveFits
<1>13. LeaveFits(g)'
  <2>1. \A c \in Children : OpenChild(c, g.o)' => OpenChild(c, g.o)
    BY <1>3 DEF OpenChild
  <2>2. Ends(g.o)' = Ends(g.o)
    BY <1>4, <1>6, <1>9
  <2> QED BY <1>3, <1>9, <1>12, <2>1, <2>2, LeaveKept
<1> QED BY <1>1, <1>4, <1>6, <1>7, <1>8, <1>9, <1>10, <1>11, <1>13, AdvanceKeeps

(* The call goes on to the next child, the first one of the list is seen to. *)
LEMMA NextChild ==
    ASSUME LeavingInv, NEW f, FrameOK(f), LeaveFits(f), f.pc = "children", f.todo # <<>>,
           NEW g, g = [f EXCEPT !.todo = Tail(f.todo)],
           obj'[f.o] = obj[f.o], \A o \in Objects : Ends(o)' = Ends(o), Telling' => Telling,
           \A b \in Children : OpenChild(b, f.o)' => OpenChild(b, f.o) /\ b # Head(f.todo)
    PROVE  FrameOK(g) /\ Leaves(g) /\ g.o = f.o /\ LeaveFits(g)'
<1>1. /\ g.pc = "children" /\ g.o = f.o /\ g.discard = f.discard
      /\ g.todo = Tail(f.todo) /\ DOMAIN g = FrameFields
  BY DEF FrameOK, FrameFields
<1>2. /\ Head(f.todo) \in Children /\ Tail(f.todo) \in Seq(Children)
      /\ \A i \in 1..Len(f.todo) : f.todo[i] # Head(f.todo) =>
           \E j \in 1..Len(Tail(f.todo)) : Tail(f.todo)[j] = f.todo[i]
  BY TailFacts DEF FrameOK
<1>3. FrameOK(g) /\ Leaves(g) /\ f.o \in Objects
  BY <1>1, <1>2 DEF FrameOK, Leaves, LeavingPcs
<1>4. ASSUME NEW b \in Children, OpenChild(b, f.o)'
      PROVE  \E j \in 1..Len(g.todo) : g.todo[j] = b
  <2>1. PICK i \in 1..Len(f.todo) : f.todo[i] = b
    BY <1>4 DEF LeaveFits
  <2> QED BY <1>1, <1>2, <1>4, <2>1
<1>5. /\ obj'[f.o].state = "left" /\ f.discard = obj'[f.o].cancelled
      /\ obj'[f.o].end = 0 /\ f.o \notin Tracers /\ Ends(f.o)' = {}
  BY <1>3 DEF LeaveFits
<1>6. AtMostOne(Ends(f.o))'
  BY <1>5 DEF AtMostOne
<1>7. LeaveFits(g)'
  BY <1>1, <1>4, <1>5, <1>6 DEF LeaveFits
<1> QED BY <1>1, <1>3, <1>7

(* A child that has been left by another call is passed over. *)
LEMMA ChildPassed ==
    ASSUME LeavingInv, NEW t \in Threads, NEW f, f = Top(t), ~Idle(t), f.pc = "children",
           f.todo # <<>>, ~Open(Head(f.todo)), NEW g, g = [f EXCEPT !.todo = Tail(f.todo)],
           obj' = obj, beacon' = beacon, wasOff' = wasOff,
           stack' = [stack EXCEPT ![t] = Append(Front(stack[t]), g)]
    PROVE  LeavingInv'
<1>1. /\ Busy(t) /\ Leaves(f) /\ FrameOK(f) /\ LeaveFits(f)
  BY TopFacts
<1>2. /\ BeaconOK(beacon') /\ wasOff' \in BOOLEAN /\ (Telling' => Telling) /\ CaptureFits'
      /\ \A o \in Objects : Ends(o)' = Ends(o)
      /\ beacon'.mSequenceNumber \in Nat
      /\ beacon.mSequenceNumber <= beacon'.mSequenceNumber
  BY BeaconAlone
<1>3. SameObjects /\ \A o \in Objects : obj'[o].end = obj[o].end
  BY UnchangedObjects
<1>4. NumbersFit'
  BY <1>2, NumbersKept
<1>5. \A b \in Children : OpenChild(b, f.o)' => OpenChild(b, f.o) /\ b # Head(f.todo)
  BY DEF OpenChild, Open
<1>6. FrameOK(g) /\ Leaves(g) /\ g.o = f.o /\ LeaveFits(g)'
  BY <1>1, <1>2, <1>5, NextChild
<1>7. Replaced(t, g)
  <2>1. stack' = Replace(t, g)
    BY DEF Replace
  <2> QED BY <2>1, ReplacedFacts DEF LeavingInv
<1> QED BY <1>1, <1>2, <1>3, <1>4, <1>6, <1>7, AdvanceKeeps

(* An open child is marked, and the call goes into it. *)
LEMMA ChildEntered ==
    ASSUME LeavingInv, NEW t \in Threads, NEW f, f = Top(t), ~Idle(t), f.pc = "children",
           f.todo # <<>>, NEW c, c = Head(f.todo), Open(c), Marks(c),
           NEW g, g = [f EXCEPT !.todo = Tail(f.todo)],
           NEW h, FrameOK(h), h.o = c, h.discard = obj'[c].cancelled,
           \/ h.pc = "copy" /\ c \notin Tracers /\ obj'[c].end = obj[c].end
           \/ h.pc = "record" /\ c \in Tracers,
           stack' = [stack EXCEPT ![t] = Append(Append(Front(stack[t]), g), h)],
           \A o \in Objects : Ends(o)' = Ends(o), Telling' => Telling,
           BeaconOK(beacon'), wasOff' \in BOOLEAN, NumbersFit', CaptureFits'
    PROVE  LeavingInv'
<1>1. /\ Busy(t) /\ Leaves(f) /\ FrameOK(f) /\ LeaveFits(f)
      /\ f.o \in Objects /\ obj[f.o].state = "left"
  BY TopFacts
<1>2. c \in Children /\ c \in Objects /\ f.o # c
  BY <1>1, TailFacts, NotSession DEF FrameOK, Open
<1>3. Leaves(h) /\ LeaveFits(h)'
  BY <1>2, MarkFits
<1>4. obj'[f.o] = obj[f.o]
  BY <1>1, <1>2 DEF Marks
<1>5. \A b \in Children : OpenChild(b, f.o)' => OpenChild(b, f.o) /\ b # Head(f.todo)
  BY NotSession DEF OpenChild, Marks
<1>6. FrameOK(g) /\ Leaves(g) /\ g.o = f.o /\ LeaveFits(g)'
  BY <1>1, <1>4, <1>5, NextChild
<1>7. PushedOn(t, g, h)
  BY PushedOnFacts DEF LeavingInv
<1> QED BY <1>1, <1>2, <1>3, <1>6, <1>7, LeaveOn

(* close or cancel of the next child. *)
LEMMA CloseChildKeeps ==
    ASSUME LeavingInv, NEW t \in Threads, closeChild(t)
    PROVE  LeavingInv'
<1>1. PICK f : f = Top(t)
  OBVIOUS
<1>2. PICK c : c = Head(f.todo)
  OBVIOUS
<1>3. PICK g : g = [f EXCEPT !.todo = Tail(f.todo)]
  OBVIOUS
<1> DEFINE below == Append(Front(stack[t]), g)
<1>4. /\ ~Idle(t) /\ f.pc = "children" /\ f.todo # <<>>
      /\ IF c \in Tracers THEN doStop(t, c, obj[c].responseCode, f.discard, below)
         ELSE doLeaveAction(t, c, f.discard, below)
  BY <1>1, <1>2, <1>3 DEF closeChild, At
<1>5. /\ FrameOK(f) /\ f.discard \in BOOLEAN /\ c \in Children /\ c \in Objects
  <2>1. FrameOK(f)
    BY <1>1, <1>4, TopFacts
  <2> QED BY <1>2, <1>4, <2>1, TailFacts, NotSession DEF FrameOK
<1>6. CASE c \in Tracers /\ Open(c)
  <2>1. PICK h : h = [Frame("record", c) EXCEPT !.discard = f.discard]
    OBVIOUS
  <2>2. PICK code : code = obj[c].responseCode
    OBVIOUS
  <2>3. /\ obj' = [obj EXCEPT ![c].state = "left", ![c].cancelled = f.discard,
                              ![c].responseCode = code, ![c].end = createSequenceNumber(beacon)]
        /\ beacon' = [beacon EXCEPT !.mSequenceNumber = createSequenceNumber(beacon)]
        /\ stack' = [stack EXCEPT ![t] = Append(below, h)] /\ wasOff' = wasOff
    BY <1>4, <1>6, <2>1, <2>2 DEF doStop
  <2>4. FrameOK(h) /\ h.o = c /\ h.pc = "record" /\ h.discard = f.discard
    BY <1>5, <2>1 DEF FrameOK, Frame, FrameFields, LeavingPcs
  <2>5. Marks(c) /\ obj'[c].cancelled = f.discard /\ obj'[c].end = beacon.mSequenceNumber + 1
    BY <1>5, <1>6, <2>3, TracerMarked
  <2>6. /\ BeaconOK(beacon') /\ wasOff' \in BOOLEAN /\ (Telling' => Telling) /\ CaptureFits'
        /\ \A o \in Objects : Ends(o)' = Ends(o)
        /\ beacon'.mSequenceNumber = beacon.mSequenceNumber + 1
    BY <2>3, NumberTaken
  <2>7. NumbersFit'
    BY <1>5, <1>6, <2>5, <2>6, MarkNumbers
  <2> QED BY ZenonT(60), <1>1, <1>2, <1>3, <1>4, <1>6, <2>3, <2>4, <2>5, <2>6, <2>7, ChildEntered
<1>7. CASE c \notin Tracers /\ Open(c)
  <2>1. PICK h : h = [Frame("copy", c) EXCEPT !.discard = f.discard]
    OBVIOUS
  <2>2. /\ obj' = [obj EXCEPT ![c].state = "left", ![c].cancelled = f.discard]
        /\ stack' = [stack EXCEPT ![t] = Append(below, h)]
        /\ beacon' = beacon /\ wasOff' = wasOff
    BY <1>4, <1>7, <2>1 DEF doLeaveAction
  <2>3. FrameOK(h) /\ h.o = c /\ h.pc = "copy" /\ h.discard = f.discard
    BY <1>5, <2>1 DEF FrameOK, Frame, FrameFields, LeavingPcs
  <2>4. c \in Actions
    BY <1>5, <1>7 DEF Children
  <2>5. Marks(c) /\ obj'[c].cancelled = f.discard /\ obj'[c].end = obj[c].end
    BY <1>5, <2>2, <2>4, ActionMarked
  <2>6. /\ BeaconOK(beacon') /\ wasOff' \in BOOLEAN /\ (Telling' => Telling) /\ CaptureFits'
        /\ \A o \in Objects : Ends(o)' = Ends(o)
    BY <2>2, BeaconAlone
  <2>7. NumbersFit'
    BY <1>5, <1>7, <2>2, <2>5, MarkNumbers
  <2> QED BY <1>1, <1>2, <1>3, <1>4, <1>7, <2>2, <2>3, <2>5, <2>6, <2>7, ChildEntered
<1>8. CASE ~Open(c)
  <2>1. /\ obj' = obj /\ beacon' = beacon /\ wasOff' = wasOff
        /\ stack' = [stack EXCEPT ![t] = below]
    BY <1>4, <1>8 DEF doStop, doLeaveAction
  <2> QED BY <1>1, <1>2, <1>3, <1>4, <1>8, <2>1, ChildPassed
<1> QED BY <1>6, <1>7, <1>8

(* The end number of an action is above those of its web requests. *)
LEMMA FinishNumbers ==
    ASSUME LeavingInv, NEW x \in Objects, x \notin Tracers, obj[x].state = "left",
           \A c \in Children : ~OpenChild(c, x), SameObjects,
           \A o \in Objects \ {x} : obj'[o].end = obj[o].end,
           obj'[x].end = beacon.mSequenceNumber + 1,
           beacon'.mSequenceNumber = beacon.mSequenceNumber + 1
    PROVE  NumbersFit'
<1>1. beacon.mSequenceNumber \in Nat
  BY DEF LeavingInv, ActionsTypeOK, BeaconOK
<1>2. \A o \in Objects : /\ obj[o].start \in Nat /\ obj[o].end \in Nat
                         /\ obj[o].parent \in Objects
                         /\ obj[o].start <= beacon.mSequenceNumber
                         /\ obj[o].end <= beacon.mSequenceNumber
  BY DEF LeavingInv, ActionsTypeOK, NumbersFit, ObjectOK, Parents, Objects
<1>3. \A o \in Objects : /\ obj'[o].start = obj[o].start /\ obj'[o].state = obj[o].state
                         /\ obj'[o].parent = obj[o].parent
  BY DEF SameObjects
<1>4. \A o \in Objects : /\ obj'[o].start <= beacon'.mSequenceNumber
                         /\ obj'[o].end <= beacon'.mSequenceNumber
  BY <1>1, <1>2, <1>3
<1>5. ASSUME NEW w \in Tracers PROVE WebRequestFits(w)'
  <2>1. w \in Objects /\ w \in Children /\ WebRequestFits(w) /\ w # x
    BY DEF LeavingInv, NumbersFit, Objects, Children
  <2>2. CASE obj[w].parent # x
    BY <1>2, <1>3, <2>1, <2>2 DEF WebRequestFits
  <2>3. CASE obj[w].parent = x
    <3>1. obj[w].state # "open"
      BY <2>1, <2>3 DEF OpenChild
    <3>2. obj'[w].end < obj'[x].end
      BY <1>1, <1>2, <2>1
    <3> QED BY <1>3, <2>1, <2>3, <3>1, <3>2 DEF WebRequestFits
  <2> QED BY <2>2, <2>3
<1> QED BY <1>4, <1>5 DEF NumbersFit

(* All children are closed: the end number is taken. *)
LEMMA FinishKeeps ==
    ASSUME LeavingInv, NEW t \in Threads, finish(t)
    PROVE  LeavingInv'
<1>1. PICK f : f = Top(t)
  OBVIOUS
<1>2. PICK g : g = [f EXCEPT !.pc = "record"]
  OBVIOUS
<1>3. /\ ~Idle(t) /\ f.pc = "children" /\ f.todo = <<>> /\ f.o # Session
      /\ obj' = [obj EXCEPT ![f.o].end = createSequenceNumber(beacon)]
      /\ beacon' = [beacon EXCEPT !.mSequenceNumber = createSequenceNumber(beacon)]
      /\ stack' = Replace(t, g) /\ wasOff' = wasOff
  BY <1>1, <1>2 DEF finish, ChildrenClosed, At, Goto
<1>4. /\ Busy(t) /\ Leaves(f) /\ FrameOK(f) /\ LeaveFits(f)
      /\ f.o \in Objects /\ obj[f.o].state = "left"
  BY <1>1, <1>3, TopFacts
<1>5. f.o \notin Tracers /\ \A c \in Children : ~OpenChild(c, f.o)
  BY <1>3, <1>4 DEF LeaveFits
<1>6. /\ g.pc = "record" /\ g.o = f.o /\ g.discard = f.discard /\ g.todo = f.todo
      /\ DOMAIN g = FrameFields
  BY <1>2, <1>4 DEF FrameOK, FrameFields
<1>7. FrameOK(g) /\ Leaves(g)
  BY <1>4, <1>6 DEF FrameOK, Leaves, LeavingPcs
<1>8. Replaced(t, g)
  BY <1>3, ReplacedFacts DEF LeavingInv
<1>9. /\ BeaconOK(beacon') /\ wasOff' \in BOOLEAN /\ (Telling' => Telling) /\ CaptureFits'
      /\ \A o \in Objects : Ends(o)' = Ends(o)
      /\ beacon.mSequenceNumber \in Nat
      /\ beacon'.mSequenceNumber = beacon.mSequenceNumber + 1
  BY <1>3, NumberTaken
<1>10. DOMAIN obj = Objects /\ \A o \in Objects : ObjectOK(obj[o])
  BY DEF LeavingInv, ActionsTypeOK
<1>11. DOMAIN obj' = Objects /\ \A o \in Objects \ {f.o} : obj'[o] = obj[o]
  BY <1>3, <1>4, <1>10
<1>12. obj'[f.o] = [obj[f.o] EXCEPT !.end = beacon.mSequenceNumber + 1]
  BY <1>3, <1>4, <1>10 DEF createSequenceNumber
<1>13. /\ ObjectOK(obj'[f.o]) /\ obj'[f.o].end = beacon.mSequenceNumber + 1
       /\ obj'[f.o].state = obj[f.o].state /\ obj'[f.o].parent = obj[f.o].parent
       /\ obj'[f.o].mChildren = obj[f.o].mChildren /\ obj'[f.o].cancelled = obj[f.o].cancelled
       /\ obj'[f.o].start = obj[f.o].start
  <2>1. ObjectOK(obj[f.o])
    BY <1>4, <1>10
  <2> QED BY <1>9, <1>12, <2>1 DEF ObjectOK, ObjectFields
<1>14. SameObjects /\ \A o \in Objects \ {f.o} : obj'[o].end = obj[o].end
  BY <1>10, <1>11, <1>13 DEF SameObjects
<1>15. NumbersFit'
  BY <1>4, <1>5, <1>9, <1>13, <1>14, FinishNumbers
<1>16. LeaveFits(g)'
  <2>1. \A c \in Children : ~OpenChild(c, f.o)'
    BY <1>5, <1>14, NotSession DEF OpenChild, SameObjects
  <2>2. Ends(f.o)' = {}
    BY <1>3, <1>4, <1>9 DEF LeaveFits
  <2>3. AtMostOne(Ends(f.o))'
    BY <2>2 DEF AtMostOne
  <2>4. obj'[f.o].state = "left" /\ f.discard = obj'[f.o].cancelled
    BY <1>4, <1>13 DEF LeaveFits
  <2> QED BY <1>3, <1>6, <2>1, <2>2, <2>3, <2>4 DEF LeaveFits
<1> QED BY <1>1, <1>4, <1>6, <1>7, <1>8, <1>9, <1>14, <1>15, <1>16, AdvanceKeeps

(* What is built of an action or a tracer, and when nothing is. *)
LEMMA EndBuilt ==
    ASSUME LeavingInv, NEW o, NEW x, NEW built,
           built = addWebRequest(beacon, o, x) \/ built = addAction(beacon, o, x)
    PROVE  /\ built.record = NoRecord => ~Telling
           /\ built.record # NoRecord => Single(built.record, {o}, {"ACTION", "WEBREQUEST"})
<1>1. Telling => isDataCapturingEnabled(beacon) /\ beacon.privacy.level # "OFF"
  BY DEF LeavingInv, CaptureFits, Telling
<1>2. CASE built = addWebRequest(beacon, o, x)
  <2>1. PICK r : /\ r.who = o /\ r.type = "WEBREQUEST"
                 /\ built = IF isWebRequestTracingAllowed(beacon.privacy)
                               /\ isDataCapturingEnabled(beacon)
                            THEN Built(beacon, <<r>>) ELSE Built(beacon, NoRecord)
    <3> DEFINE told == [f \in {"bytesSent", "bytesReceived", "responseCode"} |-> ToInt32(x[f])]
               content == [f \in {h \in DOMAIN told : told[h] > -1} |-> told[f]]
               r == [type |-> "WEBREQUEST", who |-> o, parent |-> x.parentID,
                     start |-> x.start, end |-> x.end, content |-> content]
    <3>1. r.who = o /\ r.type = "WEBREQUEST"
      OBVIOUS
    <3>2. built = IF isWebRequestTracingAllowed(beacon.privacy)
                     /\ isDataCapturingEnabled(beacon)
                  THEN Built(beacon, <<r>>) ELSE Built(beacon, NoRecord)
      BY <1>2, Zenon DEF addWebRequest, Record
    <3> HIDE DEF r
    <3> QED BY <3>1, <3>2
  <2>2. CASE isWebRequestTracingAllowed(beacon.privacy) /\ isDataCapturingEnabled(beacon)
    <3>1. built.record = <<r>>
      BY <2>1, <2>2 DEF Built
    <3> QED BY SMTT(60), <2>1, <3>1 DEF Single, NoRecord
  <2>3. CASE ~(isWebRequestTracingAllowed(beacon.privacy) /\ isDataCapturingEnabled(beacon))
    <3>1. built.record = NoRecord
      BY <2>1, <2>3 DEF Built
    <3> QED BY <1>1, <2>3, <3>1 DEF isWebRequestTracingAllowed
  <2> QED BY <2>2, <2>3
<1>3. CASE built = addAction(beacon, o, x)
  <2>1. PICK r : /\ r.who = o /\ r.type = "ACTION"
                 /\ built = IF isActionReportingAllowed(beacon.privacy)
                               /\ isDataCapturingEnabled(beacon)
                            THEN Built(beacon, <<r>>) ELSE Built(beacon, NoRecord)
    <3> DEFINE r == [type |-> "ACTION", who |-> o, parent |-> x.parentID,
                     start |-> x.start, end |-> x.end, content |-> [id |-> x.id]]
    <3>1. r.who = o /\ r.type = "ACTION"
      OBVIOUS
    <3>2. built = IF isActionReportingAllowed(beacon.privacy)
                     /\ isDataCapturingEnabled(beacon)
                  THEN Built(beacon, <<r>>) ELSE Built(beacon, NoRecord)
      BY <1>3, Zenon DEF addAction, Record
    <3> HIDE DEF r
    <3> QED BY <3>1, <3>2
  <2>2. CASE isActionReportingAllowed(beacon.privacy) /\ isDataCapturingEnabled(beacon)
    <3>1. built.record = <<r>>
      BY <2>1, <2>2 DEF Built
    <3> QED BY <2>1, <3>1 DEF Single, NoRecord
  <2>3. CASE ~(isActionReportingAllowed(beacon.privacy) /\ isDataCapturingEnabled(beacon))
    <3>1. built.record = NoRecord
      BY <2>1, <2>3 DEF Built
    <3> QED BY <1>1, <2>3, <3>1 DEF isActionReportingAllowed
  <2> QED BY <2>2, <2>3
<1> QED BY <1>2, <1>3

(* The record of an action or a tracer is built, unless it is discarded. *)
LEMMA RecordKeeps ==
    ASSUME LeavingInv, NEW t \in Threads, record(t)
    PROVE  LeavingInv'
<1>1. PICK f : f = Top(t)
  OBVIOUS
<1>2. PICK r : r = (IF f.discard THEN Built(beacon, NoRecord)
                    ELSE IF f.o \in Tracers THEN addWebRequest(beacon, f.o, obj[f.o])
                    ELSE addAction(beacon, f.o, obj[f.o])).record
  OBVIOUS
<1>3. PICK g : g = [f EXCEPT !.record = r, !.pc = IF r = NoRecord THEN "detach" ELSE "add"]
  OBVIOUS
<1>4. /\ ~Idle(t) /\ f.pc = "record" /\ stack' = Replace(t, g)
      /\ beacon' = beacon /\ obj' = obj /\ wasOff' = wasOff
  BY <1>1, <1>2, <1>3 DEF record, At
<1>5. /\ Busy(t) /\ Leaves(f) /\ FrameOK(f) /\ LeaveFits(f)
      /\ f.o \in Objects /\ obj[f.o].state = "left"
  BY <1>1, <1>4, TopFacts
<1>6. /\ r = NoRecord /\ ~f.discard => ~Telling
      /\ r # NoRecord => ~f.discard /\ Single(r, {f.o}, {"ACTION", "WEBREQUEST"})
  <2>1. CASE f.discard
    BY <1>2, <2>1 DEF Built
  <2>2. CASE ~f.discard /\ f.o \in Tracers
    BY <1>2, <2>2, EndBuilt
  <2>3. CASE ~f.discard /\ f.o \notin Tracers
    BY <1>2, <2>3, EndBuilt
  <2> QED BY <2>1, <2>2, <2>3
<1>7. /\ g.o = f.o /\ g.discard = f.discard /\ g.todo = f.todo /\ g.record = r
      /\ g.pc = IF r = NoRecord THEN "detach" ELSE "add"
      /\ DOMAIN g = FrameFields
  BY <1>3, <1>5 DEF FrameOK, FrameFields
<1>8. FrameOK(g) /\ Leaves(g)
  BY <1>5, <1>7 DEF FrameOK, Leaves, LeavingPcs
<1>9. Replaced(t, g)
  BY <1>4, ReplacedFacts DEF LeavingInv
<1>10. /\ BeaconOK(beacon') /\ wasOff' \in BOOLEAN /\ (Telling' => Telling) /\ CaptureFits'
       /\ \A o \in Objects : Ends(o)' = Ends(o)
       /\ beacon'.mSequenceNumber \in Nat
       /\ beacon.mSequenceNumber <= beacon'.mSequenceNumber
  BY <1>4, BeaconAlone
<1>11. SameObjects /\ \A o \in Objects : obj'[o].end = obj[o].end
  BY <1>4, UnchangedObjects
<1>12. NumbersFit'
  BY <1>4, <1>10, NumbersKept
<1>13. LeaveFits(g)
  <2>1. /\ f.o # Session /\ Ends(f.o) = {} /\ AtMostOne(Ends(f.o))
        /\ \A c \in Children : ~OpenChild(c, f.o)
        /\ obj[f.o].state = "left" /\ f.discard = obj[f.o].cancelled
    BY <1>4, <1>5 DEF LeaveFits
  <2>2. CASE r = NoRecord
    BY <1>6, <1>7, <2>1, <2>2 DEF LeaveFits
  <2>3. CASE r # NoRecord
    BY <1>6, <1>7, <2>1, <2>3 DEF LeaveFits
  <2> QED BY <2>2, <2>3
<1>14. LeaveFits(g)'
  <2>1. \A c \in Children : OpenChild(c, g.o)' => OpenChild(c, g.o)
    BY <1>4 DEF OpenChild
  <2>2. Ends(g.o)' = Ends(g.o)
    BY <1>5, <1>7, <1>10
  <2> QED BY <1>4, <1>10, <1>13, <2>1, <2>2, LeaveKept
<1> QED BY <1>1, <1>5, <1>7, <1>8, <1>9, <1>10, <1>11, <1>12, <1>14, AdvanceKeeps

(* The record is added: it is the only one of its object. *)
LEMMA AddKeeps ==
    ASSUME LeavingInv, NEW t \in Threads, add(t)
    PROVE  LeavingInv'
<1>1. PICK f : f = Top(t)
  OBVIOUS
<1>2. PICK g : g = [f EXCEPT !.pc = "detach"]
  OBVIOUS
<1>3. PICK r : r = f.record[1]
  OBVIOUS
<1>4. /\ ~Idle(t) /\ f.pc = "add" /\ stack' = Replace(t, g)
      /\ beacon' = addEventData(beacon, f.record) /\ obj' = obj /\ wasOff' = wasOff
  BY <1>1, <1>2 DEF add, At, Goto, addActionData
<1>5. /\ Busy(t) /\ Leaves(f) /\ FrameOK(f) /\ LeaveFits(f)
      /\ f.o \in Objects /\ obj[f.o].state = "left"
  BY <1>1, <1>4, TopFacts
<1>6. f.record = <<r>> /\ r.who = f.o /\ r.type \in {"ACTION", "WEBREQUEST"} /\ ~f.discard
  BY <1>3, <1>4, <1>5 DEF LeaveFits, Single
<1>7. /\ BeaconOK(beacon') /\ SameObjects /\ NumbersFit'
      /\ \A o \in Objects : obj'[o].end = obj[o].end
      /\ wasOff' \in BOOLEAN /\ (Telling' => Telling) /\ CaptureFits'
      /\ \A o \in Objects :
           \/ /\ Ends(o)' = Ends(o)
              /\ ~(isDataCapturingEnabled(beacon) /\ r.who = o /\ r.type \in EndTypes)
           \/ /\ Ends(o)' = Ends(o) \cup {Len(beacon.records) + 1}
              /\ r.who = o /\ r.type \in EndTypes
  <2>1. beacon' = addEventData(beacon, <<r>>)
    BY <1>4, <1>6
  <2> QED BY <1>4, <2>1, AddsRecord
<1>8. \A o \in Objects \ {f.o} : Ends(o)' = Ends(o)
  BY <1>6, <1>7
<1>9. /\ g.pc = "detach" /\ g.o = f.o /\ g.discard = f.discard /\ g.todo = f.todo
      /\ DOMAIN g = FrameFields
  BY <1>2, <1>5 DEF FrameOK, FrameFields
<1>10. FrameOK(g) /\ Leaves(g)
  BY <1>5, <1>9 DEF FrameOK, Leaves, LeavingPcs
<1>11. Replaced(t, g)
  BY <1>4, ReplacedFacts DEF LeavingInv
<1>12. LeaveFits(g)'
  <2>1. /\ f.o # Session /\ Ends(f.o) = {}
        /\ \A c \in Children : ~OpenChild(c, f.o)
        /\ obj[f.o].state = "left" /\ f.discard = obj[f.o].cancelled
    BY <1>4, <1>5 DEF LeaveFits
  <2>2. \A c \in Children : ~OpenChild(c, f.o)'
    BY <1>4, <2>1 DEF OpenChild
  <2>3. Ends(f.o)' = {} \/ Ends(f.o)' = {Len(beacon.records) + 1}
    BY <1>5, <1>7, <2>1
  <2>4. AtMostOne(Ends(f.o))'
    BY <2>3 DEF AtMostOne
  <2>5. Telling => isDataCapturingEnabled(beacon)
    BY DEF LeavingInv, CaptureFits, Telling
  <2>6. Telling' => Ends(f.o)' # {}
    <3>1. r.type \in EndTypes
      BY <1>6 DEF EndTypes
    <3> QED BY <1>5, <1>6, <1>7, <2>5, <3>1
  <2> QED BY <1>4, <1>6, <1>9, <2>1, <2>2, <2>4, <2>6 DEF LeaveFits
<1> QED BY <1>1, <1>5, <1>7, <1>8, <1>9, <1>10, <1>11, <1>12, AdvanceKeeps

(* The record of the session's end is built. *)
LEMMA EndEventKeeps ==
    ASSUME LeavingInv, NEW t \in Threads, endEvent(t)
    PROVE  LeavingInv'
<1>1. PICK f : f = Top(t)
  OBVIOUS
<1>2. PICK built : built = IF f.event THEN endSession(beacon, Session) ELSE Built(beacon, NoRecord)
  OBVIOUS
<1>3. PICK g : g = [f EXCEPT !.record = built.record,
                             !.pc = IF built.record = NoRecord THEN "finished" ELSE "addEnd"]
  OBVIOUS
<1>4. /\ ~Idle(t) /\ f.pc = "children" /\ f.todo = <<>> /\ f.o = Session
      /\ stack' = Replace(t, g) /\ beacon' = built.beacon /\ obj' = obj /\ wasOff' = wasOff
  BY <1>1, <1>2, <1>3 DEF endEvent, ChildrenClosed, At
<1>5. /\ Busy(t) /\ Leaves(f) /\ FrameOK(f) /\ LeaveFits(f)
      /\ f.o \in Objects /\ obj[f.o].state = "left"
  BY <1>1, <1>4, TopFacts
<1>6. /\ \/ built.beacon = beacon
         \/ built.beacon = [beacon EXCEPT !.mSequenceNumber = createSequenceNumber(beacon)]
      /\ built.record # NoRecord => Single(built.record, {Session}, {"SESSION_END"})
  <2>1. PICK r : /\ r.who = Session /\ r.type = "SESSION_END"
                 /\ \/ /\ built.beacon = [beacon EXCEPT !.mSequenceNumber = createSequenceNumber(beacon)]
                       /\ built.record = <<r>>
                    \/ built.beacon = beacon /\ built.record = NoRecord
    <3> DEFINE r == [type |-> "SESSION_END", who |-> Session, parent |-> 0,
                     start |-> createSequenceNumber(beacon), end |-> 0, content |-> <<>>]
    <3>1. r.who = Session /\ r.type = "SESSION_END"
      OBVIOUS
    <3>2. \/ built = Built([beacon EXCEPT !.mSequenceNumber = createSequenceNumber(beacon)], <<r>>)
          \/ built = Built(beacon, NoRecord)
      BY <1>2, Zenon DEF endSession, buildEvent, Record
    <3> HIDE DEF r
    <3> QED BY <3>1, <3>2 DEF Built
  <2> QED BY <2>1 DEF Single, NoRecord
<1>7. /\ g.o = f.o /\ g.discard = f.discard /\ g.todo = f.todo /\ g.record = built.record
      /\ g.pc = IF built.record = NoRecord THEN "finished" ELSE "addEnd"
      /\ DOMAIN g = FrameFields
  BY <1>3, <1>5 DEF FrameOK, FrameFields
<1>8. FrameOK(g) /\ Leaves(g)
  BY <1>5, <1>7 DEF FrameOK, Leaves, LeavingPcs
<1>9. Replaced(t, g)
  BY <1>4, ReplacedFacts DEF LeavingInv
<1>10. /\ DOMAIN beacon' = BeaconFields /\ beacon'.records = beacon.records /\ SameSettings
       /\ beacon'.mSequenceNumber \in {beacon.mSequenceNumber, beacon.mSequenceNumber + 1}
  <2>1. DOMAIN beacon = BeaconFields
    BY DEF LeavingInv, ActionsTypeOK, BeaconOK
  <2> QED BY <1>4, <1>6, <2>1 DEF BeaconFields, SameSettings, createSequenceNumber
<1>11. /\ BeaconOK(beacon') /\ SameObjects /\ NumbersFit'
       /\ \A o \in Objects : obj'[o].end = obj[o].end /\ Ends(o)' = Ends(o)
       /\ wasOff' \in BOOLEAN /\ (Telling' => Telling) /\ CaptureFits'
  BY <1>4, <1>10, BeaconOnly
<1>12. LeaveFits(g)
  <2>1. /\ Ends(f.o) = {} /\ AtMostOne(Ends(f.o))
        /\ \A c \in Children : ~OpenChild(c, f.o)
        /\ obj[f.o].state = "left" /\ f.discard = obj[f.o].cancelled
    BY <1>4, <1>5 DEF LeaveFits
  <2>2. CASE built.record = NoRecord
    BY <1>4, <1>7, <2>1, <2>2 DEF LeaveFits
  <2>3. CASE built.record # NoRecord
    BY <1>4, <1>6, <1>7, <2>1, <2>3 DEF LeaveFits
  <2> QED BY <2>2, <2>3
<1>13. LeaveFits(g)'
  <2>1. \A c \in Children : OpenChild(c, g.o)' => OpenChild(c, g.o)
    BY <1>4 DEF OpenChild
  <2>2. Ends(g.o)' = Ends(g.o)
    BY <1>5, <1>7, <1>11
  <2> QED BY <1>4, <1>11, <1>12, <2>1, <2>2, LeaveKept
<1> QED BY <1>1, <1>5, <1>7, <1>8, <1>9, <1>11, <1>13, AdvanceKeeps

(* The record of the session's end is added. *)
LEMMA AddEndKeeps ==
    ASSUME LeavingInv, NEW t \in Threads, addEnd(t)
    PROVE  LeavingInv'
<1>1. PICK f : f = Top(t)
  OBVIOUS
<1>2. PICK g : g = [f EXCEPT !.pc = "finished"]
  OBVIOUS
<1>3. PICK r : r = f.record[1]
  OBVIOUS
<1>4. /\ ~Idle(t) /\ f.pc = "addEnd" /\ stack' = Replace(t, g)
      /\ beacon' = addEventData(beacon, f.record) /\ obj' = obj /\ wasOff' = wasOff
  BY <1>1, <1>2 DEF addEnd, At, Goto
<1>5. /\ Busy(t) /\ Leaves(f) /\ FrameOK(f) /\ LeaveFits(f)
      /\ f.o \in Objects /\ obj[f.o].state = "left"
  BY <1>1, <1>4, TopFacts
<1>6. f.record = <<r>> /\ r.who = Session /\ f.o = Session
  BY <1>3, <1>4, <1>5 DEF LeaveFits, Single
<1>7. /\ BeaconOK(beacon') /\ SameObjects /\ NumbersFit'
      /\ \A o \in Objects : obj'[o].end = obj[o].end
      /\ wasOff' \in BOOLEAN /\ (Telling' => Telling) /\ CaptureFits'
      /\ \A o \in Objects :
           \/ Ends(o)' = Ends(o)
           \/ Ends(o)' = Ends(o) \cup {Len(beacon.records) + 1} /\ r.who = o
  <2>1. beacon' = addEventData(beacon, <<r>>)
    BY <1>4, <1>6
  <2> QED BY <1>4, <2>1, AddsRecord
<1>8. \A o \in Objects \ {f.o} : Ends(o)' = Ends(o)
  BY <1>6, <1>7
<1>9. /\ g.pc = "finished" /\ g.o = f.o /\ g.discard = f.discard /\ g.todo = f.todo
      /\ DOMAIN g = FrameFields
  BY <1>2, <1>5 DEF FrameOK, FrameFields
<1>10. FrameOK(g) /\ Leaves(g)
  BY <1>5, <1>9 DEF FrameOK, Leaves, LeavingPcs
<1>11. Replaced(t, g)
  BY <1>4, ReplacedFacts DEF LeavingInv
<1>12. LeaveFits(g)'
  <2>1. /\ Ends(f.o) = {}
        /\ \A c \in Children : ~OpenChild(c, f.o)
        /\ obj[f.o].state = "left" /\ f.discard = obj[f.o].cancelled
    BY <1>4, <1>5 DEF LeaveFits
  <2>2. \A c \in Children : ~OpenChild(c, f.o)'
    BY <1>4, <2>1 DEF OpenChild
  <2>3. Ends(f.o)' = {} \/ Ends(f.o)' = {Len(beacon.records) + 1}
    BY <1>5, <1>7, <2>1
  <2>4. AtMostOne(Ends(f.o))'
    BY <2>3 DEF AtMostOne
  <2>5. ~f.discard
    BY <1>6, <2>1 DEF LeavingInv, ObjectsFit
  <2> QED BY <1>4, <1>6, <1>9, <2>1, <2>2, <2>4, <2>5 DEF LeaveFits
<1> QED BY <1>1, <1>5, <1>7, <1>8, <1>9, <1>10, <1>11, <1>12, AdvanceKeeps

(* The call on top returns from an object that is closed in the same step. *)
LEMMA CloseFacts ==
    ASSUME LeavingInv, NEW f, FrameOK(f), LeaveFits(f), f.pc \in {"detach", "finished"}
    PROVE  /\ obj[f.o].state = "left" /\ \A c \in Children : ~OpenChild(c, f.o)
           /\ AtMostOne(Ends(f.o)) /\ (obj[f.o].cancelled => Ends(f.o) = {})
           /\ f.o # Session /\ ~obj[f.o].cancelled /\ Telling => Ends(f.o) # {}
<1>1. /\ obj[f.o].state = "left" /\ f.discard = obj[f.o].cancelled
      /\ \A c \in Children : ~OpenChild(c, f.o)
      /\ AtMostOne(Ends(f.o)) /\ (f.discard => Ends(f.o) = {})
  BY DEF LeaveFits
<1>2. f.o # Session => f.pc = "detach"
  BY DEF LeaveFits
<1>3. f.pc = "detach" /\ ~f.discard /\ Telling => Ends(f.o) # {}
  BY DEF LeaveFits
<1> QED BY <1>1, <1>2, <1>3

(* markAsFinished. *)
LEMMA FinishedKeeps ==
    ASSUME LeavingInv, NEW t \in Threads, markAsFinished(t)
    PROVE  LeavingInv'
<1>1. PICK f : f = Top(t)
  OBVIOUS
<1>2. /\ ~Idle(t) /\ f.pc = "finished" /\ obj' = [obj EXCEPT ![Session].state = "closed"]
      /\ stack' = [stack EXCEPT ![t] = Front(@)] /\ beacon' = beacon /\ wasOff' = wasOff
  BY <1>1 DEF markAsFinished, At
<1>3. /\ Busy(t) /\ Leaves(f) /\ FrameOK(f) /\ LeaveFits(f)
      /\ f.o \in Objects /\ obj[f.o].state = "left"
  BY <1>1, <1>2, TopFacts
<1>4. f.o = Session
  BY <1>2, <1>3 DEF LeaveFits
<1>5. /\ BeaconOK(beacon') /\ wasOff' \in BOOLEAN /\ (Telling' => Telling) /\ CaptureFits'
      /\ \A o \in Objects : Ends(o)' = Ends(o)
      /\ beacon'.mSequenceNumber \in Nat
      /\ beacon.mSequenceNumber <= beacon'.mSequenceNumber
  BY <1>2, BeaconAlone
<1>6. DOMAIN obj = Objects /\ \A o \in Objects : ObjectOK(obj[o])
  BY DEF LeavingInv, ActionsTypeOK
<1>7. DOMAIN obj' = Objects /\ \A o \in Objects \ {Session} : obj'[o] = obj[o]
  BY <1>2, <1>6
<1>8. obj'[Session] = [obj[Session] EXCEPT !.state = "closed"]
  BY <1>2, <1>3, <1>4, <1>6
<1>9. /\ ObjectOK(obj'[Session]) /\ obj'[Session].state = "closed"
      /\ obj'[Session].parent = obj[Session].parent /\ obj'[Session].start = obj[Session].start
      /\ obj'[Session].cancelled = obj[Session].cancelled /\ obj'[Session].end = obj[Session].end
      /\ obj'[Session].mChildren = obj[Session].mChildren
  <2>1. ObjectOK(obj[Session])
    BY <1>3, <1>4, <1>6
  <2> QED BY <1>8, <2>1 DEF ObjectOK, ObjectFields
<1>10. \A session : Closes(Session, Session, session)
  BY <1>6, <1>7, <1>9 DEF Closes
<1>11. Forgets(Session, Session)
  <2>1. \A i \in 1..Len(obj[Session].mChildren) : obj[Session].mChildren[i] # Session
    <3>1. obj[Session].mChildren \in Seq(Children)
      BY <1>3, <1>4, <1>6 DEF ObjectOK
    <3> QED BY <3>1, NotSession
  <2> QED BY <1>9, <2>1 DEF Forgets
<1>12. /\ obj[Session].state = "left" /\ \A c \in Children : ~OpenChild(c, Session)
       /\ AtMostOne(Ends(Session)) /\ (obj[Session].cancelled => Ends(Session) = {})
  BY <1>2, <1>3, <1>4, CloseFacts
<1>13. ObjectsFit'
  BY <1>3, <1>4, <1>5, <1>10, <1>11, <1>12, CloseObjects
<1>14. NumbersFit'
  <2>1. \A w \in Tracers : w \in Objects /\ w # Session
    BY NotSession DEF Children
  <2>2. \A w \in Tracers : obj'[w].state = obj[w].state
    BY <1>7, <2>1
  <2>3. \A o \in Objects : /\ obj'[o].parent = obj[o].parent /\ obj'[o].start = obj[o].start
                           /\ obj'[o].end = obj[o].end
    BY <1>7, <1>9
  <2> QED BY <1>5, <2>2, <2>3, NumbersKept
<1>15. Popped(t)
  BY <1>2, PoppedFacts DEF LeavingInv
<1> QED BY <1>1, <1>3, <1>4, <1>5, <1>10, <1>13, <1>14, <1>15, CloseReturns

(* A list of children without one of them. *)
WithoutOne(l, x, rest) ==
    /\ rest \in Seq(Children)
    /\ \A k \in 1..Len(rest) : rest[k] # x /\ \E i \in 1..Len(l) : rest[k] = l[i]
    /\ \A i \in 1..Len(l) : l[i] # x => \E k \in 1..Len(rest) : rest[k] = l[i]

(* That is what erasing one gives. *)
LEMMA ErasesOne ==
    ASSUME NEW l \in Seq(Children), NEW x PROVE WithoutOne(l, x, Erase(l, {x}))
<1>1. PICK R : R = {x}
  OBVIOUS
<1>2. PICK rest : rest = Erase(l, R)
  OBVIOUS
<1>3. rest \in Seq(Children)
  BY <1>2, EraseType
<1>4. /\ \A k \in 1..Len(Erase(l, R)) :
           Erase(l, R)[k] \notin R /\ \E i \in 1..Len(l) : Erase(l, R)[k] = l[i]
      /\ \A i \in 1..Len(l) : l[i] \notin R =>
           \E k \in 1..Len(Erase(l, R)) : Erase(l, R)[k] = l[i]
  BY EraseElements
<1>5. /\ \A k \in 1..Len(rest) : rest[k] \notin R /\ \E i \in 1..Len(l) : rest[k] = l[i]
      /\ \A i \in 1..Len(l) : l[i] \notin R => \E k \in 1..Len(rest) : rest[k] = l[i]
  BY <1>2, <1>4, Zenon
<1>6. WithoutOne(l, x, rest)
  BY <1>1, <1>3, <1>5, Zenon DEF WithoutOne
<1> QED BY <1>1, <1>2, <1>6, Zenon

(* It is what the parent's list is after it. *)
LEMMA WithoutOneForgets ==
    ASSUME NEW x, NEW p, WithoutOne(obj[p].mChildren, x, obj'[p].mChildren)
    PROVE  Forgets(p, x)
BY DEF WithoutOne, Forgets

(* How the objects change when a child is closed. *)
Detached(x, p, rest, session) ==
    obj' = [obj EXCEPT ![x].state = "closed", ![p].mChildren = rest, ![Session].state = session]

(* The child is closed, its parent's list is the rest, and all else is kept. *)
LEMMA ChildCloses ==
    ASSUME LeavingInv, NEW x \in Children, obj[x].state = "left",
           NEW p, p = obj[x].parent, NEW rest, rest = Erase(obj[p].mChildren, {x}),
           NEW session \in {obj[Session].state, "left"},
           Detached(x, p, rest, session)
    PROVE  p \in Objects /\ Closes(x, p, session) /\ Forgets(p, x)
<1>1. /\ DOMAIN obj = Objects /\ \A o \in Objects : ObjectOK(obj[o])
      /\ Session \in Objects /\ x \in Objects /\ x # Session
  BY NotSession DEF LeavingInv, ActionsTypeOK, Objects
<1>2. p \in Objects /\ p # x
  BY <1>1 DEF LeavingInv, ObjectsFit, ChildFits, ObjectOK, Parents, Objects
<1>3. obj[p].mChildren \in Seq(Children)
  BY <1>1, <1>2 DEF ObjectOK
<1>4. WithoutOne(obj[p].mChildren, x, rest) /\ rest \in Seq(Children)
  <2>1. WithoutOne(obj[p].mChildren, x, rest)
    BY <1>3, ErasesOne, Zenon
  <2> QED BY <2>1, Zenon DEF WithoutOne
<1>5. DOMAIN obj' = Objects /\ \A o \in Objects : o \notin {x, p, Session} => obj'[o] = obj[o]
  BY <1>1, <1>2 DEF Detached
<1>6. obj'[x] = [obj[x] EXCEPT !.state = "closed"]
  BY <1>1, <1>2 DEF Detached
<1>7. p # Session => /\ obj'[p] = [obj[p] EXCEPT !.mChildren = rest]
                     /\ obj'[Session] = [obj[Session] EXCEPT !.state = session]
  BY <1>1, <1>2 DEF Detached
<1>8. p = Session => obj'[p] = [obj[p] EXCEPT !.mChildren = rest, !.state = session]
  BY <1>1, <1>2 DEF Detached
<1>9. /\ obj[Session].state \in {"none", "open", "left", "closed"}
      /\ session \in {"none", "open", "left", "closed"}
  BY <1>1 DEF ObjectOK
<1>10. /\ ObjectOK(obj'[x]) /\ obj'[x].state = "closed" /\ obj'[x].mChildren = obj[x].mChildren
       /\ obj'[x].parent = obj[x].parent /\ obj'[x].start = obj[x].start
       /\ obj'[x].cancelled = obj[x].cancelled /\ obj'[x].end = obj[x].end
  <2>1. ObjectOK(obj[x])
    BY <1>1
  <2> QED BY <1>6, <2>1 DEF ObjectOK, ObjectFields
<1>11. /\ ObjectOK(obj'[p]) /\ obj'[p].mChildren = rest
       /\ obj'[p].state = IF p = Session THEN session ELSE obj[p].state
       /\ obj'[p].parent = obj[p].parent /\ obj'[p].start = obj[p].start
       /\ obj'[p].cancelled = obj[p].cancelled /\ obj'[p].end = obj[p].end
  <2>1. ObjectOK(obj[p])
    BY <1>1, <1>2
  <2>2. CASE p = Session
    BY <1>4, <1>8, <1>9, <2>1, <2>2 DEF ObjectOK, ObjectFields
  <2>3. CASE p # Session
    BY <1>4, <1>7, <2>1, <2>3 DEF ObjectOK, ObjectFields
  <2> QED BY <2>2, <2>3
<1>12. /\ ObjectOK(obj'[Session]) /\ obj'[Session].state = session
       /\ p # Session => obj'[Session].mChildren = obj[Session].mChildren
       /\ obj'[Session].parent = obj[Session].parent /\ obj'[Session].start = obj[Session].start
       /\ obj'[Session].cancelled = obj[Session].cancelled
       /\ obj'[Session].end = obj[Session].end
  <2>1. ObjectOK(obj[Session])
    BY <1>1
  <2>2. CASE p = Session
    BY <1>11, <2>2
  <2>3. CASE p # Session
    BY <1>7, <1>9, <2>1, <2>3 DEF ObjectOK, ObjectFields
  <2> QED BY <2>2, <2>3
<1>13. ASSUME NEW o \in Objects
       PROVE  /\ ObjectOK(obj'[o])
              /\ obj'[o].parent = obj[o].parent /\ obj'[o].start = obj[o].start
              /\ obj'[o].cancelled = obj[o].cancelled /\ obj'[o].end = obj[o].end
              /\ o # x /\ o # Session => obj'[o].state = obj[o].state
              /\ o # p => obj'[o].mChildren = obj[o].mChildren
  <2>1. CASE o = x
    BY <1>10, <2>1
  <2>2. CASE o = p
    BY <1>11, <2>2
  <2>3. CASE o # p /\ o = Session
    BY <1>12, <2>3
  <2>4. CASE o \notin {x, p, Session}
    BY <1>1, <1>5, <2>4
  <2> QED BY <2>1, <2>2, <2>3, <2>4
<1>14. Closes(x, p, session)
  BY <1>1, <1>5, <1>10, <1>12, <1>13 DEF Closes
<1>15. Forgets(p, x)
  <2>1. obj'[p].mChildren = rest
    BY <1>11
  <2>2. WithoutOne(obj[p].mChildren, x, obj'[p].mChildren)
    BY <1>4, <2>1, Zenon
  <2> QED BY <2>2, WithoutOneForgets
<1> QED BY <1>2, <1>14, <1>15

(* A child tells its parent, and may end the session. *)
LEMMA ChildClosedKeeps ==
    ASSUME LeavingInv, NEW t \in Threads, onChildClosed(t)
    PROVE  LeavingInv'
<1>1. PICK f : f = Top(t)
  OBVIOUS
<1>2. PICK p : p = obj[f.o].parent
  OBVIOUS
<1>3. PICK rest : rest = Erase(obj[p].mChildren, {f.o})
  OBVIOUS
<1>4. PICK ends : ends = (p = Session /\ tried /\ rest = <<>> /\ Open(Session))
  OBVIOUS
<1>5. PICK h : h = [Frame("copy", Session) EXCEPT !.event = TRUE, !.holds = TRUE]
  OBVIOUS
<1>6. /\ ~Idle(t) /\ f.pc = "detach"
      /\ obj' = [obj EXCEPT ![f.o].state = "closed", ![p].mChildren = rest,
                            ![Session].state = IF ends THEN "left" ELSE @]
      /\ stack' = [stack EXCEPT ![t] = IF ends THEN Append(Front(@), h) ELSE Front(@)]
      /\ beacon' = beacon /\ wasOff' = wasOff
  BY <1>1, <1>2, <1>3, <1>4, <1>5 DEF onChildClosed, At
<1>7. /\ Busy(t) /\ Leaves(f) /\ FrameOK(f) /\ LeaveFits(f)
      /\ f.o \in Objects /\ obj[f.o].state = "left"
  BY <1>1, <1>6, TopFacts
<1>8. f.o # Session /\ f.o \in Children
  BY <1>6, <1>7 DEF LeaveFits, Objects, Children
<1>9. PICK session : session = IF ends THEN "left" ELSE obj[Session].state
  OBVIOUS
<1>10. Detached(f.o, p, rest, session)
  <2>1. DOMAIN obj = Objects /\ \A o \in Objects : DOMAIN obj[o] = ObjectFields
    BY DEF LeavingInv, ActionsTypeOK, ObjectOK
  <2>2. Session \in Objects
    BY DEF Objects
  <2>3. [obj EXCEPT ![f.o].state = "closed", ![p].mChildren = rest][Session].state
          = obj[Session].state
    BY <1>8, <2>1, <2>2 DEF ObjectFields
  <2> QED BY <1>6, <1>9, <2>3 DEF Detached
<1>11. p \in Objects /\ Closes(f.o, p, session) /\ Forgets(p, f.o)
  BY <1>2, <1>3, <1>7, <1>8, <1>9, <1>10, ChildCloses
<1>12. /\ BeaconOK(beacon') /\ wasOff' \in BOOLEAN /\ (Telling' => Telling) /\ CaptureFits'
       /\ \A o \in Objects : Ends(o)' = Ends(o)
       /\ beacon'.mSequenceNumber \in Nat
       /\ beacon.mSequenceNumber <= beacon'.mSequenceNumber
  BY <1>6, BeaconAlone
<1>13. /\ obj[f.o].state = "left" /\ \A c \in Children : ~OpenChild(c, f.o)
       /\ AtMostOne(Ends(f.o)) /\ (obj[f.o].cancelled => Ends(f.o) = {})
       /\ f.o # Session /\ ~obj[f.o].cancelled /\ Telling => Ends(f.o) # {}
  BY <1>6, <1>7, CloseFacts
<1>14. \/ session = obj[Session].state
       \/ obj[Session].state = "open" /\ session = "left"
  BY <1>4, <1>9 DEF Open
<1>15. ObjectsFit'
  BY <1>2, <1>7, <1>8, <1>11, <1>12, <1>13, <1>14, CloseObjects
<1>16. NumbersFit'
  <2>1. \A w \in Tracers : w \in Objects /\ w # Session
    BY NotSession DEF Children
  <2>2. \A w \in Tracers : \/ obj'[w].state = obj[w].state
                           \/ obj'[w].state = "closed" /\ obj[w].state = "left"
    BY <1>7, <1>11, <2>1 DEF Closes
  <2> QED BY <1>11, <1>12, <2>2, NumbersKept DEF Closes
<1>17. CASE ends
  <2>1. p = Session /\ Open(Session) /\ session = "left"
    BY <1>4, <1>9, <1>17
  <2>2. FrameOK(h) /\ h.o = Session /\ h.pc = "copy" /\ h.discard = FALSE /\ Leaves(h)
    BY <1>5 DEF FrameOK, Frame, FrameFields, LeavingPcs, Objects, Leaves
  <2>3. Session \in Objects /\ Session \notin Tracers
    BY NotSession DEF Objects, Children
  <2>4. /\ obj'[Session].state = "left" /\ obj'[Session].cancelled = FALSE
        /\ obj'[Session].end = 0 /\ Ends(Session)' = {}
    <3>1. obj[Session].cancelled = FALSE /\ obj[Session].end = 0 /\ Ends(Session) = {}
      BY <2>1, <2>3 DEF LeavingInv, ActionsTypeOK, ObjectOK, ObjectsFit, ObjectFits, Open
    <3>2. /\ obj'[Session].state = "left" /\ obj'[Session].cancelled = obj[Session].cancelled
          /\ obj'[Session].end = obj[Session].end
      BY <1>8, <1>11, <2>1, <2>3 DEF Closes
    <3> QED BY <1>12, <2>3, <3>1, <3>2
  <2>5. LeaveFits(h)'
    <3>1. AtMostOne(Ends(Session))'
      BY <2>4 DEF AtMostOne
    <3> QED BY <2>2, <2>3, <2>4, <3>1 DEF LeaveFits
  <2>6. Replaced(t, h)
    <3>1. stack' = Replace(t, h)
      BY <1>6, <1>17 DEF Replace
    <3> QED BY <1>6, <3>1, ReplacedFacts DEF LeavingInv
  <2> QED BY <1>1, <1>7, <1>11, <1>12, <1>15, <1>16, <2>1, <2>2, <2>5, <2>6, CloseEndsSession
<1>18. CASE ~ends
  <2>1. session = obj[Session].state
    BY <1>9, <1>18
  <2>2. Popped(t)
    <3>1. stack' = [stack EXCEPT ![t] = Front(@)]
      BY <1>6, <1>18
    <3> QED BY <1>6, <3>1, PoppedFacts DEF LeavingInv
  <2> QED BY <1>1, <1>7, <1>11, <1>12, <1>15, <1>16, <2>1, <2>2, CloseReturns
<1> QED BY <1>17, <1>18

------------------------------------------------------------------------------
(* The invariant. *)

(* The beacon of a new session: the start of the session at most. *)
LEMMA InitialBeacon ==
    ASSUME Init
    PROVE  /\ BeaconOK(beacon)
           /\ \A i \in 1..Len(beacon.records) : beacon.records[i].type = "SESSION_START"
<1>1. PICK p :
        LET new == NewBeacon(p, defaultInstance, "device", [number |-> 7, sequence |-> 1], 50)
            started == startSession(new, Session)
        IN beacon = addEventData(started.beacon, started.record)
  BY Zenon DEF Init
<1>2. PICK new : new = NewBeacon(p, defaultInstance, "device", [number |-> 7, sequence |-> 1], 50)
  OBVIOUS
<1>3. PICK started : started = startSession(new, Session)
  OBVIOUS
<1>4. beacon = addEventData(started.beacon, started.record)
  BY <1>1, <1>2, <1>3, Zenon
<1>5. DOMAIN new = BeaconFields /\ new.mSequenceNumber = 0 /\ new.records = <<>>
  BY <1>2 DEF NewBeacon, BeaconFields
<1>6. /\ DOMAIN started.beacon = BeaconFields /\ started.beacon.records = <<>>
      /\ started.beacon.mSequenceNumber \in Nat
      /\ \/ started.record = <<>>
         \/ started.record = <<started.record[1]>> /\ started.record[1].type = "SESSION_START"
  <2>1. PICK r : r = [type |-> "SESSION_START", who |-> Session, parent |-> 0,
                      start |-> createSequenceNumber(new), end |-> 0, content |-> <<>>]
    OBVIOUS
  <2>2. \/ started = Built([new EXCEPT !.mSequenceNumber = createSequenceNumber(new)], <<r>>)
        \/ started = Built(new, NoRecord)
    BY <1>3, <2>1, Zenon DEF startSession, buildEvent, Record
  <2>3. createSequenceNumber(new) = 1 /\ r.type = "SESSION_START"
    BY <1>5, <2>1 DEF createSequenceNumber
  <2>4. CASE started = Built([new EXCEPT !.mSequenceNumber = createSequenceNumber(new)], <<r>>)
    BY <1>5, <2>3, <2>4 DEF Built, BeaconFields
  <2>5. CASE started = Built(new, NoRecord)
    BY <1>5, <2>5 DEF Built, NoRecord
  <2> QED BY <2>2, <2>4, <2>5
<1>7. \/ beacon = started.beacon
      \/ beacon = [started.beacon EXCEPT !.records = <<>> \o started.record]
  BY <1>4, <1>6 DEF addEventData
<1>8. <<>> \o <<>> = <<>> /\ \A r : <<>> \o <<r>> = <<r>>
  OBVIOUS
<1>9. /\ DOMAIN beacon = BeaconFields /\ beacon.mSequenceNumber \in Nat
      /\ \/ beacon.records = <<>>
         \/ \E r : beacon.records = <<r>> /\ r.type = "SESSION_START"
  BY <1>6, <1>7, <1>8 DEF BeaconFields
<1>10. CASE beacon.records = <<>>
  <2>1. IsSeq(<<>>) /\ Len(<<>>) = 0
    BY ShortSeqs
  <2>2. IsSeq(beacon.records) /\ Len(beacon.records) = 0
    BY <1>10, <2>1
  <2> QED BY <1>9, <2>2 DEF BeaconOK
<1>11. CASE \E r : beacon.records = <<r>> /\ r.type = "SESSION_START"
  <2>1. PICK r : beacon.records = <<r>> /\ r.type = "SESSION_START"
    BY <1>11
  <2>2. IsSeq(<<r>>) /\ Len(<<r>>) = 1 /\ <<r>>[1] = r
    BY ShortSeqs
  <2>3. IsSeq(beacon.records) /\ Len(beacon.records) = 1 /\ beacon.records[1] = r
    BY <2>1, <2>2
  <2> QED BY <1>9, <2>1, <2>3 DEF BeaconOK
<1> QED BY <1>9, <1>10, <1>11

(* The invariant holds at first. *)
LEMMA LeavingAtFirst ==
    ASSUME Init PROVE LeavingInv /\ bound \in Bounds
<1>1. /\ BeaconOK(beacon)
      /\ \A i \in 1..Len(beacon.records) : beacon.records[i].type = "SESSION_START"
  BY InitialBeacon
<1>2. /\ obj = [o \in Objects |-> IF o = Session THEN [NoObject EXCEPT !.state = "open"]
                                  ELSE NoObject]
      /\ bound \in Bounds /\ stack = [t \in Threads |-> <<>>]
      /\ wasOff = ~isDataCapturingEnabled(beacon)
  BY DEF Init
<1>3. Session \in Objects /\ Session \in Parents
  BY DEF Objects, Parents
<1>4. DOMAIN obj = Objects /\ \A o \in Objects :
        /\ DOMAIN obj[o] = ObjectFields /\ obj[o].state = IF o = Session THEN "open" ELSE "none"
        /\ obj[o].parent = Session /\ obj[o].mChildren = <<>> /\ obj[o].start = 0
        /\ obj[o].end = 0 /\ obj[o].cancelled = FALSE
  BY <1>2 DEF NoObject, ObjectFields
<1>5. \A u \in Threads : stack[u] = <<>> /\ IsSeq(stack[u]) /\ Len(stack[u]) = 0
  BY <1>2, ShortSeqs
<1>6. wasOff \in BOOLEAN /\ CaptureFits
  BY <1>2 DEF CaptureFits
<1>7. ActionsTypeOK
  <2>1. \A o \in Objects : ObjectOK(obj[o])
    <3> SUFFICES ASSUME NEW o \in Objects PROVE ObjectOK(obj[o])
      OBVIOUS
    <3>1. <<>> \in Seq(Children)
      OBVIOUS
    <3>2. obj[o].state \in {"none", "open", "left", "closed"}
      BY <1>4
    <3>3. obj[o].parent \in Parents /\ obj[o].mChildren \in Seq(Children)
      BY <1>3, <1>4, <3>1
    <3>4. obj[o].start \in Nat /\ obj[o].end \in Nat /\ DOMAIN obj[o] = ObjectFields
      BY <1>4
    <3>5. obj[o].cancelled \in BOOLEAN
      BY <1>4, Zenon
    <3> QED BY <3>2, <3>3, <3>4, <3>5 DEF ObjectOK
  <2>2. DOMAIN stack = Threads
    BY <1>2
  <2> QED BY <1>1, <1>4, <1>5, <1>6, <2>1, <2>2 DEF ActionsTypeOK
<1>8. FramesFit /\ OneLeaves
  BY <1>5 DEF FramesFit, OneLeaves
<1>9. LeftIsLeaving
  BY <1>4 DEF LeftIsLeaving
<1>10. \A o : Ends(o) = {}
  <2>1. DOMAIN beacon.records = 1..Len(beacon.records)
    BY <1>1, SeqFacts DEF BeaconOK
  <2> QED BY <1>1, <2>1 DEF Ends, Recorded, EndTypes
<1>11. ObjectsFit
  <2>1. \A o \in Objects : ObjectFits(o)
    BY <1>4, <1>10 DEF ObjectFits
  <2>2. \A c \in Children : ChildFits(c)
    BY <1>4, NotSession DEF ChildFits
  <2> QED BY <1>3, <1>4, <2>1, <2>2 DEF ObjectsFit
<1>12. NumbersFit
  <2>1. \A w \in Tracers : WebRequestFits(w)
    BY <1>4, NotSession DEF WebRequestFits, Children
  <2> QED BY <1>1, <1>4, <2>1 DEF NumbersFit, BeaconOK
<1> QED BY <1>2, <1>6, <1>7, <1>8, <1>9, <1>11, <1>12 DEF LeavingInv

(* Every step keeps it. *)
LEMMA LeavingKept ==
    ASSUME LeavingInv, bound \in Bounds, [Next]_vars
    PROVE  LeavingInv' /\ (bound \in Bounds)'
<1>1. ASSUME NEW t \in Threads, NEW p \in Parents, enterAction(t, p) \/ traceWebRequest(t, p)
      PROVE  LeavingInv' /\ bound' = bound
  <2>1. CASE enterAction(t, p)
    BY <2>1, EnterActionKeeps DEF enterAction, NewChild
  <2>2. CASE traceWebRequest(t, p)
    BY <2>2, TraceWebRequestKeeps DEF traceWebRequest, NewChild
  <2> QED BY <1>1, <2>1, <2>2
<1>2. ASSUME NEW t \in Threads, NEW a \in Actions,
             ActionReport(t, a) \/ leaveAction(t, a) \/ cancelAction(t, a)
      PROVE  LeavingInv' /\ bound' = bound
  <2>1. CASE ActionReport(t, a)
    BY <2>1, ActionReportKeeps DEF ActionReport, Report
  <2>2. CASE leaveAction(t, a)
    BY <2>2, LeaveActionKeeps DEF leaveAction, doLeaveAction
  <2>3. CASE cancelAction(t, a)
    BY <2>3, LeaveActionKeeps DEF cancelAction, doLeaveAction
  <2> QED BY <1>2, <2>1, <2>2, <2>3
<1>3. ASSUME NEW t \in Threads, NEW w \in Tracers,
             \/ stop(t, w)
             \/ \E f \in {"bytesSent", "bytesReceived"}, n \in ByteCounts : setBytes(t, w, f, n)
      PROVE  LeavingInv' /\ bound' = bound
  <2>1. CASE stop(t, w)
    BY <2>1, StopKeeps DEF stop, doStop
  <2>2. CASE \E f \in {"bytesSent", "bytesReceived"}, n \in ByteCounts : setBytes(t, w, f, n)
    BY <2>2, SetBytesKeeps DEF setBytes
  <2> QED BY <1>3, <2>1, <2>2
<1>4. ASSUME NEW t \in Threads, SessionReport(t) PROVE LeavingInv' /\ bound' = bound
  BY <1>4, SessionReportKeeps DEF SessionReport, Report
<1>5. ASSUME NEW t \in Threads, NEW what, Supplement(t, what) PROVE LeavingInv' /\ bound' = bound
  BY <1>5, SupplementKeeps DEF Supplement
<1>6. ASSUME NEW t \in Threads, NEW event, end(t, event) PROVE LeavingInv' /\ bound' = bound
  BY <1>6, EndKeeps DEF end
<1>7. ASSUME NEW t \in Threads, tryEnd(t) PROVE LeavingInv' /\ bound' = bound
  BY <1>7, TryEndKeeps DEF tryEnd
<1>8. ASSUME NEW t \in Threads, addReport(t) PROVE LeavingInv' /\ bound' = bound
  BY <1>8, AddReportKeeps DEF addReport
<1>9. ASSUME NEW t \in Threads, getCopyOfChildObjects(t) PROVE LeavingInv' /\ bound' = bound
  BY <1>9, CopyKeeps DEF getCopyOfChildObjects
<1>10. ASSUME NEW t \in Threads, closeChild(t) PROVE LeavingInv' /\ bound' = bound
  BY <1>10, CloseChildKeeps DEF closeChild, doStop, doLeaveAction
<1>11. ASSUME NEW t \in Threads, finish(t) PROVE LeavingInv' /\ bound' = bound
  BY <1>11, FinishKeeps DEF finish
<1>12. ASSUME NEW t \in Threads, record(t) PROVE LeavingInv' /\ bound' = bound
  BY <1>12, RecordKeeps DEF record
<1>13. ASSUME NEW t \in Threads, add(t) PROVE LeavingInv' /\ bound' = bound
  BY <1>13, AddKeeps DEF add
<1>14. ASSUME NEW t \in Threads, onChildClosed(t) PROVE LeavingInv' /\ bound' = bound
  BY <1>14, ChildClosedKeeps DEF onChildClosed
<1>15. ASSUME NEW t \in Threads, endEvent(t) PROVE LeavingInv' /\ bound' = bound
  BY <1>15, EndEventKeeps DEF endEvent
<1>16. ASSUME NEW t \in Threads, addEnd(t) PROVE LeavingInv' /\ bound' = bound
  BY <1>16, AddEndKeeps DEF addEnd
<1>17. ASSUME NEW t \in Threads, markAsFinished(t) PROVE LeavingInv' /\ bound' = bound
  BY <1>17, FinishedKeeps DEF markAsFinished
<1>18. ASSUME NEW c, updateServerConfiguration(c) PROVE LeavingInv' /\ bound' = bound
  BY <1>18, ConfigurationKeeps DEF updateServerConfiguration
<1>19. ASSUME NEW t \in Threads, Call(t) PROVE LeavingInv' /\ bound' = bound
  BY <1>1, <1>2, <1>3, <1>4, <1>5, <1>6, <1>7, <1>19, Zenon DEF Call, Parents
<1>20. ASSUME NEW t \in Threads, InCall(t) PROVE LeavingInv' /\ bound' = bound
  BY <1>8, <1>9, <1>10, <1>11, <1>12, <1>13, <1>14, <1>15, <1>16, <1>17, <1>20, Zenon DEF InCall
<1>21. CASE UNCHANGED vars
  <2>1. beacon' = beacon /\ obj' = obj /\ stack' = stack /\ wasOff' = wasOff /\ bound' = bound
    BY <1>21 DEF vars
  <2> QED BY <2>1, TryEndLater
<1> QED BY <1>18, <1>19, <1>20, <1>21 DEF Next

(***************************************************************************)
(* Whatever threads enter, report, leave, cancel and end at the same time, *)
(* every object is left by one call only, which knows of all its open      *)
(* children, and its end is recorded by that call alone.                   *)
(***************************************************************************)
THEOREM Leaving == Spec => []LeavingInv
<1>1. Init => LeavingInv /\ bound \in Bounds
  BY LeavingAtFirst
<1>2. LeavingInv /\ bound \in Bounds /\ [Next]_vars => LeavingInv' /\ (bound \in Bounds)'
  BY LeavingKept
<1> QED BY <1>1, <1>2, PTL DEF Spec

(* What is recorded of the end of any object. *)
LEMMA EndsOnce ==
    ASSUME LeavingInv, NEW o \in Objects
    PROVE  /\ AtMostOne(Ends(o)) /\ (obj[o].cancelled => Ends(o) = {})
           /\ /\ o # Session /\ obj[o].state = "closed" /\ ~obj[o].cancelled
              /\ Telling
              => Ends(o) # {}
<1>1. ObjectFits(o) /\ obj[o].state \in {"none", "open", "left", "closed"}
  BY DEF LeavingInv, ObjectsFit, ActionsTypeOK, ObjectOK
<1>2. CASE obj[o].state \in {"none", "open"}
  BY <1>1, <1>2 DEF ObjectFits, AtMostOne
<1>3. CASE obj[o].state = "closed"
  BY <1>1, <1>3 DEF ObjectFits
<1>4. CASE obj[o].state = "left"
  <2>1. PICK u \in Threads : \E i \in 1..Len(stack[u]) : Leaves(stack[u][i]) /\ stack[u][i].o = o
    BY <1>4 DEF LeavingInv, LeftIsLeaving
  <2>2. PICK i \in 1..Len(stack[u]) : Leaves(stack[u][i]) /\ stack[u][i].o = o
    BY <2>1
  <2>3. LeaveFits(stack[u][i])
    BY <2>2, FrameFacts
  <2>4. PICK f : f = stack[u][i]
    OBVIOUS
  <2>5. AtMostOne(Ends(o)) /\ (f.discard => Ends(o) = {}) /\ f.discard = obj[o].cancelled
    BY <2>2, <2>3, <2>4 DEF LeaveFits
  <2> QED BY <1>4, <2>5
<1> QED BY <1>1, <1>2, <1>3, <1>4

(***************************************************************************)
(* The end of an action, of a tracer and of the session is recorded at     *)
(* most once whoever leaves it, not at all if it was cancelled, and once   *)
(* if it is through and recording was allowed all the time.                *)
(***************************************************************************)
THEOREM EndsRecordedOnce == Spec => []RecordedOnce
<1>1. ASSUME LeavingInv PROVE RecordedOnce
  <2> SUFFICES ASSUME NEW o \in Objects
               PROVE  LET n == Cardinality(Ends(o))
                      IN /\ n <= (IF obj[o].cancelled THEN 0 ELSE 1)
                         /\ /\ o # Session
                            /\ obj[o].state = "closed" /\ ~obj[o].cancelled
                            /\ ~wasOff /\ beacon.privacy.level # "OFF"
                            => n = 1
    BY Zenon DEF RecordedOnce, Ends, EndTypes
  <2>1. /\ AtMostOne(Ends(o)) /\ (obj[o].cancelled => Ends(o) = {})
        /\ /\ o # Session /\ obj[o].state = "closed" /\ ~obj[o].cancelled
           /\ ~wasOff /\ beacon.privacy.level # "OFF"
           => Ends(o) # {}
    BY <1>1, EndsOnce DEF Telling
  <2>2. CASE Ends(o) = {}
    <3>1. Cardinality(Ends(o)) = 0
      BY <2>2, FS_EmptySet
    <3> QED BY <2>1, <2>2, <3>1
  <2>3. CASE Ends(o) # {}
    <3>1. PICK e \in Ends(o) : TRUE
      BY <2>3
    <3>2. Ends(o) = {e}
      BY <2>1, <3>1 DEF AtMostOne
    <3>3. Cardinality(Ends(o)) = 1
      BY <3>2, FS_Singleton
    <3> QED BY <2>1, <2>3, <3>3
  <2> QED BY <2>2, <2>3
<1> QED BY <1>1, Leaving, PTL

(***************************************************************************)
(* When the session is finished and no call is under way, nothing is left  *)
(* open: an open child has an open parent, up to the session.              *)
(***************************************************************************)
THEOREM NothingOrphaned == Spec => []NoOrphans
<1>1. ASSUME LeavingInv PROVE NoOrphans
  <2> SUFFICES ASSUME obj[Session].state = "closed", \A t \in Threads : Idle(t)
               PROVE  \A o \in Objects : /\ obj[o].state \in {"none", "closed"}
                                         /\ obj[o].mChildren = <<>>
    BY DEF NoOrphans
  <2>1. \A o \in Objects : obj[o].state # "left"
    BY <1>1 DEF LeavingInv, LeftIsLeaving, Idle
  <2>2. \A o \in Objects : ObjectOK(obj[o]) /\ ObjectFits(o)
    BY <1>1 DEF LeavingInv, ActionsTypeOK, ObjectsFit
  <2>3. \A c \in Children : ChildFits(c) /\ c \in Objects /\ c # Session
    BY <1>1, NotSession DEF LeavingInv, ObjectsFit
  <2>4. \A c \in Children : obj[c].parent \in Parents
    BY <2>2, <2>3 DEF ObjectOK
  <2>5. ASSUME NEW c \in Children, obj[c].state = "open"
        PROVE  obj[c].parent \in Actions /\ obj[obj[c].parent].state = "open"
    <3>1. obj[obj[c].parent].state = "open"
      BY <2>1, <2>3, <2>4, <2>5 DEF ChildFits, Parents, Objects
    <3> QED BY <2>4, <2>5, <3>1 DEF Parents
  <2>6. \A a \in Actions : obj[a].state # "open"
    <3> SUFFICES ASSUME NEW a \in Actions, obj[a].state = "open" PROVE FALSE
      OBVIOUS
    <3>1. obj[a].parent \in Actions /\ obj[obj[a].parent].state = "open"
      BY <2>5 DEF Children
    <3>2. obj[obj[a].parent].parent = Session
      BY <2>3, <3>1 DEF ChildFits, Children
    <3>3. obj[obj[a].parent].parent \in Actions
      BY <2>5, <3>1 DEF Children
    <3> QED BY <2>3, <3>2, <3>3 DEF Children
  <2>7. \A c \in Children : obj[c].state # "open"
    BY <2>5, <2>6
  <2>8. \A o \in Objects : obj[o].state \in {"none", "closed"}
    <3> SUFFICES ASSUME NEW o \in Objects PROVE obj[o].state \in {"none", "closed"}
      OBVIOUS
    <3>1. o = Session \/ o \in Children
      BY DEF Objects, Children
    <3> QED BY <2>1, <2>2, <2>7, <3>1 DEF ObjectOK
  <2>9. \A o \in Objects : obj[o].mChildren = <<>>
    <3> SUFFICES ASSUME NEW o \in Objects PROVE obj[o].mChildren = <<>>
      OBVIOUS
    <3>1. PICK l \in Seq(Children) : l = obj[o].mChildren
      BY <2>2 DEF ObjectOK
    <3>2. \A i \in 1..Len(l) : l[i] \in Objects /\ obj[l[i]].state \in {"open", "left"}
      BY <2>2, <2>3, <3>1 DEF ObjectFits
    <3>3. \A i \in 1..Len(l) : FALSE
      BY <2>8, <3>2
    <3>4. Len(l) = 0
      BY <3>3
    <3> QED BY <3>1, <3>4
  <2> QED BY <2>8, <2>9
<1> QED BY <1>1, Leaving, PTL

(***************************************************************************)
(* The numbers of a web request are between those of its action, whichever *)
(* thread stops the tracer while the action is left.                       *)
(***************************************************************************)
THEOREM WebRequestsWithin == Spec => []WebRequestsWithinAction
<1>1. ASSUME LeavingInv PROVE WebRequestsWithinAction
  <2> SUFFICES ASSUME NEW w \in Tracers, obj[w].state # "none", obj[w].parent # Session
               PROVE  LET a == obj[w].parent
                      IN /\ obj[a].start < obj[w].start
                         /\ obj[a].end # 0 => /\ obj[w].start < obj[w].end
                                              /\ obj[w].end < obj[a].end
    BY DEF WebRequestsWithinAction
  <2>1. WebRequestFits(w)
    BY <1>1 DEF LeavingInv, NumbersFit
  <2> QED BY <2>1 DEF WebRequestFits
<1> QED BY <1>1, Leaving, PTL

------------------------------------------------------------------------------
(* The attributes of events. *)

(* Whatever is under one of the names K is OpenKit's own. *)
OwnUnder(attributes, K) == \A k \in DOMAIN attributes \cap K : attributes[k] = Own

(* The type of an event, if it has any, is the application's. *)
TypeNotOwn(attributes) == "event.type" \in DOMAIN attributes => attributes["event.type"] # Own

(* The type of an event is there, and OpenKit's own. *)
TypeOwn(attributes) == "event.type" \in DOMAIN attributes /\ attributes["event.type"] = Own

(* A single attribute that the application may override, or may not. *)
LEMMA KeyJoined ==
    ASSUME NEW key, NEW attributes
    PROVE  /\ \A K : OwnUnder(attributes, K) =>
                /\ OwnUnder(addNonOverridableAttribute(attributes, key), K)
                /\ OwnUnder(addOverridableAttribute(attributes, key), K)
           /\ DOMAIN attributes \subseteq DOMAIN addNonOverridableAttribute(attributes, key)
           /\ DOMAIN attributes \subseteq DOMAIN addOverridableAttribute(attributes, key)
           /\ key # "event.type" /\ TypeNotOwn(attributes) =>
                /\ TypeNotOwn(addNonOverridableAttribute(attributes, key))
                /\ TypeNotOwn(addOverridableAttribute(attributes, key))
           /\ key = "event.type" \/ TypeOwn(attributes) =>
                TypeOwn(addNonOverridableAttribute(attributes, key))
BY DEF OwnUnder, TypeNotOwn, TypeOwn, addNonOverridableAttribute, addOverridableAttribute

(* The attributes every event has. *)
LEMMA PayloadFacts ==
    ASSUME NEW attributes
    PROVE  /\ OwnUnder(generateEventPayload(attributes), NonOverridable)
           /\ NonOverridable \subseteq DOMAIN generateEventPayload(attributes)
           /\ OwnUnder(attributes, ReservedInternal) =>
                OwnUnder(generateEventPayload(attributes), ReservedInternal)
           /\ TypeNotOwn(attributes) => TypeNotOwn(generateEventPayload(attributes))
           /\ TypeOwn(attributes) => TypeOwn(generateEventPayload(attributes))
<1>1. "event.type" \notin NonOverridable /\ "event.type" \notin Overridable
  BY DEF NonOverridable, Overridable
<1> QED BY <1>1 DEF OwnUnder, TypeNotOwn, TypeOwn, generateEventPayload

(* The mark of numbers that JSON cannot tell. *)
LEMMA MarkedFacts ==
    ASSUME NEW attributes
    PROVE  /\ \A K : OwnUnder(attributes, K) => OwnUnder(MarkNonFinite(attributes), K)
           /\ DOMAIN attributes \subseteq DOMAIN MarkNonFinite(attributes)
           /\ TypeNotOwn(attributes) => TypeNotOwn(MarkNonFinite(attributes))
           /\ TypeOwn(attributes) => TypeOwn(MarkNonFinite(attributes))
<1>1. \/ MarkNonFinite(attributes) = attributes
      \/ MarkNonFinite(attributes) = addNonOverridableAttribute(attributes, "dt.rum.has_nfn_values")
  BY Zenon DEF MarkNonFinite
<1>2. "dt.rum.has_nfn_values" # "event.type"
  OBVIOUS
<1> QED BY <1>1, <1>2, KeyJoined

(* What an event must be, whether it is a business event or not. *)
EventFits(attributes) ==
    /\ \A k \in NonOverridable : attributes[k] = Own
    /\ TypeOwn(attributes) =>
         \A k \in DOMAIN attributes \cap ReservedInternal : attributes[k] = Own

(* What sendEvent records of the attributes of the application. *)
LEMMA EventContent ==
    ASSUME NEW attributes \in UserAttributes
    PROVE  LET named == addNonOverridableAttribute(generateEventPayload(attributes), "event.name")
           IN EventFits(MarkNonFinite(addOverridableAttribute(named, "event.kind")))
<1>1. TypeNotOwn(attributes)
  BY ActionsAssumption DEF TypeNotOwn, User, NonFinite, Own
<1>2. PICK payload : payload = generateEventPayload(attributes)
  OBVIOUS
<1>3. PICK named : named = addNonOverridableAttribute(payload, "event.name")
  OBVIOUS
<1>4. PICK all : all = addOverridableAttribute(named, "event.kind")
  OBVIOUS
<1>5. PICK content : content = MarkNonFinite(all)
  OBVIOUS
<1>6. /\ OwnUnder(payload, NonOverridable) /\ NonOverridable \subseteq DOMAIN payload
      /\ TypeNotOwn(payload)
  BY <1>1, <1>2, PayloadFacts
<1>7. /\ OwnUnder(named, NonOverridable) /\ NonOverridable \subseteq DOMAIN named
      /\ TypeNotOwn(named)
  BY <1>3, <1>6, KeyJoined
<1>8. /\ OwnUnder(all, NonOverridable) /\ NonOverridable \subseteq DOMAIN all
      /\ TypeNotOwn(all)
  BY <1>4, <1>7, KeyJoined
<1>9. /\ OwnUnder(content, NonOverridable) /\ NonOverridable \subseteq DOMAIN content
      /\ TypeNotOwn(content)
  BY <1>5, <1>8, MarkedFacts
<1>10. EventFits(content)
  BY <1>9 DEF EventFits, OwnUnder, TypeNotOwn, TypeOwn
<1> QED BY <1>2, <1>3, <1>4, <1>5, <1>10, Zenon

(* What sendBizEvent records: the reserved names are taken out before. *)
LEMMA BizEventContent ==
    ASSUME NEW attributes
    PROVE  LET typed == addNonOverridableAttribute(attributes, "event.type")
               clean == addNonOverridableAttribute(cleanReservedInternalAttributes(typed),
                                                   "dt.rum.custom_attributes_size")
               all == addNonOverridableAttribute(generateEventPayload(clean), "event.kind")
           IN EventFits(MarkNonFinite(all)) /\ TypeOwn(MarkNonFinite(all))
<1>1. PICK typed : typed = addNonOverridableAttribute(attributes, "event.type")
  OBVIOUS
<1>2. PICK kept : kept = cleanReservedInternalAttributes(typed)
  OBVIOUS
<1>3. PICK clean : clean = addNonOverridableAttribute(kept, "dt.rum.custom_attributes_size")
  OBVIOUS
<1>4. PICK payload : payload = generateEventPayload(clean)
  OBVIOUS
<1>5. PICK all : all = addNonOverridableAttribute(payload, "event.kind")
  OBVIOUS
<1>6. PICK content : content = MarkNonFinite(all)
  OBVIOUS
<1>7. OwnUnder(kept, ReservedInternal) /\ TypeOwn(kept)
  <2>1. TypeOwn(typed)
    BY <1>1, KeyJoined
  <2>2. "event.type" \notin ReservedInternal
    BY DEF ReservedInternal, NonOverridable
  <2> QED BY <1>2, <2>1, <2>2 DEF OwnUnder, TypeOwn, cleanReservedInternalAttributes
<1>8. OwnUnder(clean, ReservedInternal) /\ TypeOwn(clean)
  BY <1>3, <1>7, KeyJoined
<1>9. /\ OwnUnder(payload, NonOverridable) /\ NonOverridable \subseteq DOMAIN payload
      /\ OwnUnder(payload, ReservedInternal) /\ TypeOwn(payload)
  BY <1>4, <1>8, PayloadFacts
<1>10. /\ OwnUnder(all, NonOverridable) /\ NonOverridable \subseteq DOMAIN all
       /\ OwnUnder(all, ReservedInternal) /\ TypeOwn(all)
  BY <1>5, <1>9, KeyJoined
<1>11. /\ OwnUnder(content, NonOverridable) /\ NonOverridable \subseteq DOMAIN content
       /\ OwnUnder(content, ReservedInternal) /\ TypeOwn(content)
  BY <1>6, <1>10, MarkedFacts
<1>12. EventFits(content) /\ TypeOwn(content)
  BY <1>11 DEF EventFits, OwnUnder
<1> QED BY <1>1, <1>2, <1>3, <1>4, <1>5, <1>6, <1>12, Zenon

------------------------------------------------------------------------------
(* What the privacy settings allow. *)

(* A record that the privacy settings permit. *)
RecordFits(r) == Permitted(r) /\ (r.type = "EVENT" => EventFits(r.content))

(* One that is still to be added, if there is any. *)
ToAddFits(toAdd) == toAdd = NoRecord \/ (toAdd = <<toAdd[1]>> /\ RecordFits(toAdd[1]))

(* What is recorded and what the calls under way will add is allowed. *)
PrivacyInv ==
    /\ \A i \in 1..Len(beacon.records) : RecordFits(beacon.records[i])
    /\ \A u \in Threads : \A i \in 1..Len(stack[u]) : ToAddFits(stack[u][i].record)

(* The settings stay, so what was allowed is. *)
LEMMA RecordKept ==
    ASSUME beacon'.privacy = beacon.privacy
    PROVE  /\ \A r : RecordFits(r) => RecordFits(r)'
           /\ \A toAdd : ToAddFits(toAdd) => ToAddFits(toAdd)'
BY DEF RecordFits, ToAddFits, Permitted

(* The calls under way after a step: the old ones, and those of a set. *)
OldOr(F) == \A u \in Threads : \A i \in 1..Len(stack'[u]) :
                (i \in 1..Len(stack[u]) /\ stack'[u][i] = stack[u][i]) \/ stack'[u][i] \in F

(* A step that changes no call, or one. *)
LEMMA OldOrNew ==
    ASSUME ActionsTypeOK, NEW t \in Threads, NEW g, NEW f
    PROVE  /\ stack' = stack => OldOr({})
           /\ Pushed(t, f) => OldOr({f})
           /\ Busy(t) /\ Popped(t) => OldOr({})
           /\ Busy(t) /\ Replaced(t, f) => OldOr({f})
           /\ Busy(t) /\ PushedOn(t, g, f) => OldOr({g, f})
<1>1. ASSUME stack' = stack PROVE OldOr({})
  BY <1>1 DEF OldOr
<1>2. ASSUME Pushed(t, f) PROVE OldOr({f})
  <2>1. \A i \in 1..Len(stack'[t]) : stack'[t][i] = f
    BY <1>2 DEF Pushed
  <2> QED BY <1>2, <2>1 DEF OldOr, Pushed, Others
<1>3. ASSUME Busy(t), Popped(t) PROVE OldOr({})
  <2>1. \A i \in 1..Len(stack'[t]) : i \in 1..(Len(stack[t]) - 1) /\ i \in 1..Len(stack[t])
    BY <1>3 DEF Busy, Popped
  <2> QED BY <1>3, <2>1 DEF OldOr, Popped, Others, Below
<1>4. ASSUME Busy(t), Replaced(t, f) PROVE OldOr({f})
  <2>1. \A i \in 1..Len(stack'[t]) :
          \/ i \in 1..(Len(stack[t]) - 1) /\ i \in 1..Len(stack[t])
          \/ i = Len(stack[t])
    BY <1>4 DEF Busy, Replaced
  <2> QED BY <1>4, <2>1 DEF OldOr, Replaced, Others, Below
<1>5. ASSUME Busy(t), PushedOn(t, g, f) PROVE OldOr({g, f})
  <2>1. \A i \in 1..Len(stack'[t]) :
          \/ i \in 1..(Len(stack[t]) - 1) /\ i \in 1..Len(stack[t])
          \/ i = Len(stack[t]) \/ i = Len(stack[t]) + 1
    BY <1>5 DEF Busy, PushedOn
  <2> QED BY <1>5, <2>1 DEF OldOr, PushedOn, Others, Below
<1> QED BY <1>1, <1>2, <1>3, <1>4, <1>5

(* A step that adds no record: the calls it begins have allowed ones. *)
LEMMA QuietPrivacy ==
    ASSUME PrivacyInv, beacon'.privacy = beacon.privacy, beacon'.records = beacon.records,
           NEW F, OldOr(F), \A f \in F : ToAddFits(f.record)
    PROVE  PrivacyInv'
<1>1. \A i \in 1..Len(beacon'.records) : RecordFits(beacon'.records[i])
  BY DEF PrivacyInv
<1>2. \A u \in Threads : \A i \in 1..Len(stack'[u]) : ToAddFits(stack'[u][i].record)
  BY DEF PrivacyInv, OldOr
<1>3. \A i \in 1..Len(beacon'.records) : RecordFits(beacon.records[i])'
  BY <1>1 DEF RecordFits, Permitted
<1>4. \A u \in Threads : \A i \in 1..Len(stack'[u]) : ToAddFits(stack[u][i].record)'
  BY <1>2 DEF ToAddFits, RecordFits, Permitted
<1> QED BY <1>3, <1>4 DEF PrivacyInv

(* A step that adds the record of a call. *)
LEMMA AddPrivacy ==
    ASSUME PrivacyInv, BeaconOK(beacon), NEW toAdd, ToAddFits(toAdd),
           beacon' = addEventData(beacon, toAdd),
           NEW F, OldOr(F), \A f \in F : ToAddFits(f.record)
    PROVE  PrivacyInv'
<1>1. /\ beacon'.privacy = beacon.privacy
      /\ beacon'.records = beacon.records \/ beacon'.records = beacon.records \o toAdd
  BY DEF addEventData, BeaconOK, BeaconFields
<1>2. CASE beacon'.records = beacon.records
  BY <1>1, <1>2, QuietPrivacy
<1>3. CASE beacon'.records = beacon.records \o toAdd
  <2>0. IsSeq(beacon.records)
    BY DEF BeaconOK
  <2>1. CASE toAdd = NoRecord
    <3>1. beacon.records \o <<>> = beacon.records
      BY <2>0 DEF IsSeq
    <3> QED BY <1>1, <1>3, <2>1, <3>1, QuietPrivacy DEF NoRecord
  <2>2. CASE toAdd = <<toAdd[1]>> /\ RecordFits(toAdd[1])
    <3>1. PICK r : r = toAdd[1]
      OBVIOUS
    <3>2. PICK s : s = beacon.records \o <<r>>
      OBVIOUS
    <3>3. /\ Len(s) = Len(beacon.records) + 1 /\ s[Len(beacon.records) + 1] = r
          /\ \A i \in 1..Len(beacon.records) : s[i] = beacon.records[i]
          /\ Len(beacon.records) \in Nat
      BY ZenonT(60), <2>0, <3>2, JoinFacts, SeqFacts
    <3>4. \A i \in 1..Len(s) : i \in 1..Len(beacon.records) \/ i = Len(beacon.records) + 1
      BY <3>3
    <3>5. \A i \in 1..Len(s) : RecordFits(s[i])
      BY <2>2, <3>1, <3>3, <3>4 DEF PrivacyInv
    <3>6. beacon'.records = s
      BY <1>3, <2>2, <3>1, <3>2
    <3>7. \A i \in 1..Len(s) : RecordFits(s[i])'
      BY <1>1, <3>5 DEF RecordFits, Permitted
    <3>8. \A i \in 1..Len(beacon'.records) : RecordFits(beacon.records[i])'
      BY <3>6, <3>7 DEF RecordFits, Permitted
    <3>9. \A u \in Threads : \A i \in 1..Len(stack'[u]) : ToAddFits(stack'[u][i].record)
      BY DEF PrivacyInv, OldOr
    <3>10. \A u \in Threads : \A i \in 1..Len(stack'[u]) : ToAddFits(stack[u][i].record)'
      BY <1>1, <3>9 DEF ToAddFits, RecordFits, Permitted
    <3> QED BY <3>8, <3>10 DEF PrivacyInv
  <2> QED BY <2>1, <2>2 DEF ToAddFits
<1> QED BY <1>1, <1>2, <1>3

(* A type of record, other than an event, that the privacy settings permit. *)
TypeAllowed(type) ==
    IF type = "FAILURE_CRASH" THEN beacon.privacy.crashes = "OPT_IN_CRASHES"
    ELSE \/ type = "SESSION_START"
         \/ type \in Performance /\ beacon.privacy.level # "OFF"
         \/ beacon.privacy.level = "USER_BEHAVIOR"

(* An event that takes a number is built only if it is allowed. *)
LEMMA EventAllowed ==
    ASSUME NEW allowed, NEW type, type # "EVENT", allowed => TypeAllowed(type),
           NEW who, NEW parent
    PROVE  ToAddFits(buildEvent(beacon, allowed, type, who, parent).record)
<1>1. PICK r : r = [type |-> type, who |-> who, parent |-> parent,
                    start |-> createSequenceNumber(beacon), end |-> 0, content |-> <<>>]
  OBVIOUS
<1>2. PICK b : b = [beacon EXCEPT !.mSequenceNumber = createSequenceNumber(beacon)]
  OBVIOUS
<1>3. PICK built : built = buildEvent(beacon, allowed, type, who, parent)
  OBVIOUS
<1>4. built = IF allowed THEN Built(b, <<r>>) ELSE Built(beacon, NoRecord)
  BY <1>1, <1>2, <1>3, Zenon DEF buildEvent, Record
<1>5. CASE allowed
  <2>1. built.record = <<r>> /\ r.type = type
    BY <1>1, <1>4, <1>5 DEF Built
  <2>2. built.record = <<built.record[1]>> /\ built.record[1].type = type
    BY <2>1
  <2> QED BY <1>3, <1>5, <2>2 DEF ToAddFits, RecordFits, Permitted, TypeAllowed
<1>6. CASE ~allowed
  <2>1. built.record = NoRecord
    BY <1>4, <1>6 DEF Built
  <2> QED BY <1>3, <2>1 DEF ToAddFits
<1> QED BY <1>5, <1>6

(* The events whose attributes the application gives. *)
LEMMA PayloadAllowed ==
    ASSUME NEW s, NEW attributes, NEW tooLong, EventFits(attributes),
           TypeOwn(attributes) \/ beacon.privacy.level = "USER_BEHAVIOR"
    PROVE  ToAddFits(sendEventPayload(beacon, s, attributes, tooLong).record)
<1>1. PICK built : built = sendEventPayload(beacon, s, attributes, tooLong)
  OBVIOUS
<1>2. CASE tooLong
  <2>1. built.record = NoRecord
    BY <1>1, <1>2 DEF sendEventPayload, Built
  <2> QED BY <1>1, <2>1 DEF ToAddFits
<1>3. CASE ~tooLong
  <2>1. PICK r : r = [type |-> "EVENT", who |-> s, parent |-> 0, start |-> 0, end |-> 0,
                      content |-> attributes]
    OBVIOUS
  <2>2. built.record = <<r>> /\ r.type = "EVENT" /\ r.content = attributes
    BY <1>1, <1>3, <2>1 DEF sendEventPayload, Built, Record
  <2>3. /\ built.record = <<built.record[1]>> /\ built.record[1].type = "EVENT"
        /\ built.record[1].content = attributes
    BY <2>2
  <2> QED BY <1>1, <2>3 DEF ToAddFits, RecordFits, Permitted, BizEvent, TypeOwn
<1> QED BY <1>2, <1>3

(* A report: the record to add is allowed. *)
LEMMA ReportPrivacy ==
    ASSUME LeavingInv, PrivacyInv, NEW t \in Threads, NEW o, NEW built, Builds(built),
           ToAddFits(built.record), Report(t, o, built)
    PROVE  PrivacyInv'
<1>1. DOMAIN beacon = BeaconFields
  BY DEF LeavingInv, ActionsTypeOK, BeaconOK
<1>2. \/ beacon' = beacon
      \/ beacon' = [beacon EXCEPT !.mSequenceNumber = createSequenceNumber(beacon)]
  BY DEF Builds, Report
<1>3. beacon'.privacy = beacon.privacy /\ beacon'.records = beacon.records
  BY <1>1, <1>2 DEF BeaconFields
<1>4. PICK f : f = [Frame("addReport", o) EXCEPT !.holds = TRUE, !.record = built.record]
  OBVIOUS
<1>5. f.record = built.record
  BY <1>4 DEF Frame
<1>6. CASE stack' = stack
  <2>1. OldOr({})
    BY <1>6, OldOrNew DEF LeavingInv
  <2> QED BY <1>3, <2>1, QuietPrivacy
<1>7. CASE stack' = [stack EXCEPT ![t] = <<f>>]
  <2>1. Pushed(t, f)
    BY <1>7, PushedFacts DEF LeavingInv
  <2>2. OldOr({f})
    BY <2>1, OldOrNew DEF LeavingInv
  <2> QED BY <1>3, <1>5, <2>2, QuietPrivacy
<1> QED BY <1>4, <1>6, <1>7 DEF Report

(* The reports of an action. *)
LEMMA ActionReportPrivacy ==
    ASSUME LeavingInv, PrivacyInv, NEW t \in Threads, NEW a \in Actions, ActionReport(t, a)
    PROVE  PrivacyInv'
<1> DEFINE id == obj[a].id
<1>1. \A built : Builds(built) /\ ToAddFits(built.record) /\ Report(t, a, built) => PrivacyInv'
  BY ReportPrivacy
<1>2. \A allowed, type : type \notin EndTypes =>
          Builds(buildEvent(beacon, allowed, type, a, id))
  BY EventBuilds
<1>3. \A allowed, type : type # "EVENT" /\ (allowed => TypeAllowed(type)) =>
          ToAddFits(buildEvent(beacon, allowed, type, a, id).record)
  BY EventAllowed
<1>4. /\ "NAMED_EVENT" \notin EndTypes /\ "VALUE_INT" \notin EndTypes
      /\ "VALUE_DOUBLE" \notin EndTypes /\ "VALUE_STRING" \notin EndTypes
      /\ "FAILURE_ERROR" \notin EndTypes /\ "FAILURE_EXCEPTION" \notin EndTypes
  BY DEF EndTypes
<1>5. /\ "NAMED_EVENT" # "EVENT" /\ "VALUE_INT" # "EVENT" /\ "VALUE_DOUBLE" # "EVENT"
      /\ "VALUE_STRING" # "EVENT" /\ "FAILURE_ERROR" # "EVENT" /\ "FAILURE_EXCEPTION" # "EVENT"
  OBVIOUS
<1>6. isValueReportingAllowed(beacon.privacy) =>
        TypeAllowed("VALUE_INT") /\ TypeAllowed("VALUE_DOUBLE") /\ TypeAllowed("VALUE_STRING")
  BY DEF isValueReportingAllowed, TypeAllowed
<1>7. isEventReportingAllowed(beacon.privacy) => TypeAllowed("NAMED_EVENT")
  BY DEF isEventReportingAllowed, TypeAllowed
<1>8. isErrorReportingAllowed(beacon.privacy) =>
        TypeAllowed("FAILURE_ERROR") /\ TypeAllowed("FAILURE_EXCEPTION")
  BY DEF isErrorReportingAllowed, TypeAllowed, Performance
<1> HIDE DEF id
<1>9. CASE Report(t, a, reportEvent(beacon, a, id))
  BY <1>1, <1>2, <1>3, <1>4, <1>5, <1>7, <1>9, Zenon DEF reportEvent
<1>10. CASE Report(t, a, reportIntValue(beacon, a, id))
  BY <1>1, <1>2, <1>3, <1>4, <1>5, <1>6, <1>10, Zenon DEF reportIntValue
<1>11. CASE Report(t, a, reportDoubleValue(beacon, a, id))
  BY <1>1, <1>2, <1>3, <1>4, <1>5, <1>6, <1>11, Zenon DEF reportDoubleValue
<1>12. CASE Report(t, a, reportStringValue(beacon, a, id))
  BY <1>1, <1>2, <1>3, <1>4, <1>5, <1>6, <1>12, Zenon DEF reportStringValue
<1>13. CASE Report(t, a, reportErrorCode(beacon, a, id))
  BY <1>1, <1>2, <1>3, <1>4, <1>5, <1>8, <1>13, Zenon DEF reportErrorCode
<1>14. CASE Report(t, a, reportErrorCause(beacon, a, id))
  BY <1>1, <1>2, <1>3, <1>4, <1>5, <1>8, <1>14, Zenon DEF reportErrorCause
<1> QED BY <1>9, <1>10, <1>11, <1>12, <1>13, <1>14 DEF ActionReport, id

(* The reports of the session. *)
LEMMA SessionReportPrivacy ==
    ASSUME LeavingInv, PrivacyInv, NEW t \in Threads, SessionReport(t)
    PROVE  PrivacyInv'
<1>1. \A built : Builds(built) /\ ToAddFits(built.record) /\ Report(t, Session, built) =>
                   PrivacyInv'
  BY ReportPrivacy
<1>2. Builds(identifyUser(beacon, Session)) /\ Builds(reportCrash(beacon, Session))
  <2>1. "IDENTIFY_USER" \notin EndTypes /\ "FAILURE_CRASH" \notin EndTypes
    BY DEF EndTypes
  <2> QED BY <2>1, EventBuilds, Zenon DEF identifyUser, reportCrash
<1>3. /\ ToAddFits(identifyUser(beacon, Session).record)
      /\ ToAddFits(reportCrash(beacon, Session).record)
  <2>1. \A allowed, type : type # "EVENT" /\ (allowed => TypeAllowed(type)) =>
            ToAddFits(buildEvent(beacon, allowed, type, Session, 0).record)
    BY EventAllowed
  <2>2. isUserIdentificationAllowed(beacon.privacy) => TypeAllowed("IDENTIFY_USER")
    BY DEF isUserIdentificationAllowed, TypeAllowed
  <2>3. isCrashReportingAllowed(beacon.privacy) => TypeAllowed("FAILURE_CRASH")
    BY DEF isCrashReportingAllowed, TypeAllowed, Performance
  <2>4. "IDENTIFY_USER" # "EVENT" /\ "FAILURE_CRASH" # "EVENT"
    OBVIOUS
  <2> QED BY <2>1, <2>2, <2>3, <2>4, Zenon DEF identifyUser, reportCrash
<1>4. ASSUME NEW attributes \in UserAttributes, NEW tooLong
      PROVE  /\ Builds(sendBizEvent(beacon, Session, attributes, tooLong))
             /\ Builds(sendEvent(beacon, Session, attributes, tooLong))
             /\ ToAddFits(sendBizEvent(beacon, Session, attributes, tooLong).record)
             /\ ToAddFits(sendEvent(beacon, Session, attributes, tooLong).record)
  <2>1. \A all : /\ Builds(sendEventPayload(beacon, Session, all, tooLong))
                 /\ /\ EventFits(all)
                    /\ TypeOwn(all) \/ beacon.privacy.level = "USER_BEHAVIOR"
                    => ToAddFits(sendEventPayload(beacon, Session, all, tooLong).record)
    BY PayloadBuilds, PayloadAllowed
  <2>2. Builds(Built(beacon, NoRecord)) /\ ToAddFits(Built(beacon, NoRecord).record)
    BY PayloadBuilds DEF Built, ToAddFits
  <2>3. PICK all : all = LET named == addNonOverridableAttribute(generateEventPayload(attributes),
                                                                 "event.name")
                         IN MarkNonFinite(addOverridableAttribute(named, "event.kind"))
    OBVIOUS
  <2>4. EventFits(all)
    BY <2>3, EventContent, Zenon
  <2>5. \/ /\ sendEvent(beacon, Session, attributes, tooLong)
                = sendEventPayload(beacon, Session, all, tooLong)
           /\ isEventReportingAllowed(beacon.privacy)
        \/ sendEvent(beacon, Session, attributes, tooLong) = Built(beacon, NoRecord)
    BY <2>3, Zenon DEF sendEvent
  <2>6. PICK biz : biz = LET typed == addNonOverridableAttribute(attributes, "event.type")
                             clean == addNonOverridableAttribute(
                                        cleanReservedInternalAttributes(typed),
                                        "dt.rum.custom_attributes_size")
                             every == addNonOverridableAttribute(generateEventPayload(clean),
                                                                 "event.kind")
                         IN MarkNonFinite(every)
    OBVIOUS
  <2>7. EventFits(biz) /\ TypeOwn(biz)
    BY <2>6, BizEventContent, Zenon
  <2>8. \/ sendBizEvent(beacon, Session, attributes, tooLong)
             = sendEventPayload(beacon, Session, biz, tooLong)
        \/ sendBizEvent(beacon, Session, attributes, tooLong) = Built(beacon, NoRecord)
    BY <2>6, Zenon DEF sendBizEvent
  <2>9. isEventReportingAllowed(beacon.privacy) => beacon.privacy.level = "USER_BEHAVIOR"
    BY DEF isEventReportingAllowed
  <2> QED BY <2>1, <2>2, <2>4, <2>5, <2>7, <2>8, <2>9
<1>5. CASE Report(t, Session, identifyUser(beacon, Session))
  BY <1>1, <1>2, <1>3, <1>5
<1>6. CASE Report(t, Session, reportCrash(beacon, Session))
  BY <1>1, <1>2, <1>3, <1>6
<1>7. ASSUME NEW attributes \in UserAttributes, NEW tooLong,
             \/ Report(t, Session, sendBizEvent(beacon, Session, attributes, tooLong))
             \/ Report(t, Session, sendEvent(beacon, Session, attributes, tooLong))
      PROVE  PrivacyInv'
  BY <1>1, <1>4, <1>7, Zenon
<1> QED BY <1>5, <1>6, <1>7, Zenon DEF SessionReport

(* The beacon takes numbers and is told things, and its settings stay. *)
LEMMA SameRecords ==
    ASSUME LeavingInv, NEW number, NEW id, NEW s, NEW config,
           \/ beacon' = beacon
           \/ beacon' = [beacon EXCEPT !.mSequenceNumber = number]
           \/ beacon' = [beacon EXCEPT !.mSequenceNumber = number, !.mID = id]
           \/ beacon' = [beacon EXCEPT !.supplement = s]
           \/ beacon' = [beacon EXCEPT !.config = config]
    PROVE  beacon'.privacy = beacon.privacy /\ beacon'.records = beacon.records
<1>1. DOMAIN beacon = BeaconFields
  BY DEF LeavingInv, ActionsTypeOK, BeaconOK
<1> QED BY <1>1 DEF BeaconFields

(* A step that changes no call and adds no record. *)
LEMMA StillPrivacy ==
    ASSUME LeavingInv, PrivacyInv, NEW t \in Threads, stack' = stack,
           beacon'.privacy = beacon.privacy, beacon'.records = beacon.records
    PROVE  PrivacyInv'
<1>1. OldOr({})
  BY OldOrNew DEF LeavingInv
<1> QED BY <1>1, QuietPrivacy

(* A call that begins has nothing to add yet. *)
LEMMA BeginPrivacy ==
    ASSUME LeavingInv, PrivacyInv, NEW t \in Threads, NEW f, f.record = NoRecord,
           stack' = [stack EXCEPT ![t] = <<f>>] \/ stack' = [stack EXCEPT ![t] = Append(<<>>, f)],
           beacon'.privacy = beacon.privacy, beacon'.records = beacon.records
    PROVE  PrivacyInv'
<1>1. Pushed(t, f)
  BY PushedFacts DEF LeavingInv
<1>2. OldOr({f})
  BY <1>1, OldOrNew DEF LeavingInv
<1>3. ToAddFits(f.record)
  BY DEF ToAddFits
<1> QED BY <1>2, <1>3, QuietPrivacy

(* What the call on top has to add. *)
LEMMA TopToAdd ==
    ASSUME LeavingInv, PrivacyInv, NEW t \in Threads, ~Idle(t)
    PROVE  Busy(t) /\ FrameOK(Top(t)) /\ ToAddFits(Top(t).record)
<1>1. Busy(t) /\ FrameOK(Top(t))
  BY BusyFacts DEF LeavingInv
<1>2. Len(stack[t]) \in 1..Len(stack[t]) /\ Top(t) = stack[t][Len(stack[t])]
  BY <1>1 DEF Busy
<1> QED BY <1>1, <1>2 DEF PrivacyInv

(* The call on top goes on. *)
LEMMA GoOnPrivacy ==
    ASSUME LeavingInv, PrivacyInv, NEW t \in Threads, ~Idle(t), NEW g, ToAddFits(g.record),
           stack' = Replace(t, g),
           \/ beacon'.privacy = beacon.privacy /\ beacon'.records = beacon.records
           \/ beacon' = addEventData(beacon, Top(t).record)
    PROVE  PrivacyInv'
<1>1. Replaced(t, g) /\ Busy(t) /\ BeaconOK(beacon) /\ ToAddFits(Top(t).record)
  BY ReplacedFacts, TopToAdd DEF LeavingInv, ActionsTypeOK
<1>2. OldOr({g})
  BY <1>1, OldOrNew DEF LeavingInv
<1>3. CASE beacon'.privacy = beacon.privacy /\ beacon'.records = beacon.records
  BY <1>2, <1>3, QuietPrivacy
<1>4. CASE beacon' = addEventData(beacon, Top(t).record)
  <2>1. PICK toAdd : toAdd = Top(t).record
    OBVIOUS
  <2> QED BY <1>1, <1>2, <1>4, <2>1, AddPrivacy
<1> QED BY <1>3, <1>4

(* New objects, numbers told to a tracer, settings: no call changes. *)
LEMMA StillSteps ==
    ASSUME LeavingInv, PrivacyInv, NEW t \in Threads,
           \/ \E p \in Parents : enterAction(t, p) \/ traceWebRequest(t, p)
           \/ \E w \in Tracers : \E f \in {"bytesSent", "bytesReceived"}, n \in ByteCounts :
                setBytes(t, w, f, n)
           \/ \E what \in {"technology", "carrier", "connection"} : Supplement(t, what)
           \/ \E c \in bound.configurations : updateServerConfiguration(c)
           \/ UNCHANGED vars
    PROVE  PrivacyInv'
<1>1. CASE \E p \in Parents : enterAction(t, p) \/ traceWebRequest(t, p)
  <2>1. PICK number, id : /\ stack' = stack
                          /\ \/ beacon' = [beacon EXCEPT !.mSequenceNumber = number]
                             \/ beacon' = [beacon EXCEPT !.mSequenceNumber = number, !.mID = id]
    BY <1>1 DEF enterAction, traceWebRequest, NewChild
  <2> QED BY <2>1, SameRecords, StillPrivacy
<1>2. CASE \E w \in Tracers : \E f \in {"bytesSent", "bytesReceived"}, n \in ByteCounts :
              setBytes(t, w, f, n)
  BY <1>2, StillPrivacy DEF setBytes
<1>3. CASE \E what \in {"technology", "carrier", "connection"} : Supplement(t, what)
  <2>1. PICK s : stack' = stack /\ beacon' = [beacon EXCEPT !.supplement = s]
    BY <1>3 DEF Supplement
  <2> QED BY <2>1, SameRecords, StillPrivacy
<1>4. CASE \E c \in bound.configurations : updateServerConfiguration(c)
  <2>1. PICK config : stack' = stack /\ beacon' = [beacon EXCEPT !.config = config]
    BY <1>4 DEF updateServerConfiguration
  <2> QED BY <2>1, SameRecords, StillPrivacy
<1>5. CASE UNCHANGED vars
  BY <1>5, StillPrivacy DEF vars
<1> QED BY <1>1, <1>2, <1>3, <1>4, <1>5

(* leaveAction, cancelAction, stop, end and tryEnd. *)
LEMMA BeginSteps ==
    ASSUME LeavingInv, PrivacyInv, NEW t \in Threads,
           \/ \E a \in Actions : leaveAction(t, a) \/ cancelAction(t, a)
           \/ \E w \in Tracers : stop(t, w)
           \/ (\E event \in BOOLEAN : end(t, event)) \/ tryEnd(t)
    PROVE  PrivacyInv'
<1>1. ASSUME NEW a \in Actions, leaveAction(t, a) \/ cancelAction(t, a) PROVE PrivacyInv'
  <2>1. PICK discard : Open(a) /\ doLeaveAction(t, a, discard, <<>>)
    BY <1>1 DEF leaveAction, cancelAction
  <2>2. PICK f : f = [Frame("copy", a) EXCEPT !.discard = discard]
    OBVIOUS
  <2>3. stack' = [stack EXCEPT ![t] = Append(<<>>, f)] /\ beacon' = beacon
    BY <2>1, <2>2 DEF doLeaveAction
  <2>4. f.record = NoRecord
    BY <2>2 DEF Frame
  <2> QED BY <2>3, <2>4, BeginPrivacy
<1>2. ASSUME NEW w \in Tracers, stop(t, w) PROVE PrivacyInv'
  <2>1. PICK f : f = [Frame("record", w) EXCEPT !.discard = FALSE]
    OBVIOUS
  <2>2. PICK number : /\ stack' = [stack EXCEPT ![t] = Append(<<>>, f)]
                      /\ beacon' = [beacon EXCEPT !.mSequenceNumber = number]
    BY <1>2, <2>1 DEF stop, doStop
  <2>3. f.record = NoRecord
    BY <2>1 DEF Frame
  <2> QED BY <2>2, <2>3, SameRecords, BeginPrivacy
<1>3. ASSUME NEW event, end(t, event) PROVE PrivacyInv'
  <2>1. PICK f : f = [Frame("copy", Session) EXCEPT !.event = event]
    OBVIOUS
  <2>2. stack' = [stack EXCEPT ![t] = <<f>>] /\ beacon' = beacon /\ f.record = NoRecord
    BY <1>3, <2>1 DEF end, Frame
  <2> QED BY <2>2, BeginPrivacy
<1>4. CASE tryEnd(t)
  <2>1. PICK f : f = [Frame("copy", Session) EXCEPT !.holds = TRUE]
    OBVIOUS
  <2>2. f.record = NoRecord /\ beacon' = beacon
    BY <1>4, <2>1 DEF tryEnd, Frame
  <2>3. stack' = [stack EXCEPT ![t] = <<f>>] \/ stack' = stack
    BY <1>4, <2>1 DEF tryEnd
  <2> QED BY <2>2, <2>3, BeginPrivacy, StillPrivacy
<1> QED BY <1>1, <1>2, <1>3, <1>4

(* close or cancel of a child. *)
LEMMA CloseChildPrivacy ==
    ASSUME LeavingInv, PrivacyInv, NEW t \in Threads, closeChild(t)
    PROVE  PrivacyInv'
<1>1. PICK f : f = Top(t)
  OBVIOUS
<1>2. PICK c : c = Head(f.todo)
  OBVIOUS
<1>3. PICK g : g = [f EXCEPT !.todo = Tail(f.todo)]
  OBVIOUS
<1> DEFINE below == Append(Front(stack[t]), g)
<1>4. /\ ~Idle(t)
      /\ IF c \in Tracers THEN doStop(t, c, obj[c].responseCode, f.discard, below)
         ELSE doLeaveAction(t, c, f.discard, below)
  BY <1>1, <1>2, <1>3 DEF closeChild, At
<1>5. Busy(t) /\ FrameOK(f) /\ ToAddFits(f.record)
  BY <1>1, <1>4, TopToAdd
<1>6. g.record = f.record
  BY <1>3, <1>5 DEF FrameOK, FrameFields
<1>7. PICK pc : pc = IF c \in Tracers THEN "record" ELSE "copy"
  OBVIOUS
<1>8. PICK h : h = [Frame(pc, c) EXCEPT !.discard = f.discard]
  OBVIOUS
<1>9. h.record = NoRecord
  BY <1>8 DEF Frame
<1>10. stack' = [stack EXCEPT ![t] = below] \/ stack' = [stack EXCEPT ![t] = Append(below, h)]
  BY <1>4, <1>7, <1>8 DEF doStop, doLeaveAction
<1>11. beacon'.privacy = beacon.privacy /\ beacon'.records = beacon.records
  <2>1. PICK number : beacon' = beacon \/ beacon' = [beacon EXCEPT !.mSequenceNumber = number]
    BY <1>4 DEF doStop, doLeaveAction
  <2> QED BY <2>1, SameRecords
<1>12. CASE stack' = [stack EXCEPT ![t] = below]
  <2>1. stack' = Replace(t, g)
    BY <1>12 DEF Replace
  <2> QED BY <1>4, <1>5, <1>6, <1>11, <2>1, GoOnPrivacy
<1>13. CASE stack' = [stack EXCEPT ![t] = Append(below, h)]
  <2>1. PushedOn(t, g, h)
    BY <1>4, <1>13, PushedOnFacts DEF LeavingInv
  <2>2. OldOr({g, h})
    BY <1>5, <2>1, OldOrNew DEF LeavingInv
  <2>3. ToAddFits(g.record) /\ ToAddFits(h.record)
    BY <1>5, <1>6, <1>9 DEF ToAddFits
  <2> QED BY <1>11, <2>2, <2>3, QuietPrivacy
<1> QED BY <1>10, <1>12, <1>13

(* The record that is built when an object is left. *)
LEMMA EndAllowed ==
    ASSUME NEW o, NEW x
    PROVE  /\ ToAddFits(addWebRequest(beacon, o, x).record)
           /\ ToAddFits(addAction(beacon, o, x).record)
           /\ ToAddFits(endSession(beacon, o).record)
           /\ ToAddFits(Built(beacon, NoRecord).record)
<1>1. ASSUME NEW r, r.type \in {"ACTION", "WEBREQUEST"}, beacon.privacy.level # "OFF"
      PROVE  ToAddFits(<<r>>)
  BY <1>1 DEF ToAddFits, RecordFits, Permitted, Performance
<1>2. ToAddFits(Built(beacon, NoRecord).record)
  BY DEF ToAddFits, Built
<1>3. ToAddFits(addWebRequest(beacon, o, x).record)
  <2> DEFINE told == [f \in {"bytesSent", "bytesReceived", "responseCode"} |-> ToInt32(x[f])]
             content == [f \in {h \in DOMAIN told : told[h] > -1} |-> told[f]]
             r == [type |-> "WEBREQUEST", who |-> o, parent |-> x.parentID,
                   start |-> x.start, end |-> x.end, content |-> content]
  <2>1. r.type = "WEBREQUEST"
    OBVIOUS
  <2>2. addWebRequest(beacon, o, x)
          = IF isWebRequestTracingAllowed(beacon.privacy) /\ isDataCapturingEnabled(beacon)
            THEN Built(beacon, <<r>>) ELSE Built(beacon, NoRecord)
    BY Zenon DEF addWebRequest, Record
  <2> HIDE DEF r
  <2>3. CASE isWebRequestTracingAllowed(beacon.privacy) /\ isDataCapturingEnabled(beacon)
    <3>1. addWebRequest(beacon, o, x).record = <<r>>
      BY <2>2, <2>3 DEF Built
    <3>2. ToAddFits(<<r>>)
      BY <1>1, <2>1, <2>3 DEF isWebRequestTracingAllowed
    <3> QED BY <3>1, <3>2
  <2> QED BY <1>2, <2>2, <2>3
<1>4. ToAddFits(addAction(beacon, o, x).record)
  <2> DEFINE r == [type |-> "ACTION", who |-> o, parent |-> x.parentID,
                   start |-> x.start, end |-> x.end, content |-> [id |-> x.id]]
  <2>1. r.type = "ACTION"
    OBVIOUS
  <2>2. addAction(beacon, o, x)
          = IF isActionReportingAllowed(beacon.privacy) /\ isDataCapturingEnabled(beacon)
            THEN Built(beacon, <<r>>) ELSE Built(beacon, NoRecord)
    BY Zenon DEF addAction, Record
  <2> HIDE DEF r
  <2>3. CASE isActionReportingAllowed(beacon.privacy) /\ isDataCapturingEnabled(beacon)
    <3>1. addAction(beacon, o, x).record = <<r>>
      BY <2>2, <2>3 DEF Built
    <3>2. ToAddFits(<<r>>)
      BY <1>1, <2>1, <2>3 DEF isActionReportingAllowed
    <3> QED BY <3>1, <3>2
  <2> QED BY <1>2, <2>2, <2>3
<1>5. ToAddFits(endSession(beacon, o).record)
  <2>1. isSessionReportingAllowed(beacon.privacy) => TypeAllowed("SESSION_END")
    BY DEF isSessionReportingAllowed, TypeAllowed, Performance
  <2>2. "SESSION_END" # "EVENT"
    OBVIOUS
  <2> QED BY <2>1, <2>2, EventAllowed, Zenon DEF endSession
<1> QED BY <1>2, <1>3, <1>4, <1>5

(* The steps of a call that leaves an object, up to its return. *)
LEMMA LeavingSteps ==
    ASSUME LeavingInv, PrivacyInv, NEW t \in Threads,
           \/ getCopyOfChildObjects(t) \/ finish(t) \/ record(t) \/ add(t)
           \/ endEvent(t) \/ addEnd(t)
    PROVE  PrivacyInv'
<1>1. PICK f : f = Top(t)
  OBVIOUS
<1>2. ~Idle(t)
  BY DEF getCopyOfChildObjects, finish, record, add, endEvent, addEnd, ChildrenClosed, At
<1>3. FrameOK(f) /\ ToAddFits(f.record)
  BY <1>1, <1>2, TopToAdd
<1>4. CASE getCopyOfChildObjects(t)
  <2>1. PICK g : g = [f EXCEPT !.pc = "children", !.todo = obj[f.o].mChildren]
    OBVIOUS
  <2>2. stack' = Replace(t, g) /\ beacon' = beacon
    BY <1>1, <1>4, <2>1 DEF getCopyOfChildObjects
  <2>3. g.record = f.record
    BY <1>3, <2>1 DEF FrameOK, FrameFields
  <2> QED BY <1>2, <1>3, <2>2, <2>3, GoOnPrivacy
<1>5. CASE finish(t)
  <2>1. PICK g : g = [f EXCEPT !.pc = "record"]
    OBVIOUS
  <2>2. PICK number : /\ stack' = Replace(t, g)
                      /\ beacon' = [beacon EXCEPT !.mSequenceNumber = number]
    BY <1>1, <1>5, <2>1 DEF finish, Goto
  <2>3. g.record = f.record
    BY <1>3, <2>1 DEF FrameOK, FrameFields
  <2>4. beacon'.privacy = beacon.privacy /\ beacon'.records = beacon.records
    BY <2>2, SameRecords
  <2> QED BY <1>2, <1>3, <2>2, <2>3, <2>4, GoOnPrivacy
<1>6. CASE record(t)
  <2>1. PICK r : r = (IF f.discard THEN Built(beacon, NoRecord)
                      ELSE IF f.o \in Tracers THEN addWebRequest(beacon, f.o, obj[f.o])
                      ELSE addAction(beacon, f.o, obj[f.o])).record
    OBVIOUS
  <2>2. PICK g : g = [f EXCEPT !.record = r, !.pc = IF r = NoRecord THEN "detach" ELSE "add"]
    OBVIOUS
  <2>3. stack' = Replace(t, g) /\ beacon' = beacon
    BY <1>1, <1>6, <2>1, <2>2 DEF record
  <2>4. ToAddFits(r)
    BY <2>1, EndAllowed
  <2>5. g.record = r
    BY <1>3, <2>2 DEF FrameOK, FrameFields
  <2> QED BY <1>2, <2>3, <2>4, <2>5, GoOnPrivacy
<1>7. CASE add(t) \/ addEnd(t)
  <2>1. PICK pc : /\ stack' = Replace(t, [f EXCEPT !.pc = pc])
                  /\ beacon' = addEventData(beacon, Top(t).record)
    BY <1>1, <1>7 DEF add, addEnd, Goto, addActionData
  <2>2. PICK g : g = [f EXCEPT !.pc = pc]
    OBVIOUS
  <2>3. g.record = f.record
    BY <1>3, <2>2 DEF FrameOK, FrameFields
  <2> QED BY <1>2, <1>3, <2>1, <2>2, <2>3, GoOnPrivacy
<1>8. CASE endEvent(t)
  <2>1. PICK built : built = IF f.event THEN endSession(beacon, Session)
                             ELSE Built(beacon, NoRecord)
    OBVIOUS
  <2>2. PICK g : g = [f EXCEPT !.record = built.record,
                               !.pc = IF built.record = NoRecord THEN "finished" ELSE "addEnd"]
    OBVIOUS
  <2>3. stack' = Replace(t, g) /\ beacon' = built.beacon
    BY <1>1, <1>8, <2>1, <2>2 DEF endEvent
  <2>4. ToAddFits(built.record)
    BY <2>1, EndAllowed
  <2>5. g.record = built.record
    BY <1>3, <2>2 DEF FrameOK, FrameFields
  <2>6. PICK number : beacon' = beacon \/ beacon' = [beacon EXCEPT !.mSequenceNumber = number]
    <3>1. \/ built = Built([beacon EXCEPT !.mSequenceNumber = createSequenceNumber(beacon)],
                           Record("SESSION_END", Session, 0, createSequenceNumber(beacon), 0, <<>>))
          \/ built = Built(beacon, NoRecord)
      BY <2>1, Zenon DEF endSession, buildEvent
    <3>2. PICK r : r = Record("SESSION_END", Session, 0, createSequenceNumber(beacon), 0, <<>>)
      OBVIOUS
    <3>3. PICK b : b = [beacon EXCEPT !.mSequenceNumber = createSequenceNumber(beacon)]
      OBVIOUS
    <3>4. built = Built(b, r) \/ built = Built(beacon, NoRecord)
      BY <3>1, <3>2, <3>3, Zenon
    <3>5. built.beacon = b \/ built.beacon = beacon
      BY <3>4 DEF Built
    <3> QED BY <2>3, <3>3, <3>5, Zenon
  <2>7. beacon'.privacy = beacon.privacy /\ beacon'.records = beacon.records
    BY <2>6, SameRecords
  <2> QED BY <1>2, <2>3, <2>4, <2>5, <2>7, GoOnPrivacy
<1> QED BY <1>4, <1>5, <1>6, <1>7, <1>8

(* The returns of a call: a report, a child that is closed, the session. *)
LEMMA ReturnSteps ==
    ASSUME LeavingInv, PrivacyInv, NEW t \in Threads,
           addReport(t) \/ onChildClosed(t) \/ markAsFinished(t)
    PROVE  PrivacyInv'
<1>1. ~Idle(t)
  BY DEF addReport, onChildClosed, markAsFinished, At
<1>2. Busy(t) /\ ToAddFits(Top(t).record) /\ BeaconOK(beacon)
  BY <1>1, TopToAdd DEF LeavingInv, ActionsTypeOK
<1>3. CASE addReport(t)
  <2>1. stack' = [stack EXCEPT ![t] = <<>>] /\ DOMAIN stack = Threads
    BY <1>3 DEF addReport, LeavingInv, ActionsTypeOK
  <2>2. OldOr({})
    <3>1. stack'[t] = <<>> /\ Len(<<>>) = 0 /\ \A u \in Threads : u # t => stack'[u] = stack[u]
      BY <2>1, ShortSeqs
    <3> QED BY <3>1 DEF OldOr
  <2>3. PICK toAdd : toAdd = Top(t).record
    OBVIOUS
  <2>4. beacon' = addEventData(beacon, toAdd)
    BY <1>3, <2>3 DEF addReport
  <2> QED BY <1>2, <2>2, <2>3, <2>4, AddPrivacy
<1>4. CASE onChildClosed(t)
  <2>1. PICK h : h = [Frame("copy", Session) EXCEPT !.event = TRUE, !.holds = TRUE]
    OBVIOUS
  <2>2. beacon' = beacon
    BY <1>4 DEF onChildClosed
  <2>3. \/ stack' = [stack EXCEPT ![t] = Append(Front(@), h)]
        \/ stack' = [stack EXCEPT ![t] = Front(@)]
    <3>1. PICK ends : stack' = [stack EXCEPT ![t] = IF ends THEN Append(Front(@), h) ELSE Front(@)]
      BY <1>4, <2>1 DEF onChildClosed
    <3> QED BY <3>1
  <2>4. ToAddFits(h.record)
    <3>1. h.record = NoRecord
      BY <2>1 DEF Frame
    <3> QED BY <3>1 DEF ToAddFits
  <2>5. CASE stack' = [stack EXCEPT ![t] = Append(Front(@), h)]
    <3>1. stack' = Replace(t, h)
      BY <2>5 DEF Replace
    <3> QED BY <1>1, <2>2, <2>4, <3>1, GoOnPrivacy
  <2>6. CASE stack' = [stack EXCEPT ![t] = Front(@)]
    <3>1. Popped(t)
      BY <1>1, <2>6, PoppedFacts DEF LeavingInv
    <3>2. OldOr({})
      BY <1>2, <3>1, OldOrNew DEF LeavingInv
    <3> QED BY <2>2, <3>2, QuietPrivacy
  <2> QED BY <2>3, <2>5, <2>6
<1>5. CASE markAsFinished(t)
  <2>1. stack' = [stack EXCEPT ![t] = Front(@)] /\ beacon' = beacon
    BY <1>5 DEF markAsFinished
  <2>2. Popped(t)
    BY <1>1, <2>1, PoppedFacts DEF LeavingInv
  <2>3. OldOr({})
    BY <1>2, <2>2, OldOrNew DEF LeavingInv
  <2> QED BY <2>1, <2>3, QuietPrivacy
<1> QED BY <1>3, <1>4, <1>5

(* Every step keeps what is recorded and to be recorded allowed. *)
LEMMA PrivacyStays ==
    ASSUME LeavingInv, PrivacyInv, [Next]_vars
    PROVE  PrivacyInv'
<1>1. ASSUME NEW t \in Threads, Call(t) PROVE PrivacyInv'
  <2>1. \A p \in {Session} \cup Actions : p \in Parents
    BY DEF Parents
  <2>2. CASE \E p \in {Session} \cup Actions : enterAction(t, p) \/ traceWebRequest(t, p)
    BY <2>1, <2>2, StillSteps, Zenon
  <2>3. CASE \E a \in Actions : ActionReport(t, a) \/ leaveAction(t, a) \/ cancelAction(t, a)
    BY <2>3, ActionReportPrivacy, BeginSteps, Zenon
  <2>4. CASE \E w \in Tracers : \/ stop(t, w)
                                \/ \E f \in {"bytesSent", "bytesReceived"}, n \in ByteCounts :
                                     setBytes(t, w, f, n)
    BY <2>4, BeginSteps, StillSteps, Zenon
  <2>5. CASE SessionReport(t)
    BY <2>5, SessionReportPrivacy
  <2>6. CASE \E what \in {"technology", "carrier", "connection"} : Supplement(t, what)
    BY <2>6, StillSteps, Zenon
  <2>7. CASE (\E event \in BOOLEAN : end(t, event)) \/ tryEnd(t)
    BY <2>7, BeginSteps, Zenon
  <2> QED BY <1>1, <2>2, <2>3, <2>4, <2>5, <2>6, <2>7, Zenon DEF Call
<1>2. ASSUME NEW t \in Threads, InCall(t) PROVE PrivacyInv'
  BY <1>2, LeavingSteps, CloseChildPrivacy, ReturnSteps, Zenon DEF InCall
<1>3. CASE (\E c \in bound.configurations : updateServerConfiguration(c)) \/ UNCHANGED vars
  <2>1. /\ stack' = stack /\ beacon'.privacy = beacon.privacy
        /\ beacon'.records = beacon.records
    <3>1. PICK config : /\ stack' = stack
                        /\ beacon' = beacon \/ beacon' = [beacon EXCEPT !.config = config]
      BY <1>3 DEF updateServerConfiguration, vars
    <3> QED BY <3>1, SameRecords
  <2>2. OldOr({})
    BY <2>1 DEF OldOr
  <2> QED BY <2>1, <2>2, QuietPrivacy
<1> QED BY <1>1, <1>2, <1>3 DEF Next

(***************************************************************************)
(* Only what the privacy settings permit is recorded, whichever thread     *)
(* reports it and whatever the server configures, and no attribute of the  *)
(* application passes for one of OpenKit's own.                            *)
(***************************************************************************)
THEOREM RecordsAllowed == Spec => []PrivacyKept
<1>1. Init => LeavingInv /\ PrivacyInv
  <2> SUFFICES ASSUME Init PROVE LeavingInv /\ PrivacyInv
    OBVIOUS
  <2>1. LeavingInv /\ \A i \in 1..Len(beacon.records) : beacon.records[i].type = "SESSION_START"
    BY LeavingAtFirst, InitialBeacon
  <2>2. \A u \in Threads : Len(stack[u]) = 0
    BY ShortSeqs DEF Init
  <2> QED BY <2>1, <2>2 DEF PrivacyInv, RecordFits, Permitted
<1>2. LeavingInv /\ PrivacyInv /\ [Next]_vars => PrivacyInv'
  BY PrivacyStays
<1>3. ASSUME LeavingInv, PrivacyInv PROVE PrivacyKept
  <2>1. DOMAIN beacon.records = 1..Len(beacon.records)
    BY <1>3, SeqFacts DEF LeavingInv, ActionsTypeOK, BeaconOK
  <2>2. \A i \in DOMAIN beacon.records : RecordFits(beacon.records[i])
    BY <1>3, <2>1 DEF PrivacyInv
  <2> QED BY <2>2, Zenon DEF PrivacyKept, RecordFits, EventFits, BizEvent, TypeOwn
<1> QED BY <1>1, <1>2, <1>3, Leaving, PTL DEF Spec
================================================================================
