-------------------------------- MODULE OpenKit --------------------------------
(***************************************************************************)
(* The life cycle of OpenKit instances in one process: how an instance is  *)
(* built and starts its three threads, how it creates sessions, how it is  *)
(* shut down while other threads create and end sessions, and when it is   *)
(* freed.  Instances are shared pointers: one is freed when no handle of   *)
(* the application, no session in its own list of children and no session  *)
(* its sending thread knows of refers to it any more.  The first instance  *)
(* initialises curl for the process and the last one cleans it up.         *)
(*                                                                         *)
(* What the three threads do is modelled in BeaconCacheEvictor,            *)
(* SessionProxy and BeaconSending; here they only run and stop, and the    *)
(* sending thread sends.  An end of a session is "ending" while the call   *)
(* is under way.                                                           *)
(***************************************************************************)
EXTENDS Naturals, FiniteSets, SequencesExt

CONSTANTS Kits, Sessions, NoKit

VARIABLES kit, session,
          gInstanceCount,
          curl              \* curl_global_init was called and not undone

kitVars == <<kit, session, gInstanceCount, curl>>

(* The threads of an instance, in the order in which shutdown() stops them. *)
ThreadOrder == <<"evictor", "watchdog", "sender">>
Threads == Range(ThreadOrder)

(***************************************************************************)
(* phase: "none", "alive" or "freed".  stage: how far shutdown() has come: *)
(* "marked" is the loop that closes the copied children in toClose; then   *)
(* the thread whose turn it is; "done".  context: the sessions in the list *)
(* of BeaconSendingContext.  thread: each a ThreadSurrogate, "running",    *)
(* "stopping" once it was asked to stop, "stopped", or "lost" when join()  *)
(* gave up waiting for it and it still runs.                               *)
(***************************************************************************)
NoInstance == [phase |-> "none", mIsShutdown |-> FALSE, children |-> {}, context |-> {},
               initialized |-> FALSE, stage |-> "none", toClose |-> {},
               thread |-> [t \in Threads |-> "none"]]

(***************************************************************************)
(* state: "none", "open", "ending" or "finished".  data: something was     *)
(* captured that was neither sent nor dropped.  missed: its end was under  *)
(* way when the sending thread sent what was left.                         *)
(***************************************************************************)
NoSession == [kit |-> NoKit, state |-> "none", data |-> FALSE, missed |-> FALSE]

KitInit ==
    /\ kit = [k \in Kits |-> NoInstance]
    /\ session = [s \in Sessions |-> NoSession]
    /\ gInstanceCount = 0 /\ curl = FALSE

Alive(k) == kit[k].phase = "alive"
SessionsOf(k) == {s \in Sessions : session[s].kit = k}

(***************************************************************************)
(* The constructor with globalInit(), then initialize().                   *)
(***************************************************************************)
globalInit ==
    /\ gInstanceCount' = gInstanceCount + 1
    /\ curl' = (curl \/ gInstanceCount = 0)

build(k) ==
    /\ kit[k].phase = "none"
    /\ kit' = [kit EXCEPT ![k] = [NoInstance EXCEPT !.phase = "alive",
                                    !.thread = [t \in Threads |-> "running"]]]
    /\ globalInit
    /\ UNCHANGED session

(* Mutant: the clean-up does not ask whether other instances exist. *)
globalShutdown_Always(n) ==
    /\ gInstanceCount' = gInstanceCount - n
    /\ curl' = (curl /\ n = 0)

(* The destructor of n instances. *)
globalShutdown(n) ==
    /\ gInstanceCount' = gInstanceCount - n
    /\ curl' = (curl /\ (n = 0 \/ gInstanceCount - n > 0))

(***************************************************************************)
(* A step after which the instances are as in K, and the application has   *)
(* references to those in held: what nothing refers to any more is freed.  *)
(***************************************************************************)
Referenced(i) == i.children # {} \/ i.context # {}

Release(K, held) ==
    LET dead == {k \in Kits : K[k].phase = "alive" /\ k \notin held /\ ~Referenced(K[k])}
    IN /\ kit' = [k \in Kits |-> IF k \in dead THEN [K[k] EXCEPT !.phase = "freed"] ELSE K[k]]
       /\ globalShutdown(Cardinality(dead))

(* A step of one thread that frees no instance. *)
Keep(K) == kit' = K /\ UNCHANGED <<gInstanceCount, curl>>

(* Mutant: mIsShutdown is tested before mMutex is taken: it may be set by now. *)
createSession_Unchecked(k, s) ==
    /\ Keep([kit EXCEPT ![k].children = @ \cup {s}, ![k].context = @ \cup {s}])
    /\ session' = [session EXCEPT ![s] = [kit |-> k, state |-> "open", data |-> TRUE,
                                          missed |-> FALSE]]

(***************************************************************************)
(* createSession(): under mMutex from the test of mIsShutdown to the entry *)
(* in the list of children.  The new session starts with a session start   *)
(* event, and the sending thread gets to know it.  After shutdown() it is  *)
(* the NullSession, which refers to nothing.                               *)
(***************************************************************************)
createSession(k, s) ==
    /\ ~kit[k].mIsShutdown
    /\ Keep([kit EXCEPT ![k].children = @ \cup {s}, ![k].context = @ \cup {s}])
    /\ session' = [session EXCEPT ![s] = [kit |-> k, state |-> "open", data |-> TRUE,
                                          missed |-> FALSE]]

(***************************************************************************)
(* SessionProxy.end(): the first caller goes on, then the session ends     *)
(* with its end event and tells its parent.  onChildClosed() takes mMutex. *)
(***************************************************************************)
end(s) ==
    /\ session[s].state = "open"
    /\ session' = [session EXCEPT ![s].state = "ending"]

onChildClosed(K, s) == [K EXCEPT ![session[s].kit].children = @ \ {s}]

Finished(s) == [session EXCEPT ![s].state = "finished", ![s].data = TRUE]

(***************************************************************************)
(* shutdown(): mark the instance under mMutex, copy the children, close    *)
(* each, then stop the threads one after the other.                        *)
(***************************************************************************)
shutdown(k) ==
    /\ ~kit[k].mIsShutdown
    /\ Keep([kit EXCEPT ![k].mIsShutdown = TRUE, ![k].stage = "marked",
                        ![k].toClose = kit[k].children])
    /\ UNCHANGED session

(* close() of a child: nothing if another thread is ending or has ended it. *)
closeChild(k, s) ==
    /\ kit[k].stage = "marked" /\ s \in kit[k].toClose
    /\ LET K == [kit EXCEPT ![k].toClose = @ \ {s}]
       IN IF session[s].state = "open"
          THEN Keep(onChildClosed(K, s)) /\ session' = Finished(s)
          ELSE Keep(K) /\ UNCHANGED session

NextStage(x) ==
    CASE x = "marked" -> "evictor" [] x = "evictor" -> "watchdog"
      [] x = "watchdog" -> "sender" [] x = "sender" -> "done"

(* stop(), shutdown() of the three: ask the thread to stop if it runs. *)
requestStop(k, t) ==
    /\ \/ kit[k].stage = "marked" /\ kit[k].toClose = {}
       \/ kit[k].stage \in Threads /\ kit[k].thread[kit[k].stage] # "stopping"
    /\ t = NextStage(kit[k].stage)
    /\ Keep([kit EXCEPT ![k].stage = t, ![k].thread[t] = IF @ = "running" THEN "stopping" ELSE @])
    /\ UNCHANGED session

(* Mutant: wait for the thread, however long it takes. *)
join_Forever(k) == UNCHANGED kitVars /\ FALSE

(***************************************************************************)
(* join(): returns when the thread has stopped or the time is over: 2 s    *)
(* for the first two, 10 s for the sending thread, whose request may take  *)
(* 30 s.                                                                   *)
(***************************************************************************)
join(k) ==
    LET t == kit[k].stage
    IN /\ t \in Threads /\ kit[k].thread[t] = "stopping"
       /\ Keep([kit EXCEPT ![k].thread[t] = "lost"])
       /\ UNCHANGED session

shutdownReturns(k) ==
    /\ kit[k].stage = "sender"
    /\ kit[k].thread["sender"] \in {"stopped", "lost"}

(***************************************************************************)
(* The threads.  The first two just stop.  The sending thread gets its     *)
(* first answer, sends the data of sessions and forgets the finished ones. *)
(***************************************************************************)
threadEnds(k, t) ==
    /\ t # "sender" /\ kit[k].thread[t] \in {"stopping", "lost"}
    /\ Keep([kit EXCEPT ![k].thread[t] = "stopped"])
    /\ UNCHANGED session

initCompleted(k) ==
    /\ ~kit[k].initialized /\ kit[k].thread["sender"] = "running"
    /\ Keep([kit EXCEPT ![k].initialized = TRUE])
    /\ UNCHANGED session

sendBeacon(k, s, held) ==
    /\ kit[k].thread["sender"] = "running" /\ kit[k].initialized /\ s \in kit[k].context
    /\ session[s].data
    /\ session' = [session EXCEPT ![s].data = FALSE]
    /\ Release(IF session[s].state = "finished" THEN [kit EXCEPT ![k].context = @ \ {s}] ELSE kit,
               held)

(***************************************************************************)
(* The end of the sending thread.  Before the first answer it goes to the  *)
(* terminal state and keeps its sessions.  Later it sends or drops the     *)
(* finished sessions and forgets them; a session whose end is under way is *)
(* not finished yet and stays.                                             *)
(***************************************************************************)
Flushed(k) == IF kit[k].initialized THEN {s \in kit[k].context : session[s].state = "finished"}
              ELSE {}

senderEnds(k, held) ==
    /\ kit[k].thread["sender"] \in {"stopping", "lost"}
    /\ Release([kit EXCEPT ![k].thread["sender"] = "stopped", ![k].context = @ \ Flushed(k)], held)
    /\ session' = [s \in Sessions |->
                     IF s \in Flushed(k) THEN [session[s] EXCEPT !.data = FALSE]
                     ELSE IF s \in kit[k].context /\ session[s].state = "ending"
                          THEN [session[s] EXCEPT !.missed = TRUE] ELSE session[s]]
-----------------------------------------------------------------------------
(***************************************************************************)
(* Once shutdown() has returned, no session of the instance is open: each  *)
(* is finished or its end is under way in another thread, however          *)
(* createSession() and the end of sessions interleaved with shutdown().    *)
(* And if the sending thread was initialised and stopped in time, nothing  *)
(* captured is left, except in a session whose end was under way.          *)
(***************************************************************************)
ShutdownEndsAndSends ==
    \A k \in Kits : kit[k].stage = "done" =>
        \A s \in SessionsOf(k) :
           /\ session[s].state # "open"
           /\ (kit[k].initialized /\ kit[k].thread["sender"] = "stopped" /\ session[s].data)
                 => session[s].missed

(***************************************************************************)
(* A thread that runs has its instance, and curl: an instance is freed     *)
(* with a thread still running only when join() gave up waiting for that   *)
(* thread, and curl is cleaned up only when no other instance uses it.     *)
(***************************************************************************)
ThreadsHaveTheirInstance ==
    \A k \in Kits, t \in Threads :
        kit[k].thread[t] \in {"running", "stopping"} => Alive(k) /\ curl
================================================================================
