------------------------------- MODULE MCActions -------------------------------
(***************************************************************************)
(* Many objects and no reports; few objects and a report of each kind; few *)
(* objects while the server turns capturing off.  Privacy settings and     *)
(* attributes that differ in what is allowed; a number of bytes beyond an  *)
(* int32_t of IntBits bits.                                                *)
(***************************************************************************)
EXTENDS Actions

Settings == {[level |-> "OFF", crashes |-> "OPT_IN_CRASHES"],
             [level |-> "PERFORMANCE", crashes |-> "OFF"],
             [level |-> "USER_BEHAVIOR", crashes |-> "OPT_OUT_CRASHES"]}
CaptureOff == {[defaultInstance EXCEPT !.capture = FALSE]}
Bound(a, w, r, p, c) ==
    [actions |-> a, tracers |-> w, reports |-> r, privacy |-> p, configurations |-> c]
SmallBounds ==
    {Bound(2, 1, 0, p, {}) : p \in {q \in Settings : q.level = "PERFORMANCE"}}
    \cup {Bound(0, 1, 1, p, {}) : p \in Settings}
    \cup {Bound(1, 0, 1, p, CaptureOff) : p \in Settings}
    \cup {Bound(1, 1, 0, p, CaptureOff) : p \in Settings}
    \cup {Bound(2, 0, 0, p, CaptureOff) : p \in Settings}
SomeAttributes == {"dt" :> User @@ "timestamp" :> User @@ "dt.rum.sid" :> User
                     @@ "event.kind" :> NonFinite}
Counts == {5}
Symmetry == Permutations(Threads)
================================================================================
