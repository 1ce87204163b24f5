--------------------------- MODULE WindowAssigners --------------------------
(***************************************************************************)
(* pkg/window/window.go: which windows an event belongs to.  The window    *)
(* operator and the window join use the same assigners and the same form   *)
(* of key.                                                                 *)
(***************************************************************************)
EXTENDS Integers

CONSTANTS Size, Slide, Offset,  \* of the windows; Size is the gap of sessions
          SecondTicks     \* units of time per second

Assigners == {"tumbling", "sliding", "session"}

ASSUME AssignerAssumption ==
    /\ Size \in Nat \ {0} /\ Slide \in Nat \ {0} /\ Offset \in Int
    /\ SecondTicks \in Nat \ {0}

\* t.Truncate(d).
TruncateTime(t, d) == t - (t % d)

\* The faulty form that does not go back when the offset leads past the event.
LastStartAhead(t, d) == TruncateTime(t, d) + Offset

LastStart(t, d) ==
    LET s == TruncateTime(t, d) + Offset IN IF s > t THEN s - d ELSE s

TumblingWindows(t) == <<[start |-> LastStart(t, Size), end |-> LastStart(t, Size) + Size]>>

\* From the last start backwards while the window holds the time; the loop ends
\* after 1001 windows.
SlidingWindows(t) ==
    LET last == LastStart(t, Slide)
        holding == IF last + Size > t THEN (last + Size - t - 1) \div Slide + 1 ELSE 0
        n == IF holding > 1001 THEN 1001 ELSE holding
    IN  [i \in 1 .. n |-> [start |-> last - (i - 1) * Slide, end |-> last - (i - 1) * Slide + Size]]

SessionWindows(t) == <<[start |-> t, end |-> t + Size]>>

AssignWindows(assigner, e) ==
    CASE assigner = "tumbling" -> TumblingWindows(e.time)
      [] assigner = "sliding" -> SlidingWindows(e.time)
      [] assigner = "session" -> SessionWindows(e.time)

\* The key holds the start and the end in seconds.
windowKey(k, w) == <<k, w.start \div SecondTicks, w.end \div SecondTicks>>

\* The windows an event belongs to by definition.
WindowsOf(assigner, e) ==
    CASE assigner = "session" -> {[start |-> e.time, end |-> e.time + Size]}
      [] OTHER -> LET step == IF assigner = "tumbling" THEN Size ELSE Slide IN
                  {[start |-> s, end |-> s + Size] :
                     s \in {x \in (e.time - Size + 1) .. e.time : (x - Offset) % step = 0}}
KeysOf(assigner, e) == {windowKey(e.key, w) : w \in WindowsOf(assigner, e)}
=============================================================================
