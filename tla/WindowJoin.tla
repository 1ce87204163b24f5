----------------------------- MODULE WindowJoin -----------------------------
(***************************************************************************)
(* pkg/join/window_join.go: events of two streams are collected per key    *)
(* and window, matched as they come, and emitted when the watermark passes *)
(* the end of the window, which is then forgotten.  Every method holds the *)
(* lock for all it does.                                                   *)
(***************************************************************************)
EXTENDS WindowAssigners, Sequences, FiniteSets

CONSTANTS WJEvents,      \* records: id, side, key, time
          WJTypes,       \* join types to choose from
          MaxWJWatermark \* bound: the last watermark

ASSUME WindowJoinAssumption ==
    /\ \A e \in WJEvents : e.side \in {"left", "right"} /\ e.time \in Nat
    /\ WJTypes \subseteq {"INNER", "LEFT_OUTER", "RIGHT_OUTER", "FULL_OUTER"}
    /\ MaxWJWatermark \in Nat

VARIABLES
    wjAssigner, wjType,
    windowState,  \* window key -> the window, its events and matches
    wjDone,       \* events processed
    wjRows,       \* rows emitted: window key, left, right
    wjTwice,      \* rows emitted more than once
    wjMark,
    wjLate        \* pairs of a window key and an event that came after its result

wjVars == <<wjAssigner, wjType, windowState, wjDone, wjRows, wjTwice, wjMark, wjLate>>

\* The missing side of an outer row.
NoPartner == [id |-> 0, side |-> "nil", key |-> "nil", time |-> 0]

WindowJoinInit ==
    /\ wjAssigner \in {"tumbling", "sliding"}
    /\ wjType \in WJTypes
    /\ windowState = [k \in {} |-> 0]
    /\ wjDone = {}
    /\ wjRows = {}
    /\ wjTwice = {}
    /\ wjMark = -1
    /\ wjLate = {}

WJCondition(l, r) == l.key = r.key

\* The faulty form that matches left events only.
matchInWindowLeft(s, e) ==
    IF e.side = "left" THEN {<<e, r>> : r \in {x \in s.right : WJCondition(e, x)}} ELSE {}

\* The pairs an event makes with those already in the window.
matchInWindow(s, e) ==
    IF e.side = "left" THEN {<<e, r>> : r \in {x \in s.right : WJCondition(e, x)}}
    ELSE {<<l, e>> : l \in {x \in s.left : WJCondition(x, e)}}

\* ProcessLeft and ProcessRight.
WJProcess(e) ==
    LET assigned == AssignWindows(wjAssigner, e)
        keys == {windowKey(e.key, assigned[i]) : i \in DOMAIN assigned}
        WindowFor(k) == assigned[CHOOSE i \in DOMAIN assigned : windowKey(e.key, assigned[i]) = k]
        Old(k) == IF k \in DOMAIN windowState THEN windowState[k]
                  ELSE [window |-> WindowFor(k), left |-> {}, right |-> {}, matches |-> {}]
        New(k) == [Old(k) EXCEPT !.matches = @ \cup matchInWindow(Old(k), e),
                                 !.left = IF e.side = "left" THEN @ \cup {e} ELSE @,
                                 !.right = IF e.side = "right" THEN @ \cup {e} ELSE @]
    IN  /\ e \notin wjDone
        /\ wjDone' = wjDone \cup {e}
        /\ windowState' = [k \in DOMAIN windowState \cup keys |->
                             IF k \in keys THEN New(k) ELSE windowState[k]]
        /\ wjLate' = wjLate \cup {<<k, e>> : k \in {x \in keys : WindowFor(x).end <= wjMark}}
        /\ UNCHANGED <<wjAssigner, wjType, wjRows, wjTwice, wjMark>>

Unmatched(s) ==
    LET matchedLeft == {m[1] : m \in s.matches}
        matchedRight == {m[2] : m \in s.matches}
    IN  (IF wjType \in {"LEFT_OUTER", "FULL_OUTER"}
         THEN {<<l, NoPartner>> : l \in s.left \ matchedLeft} ELSE {})
        \cup
        (IF wjType \in {"RIGHT_OUTER", "FULL_OUTER"}
         THEN {<<NoPartner, r>> : r \in s.right \ matchedRight} ELSE {})

WJFire(k) == {<<k, m[1], m[2]>> : m \in windowState[k].matches \cup Unmatched(windowState[k])}

\* Fired windows are deleted; an event that comes later opens the window again.
WJOnWatermark(mark) ==
    LET due == {k \in DOMAIN windowState : windowState[k].window.end <= mark}
        new == UNION {WJFire(k) : k \in due}
    IN  /\ mark > wjMark
        /\ wjMark' = mark
        /\ wjTwice' = wjTwice \cup (new \cap wjRows)
        /\ wjRows' = wjRows \cup new
        /\ windowState' = [k \in DOMAIN windowState \ due |-> windowState[k]]
        /\ UNCHANGED <<wjAssigner, wjType, wjDone, wjLate>>

WindowJoinNext ==
    \/ \E e \in WJEvents : WJProcess(e)
    \/ \E mark \in 0 .. MaxWJWatermark : WJOnWatermark(mark)

WindowJoinSpec == WindowJoinInit /\ [][WindowJoinNext]_wjVars

-----------------------------------------------------------------------------
\* The rows a window should have given: its pairs, and an outer row for what has none.
WJOwed(k) ==
    LET in == {e \in wjDone : k \in KeysOf(wjAssigner, e) /\ <<k, e>> \notin wjLate}
        pairs == {p \in in \X in : p[1].side = "left" /\ p[2].side = "right" /\ WJCondition(p[1], p[2])}
    IN  pairs
        \cup {<<l, NoPartner>> : l \in {x \in in : /\ wjType \in {"LEFT_OUTER", "FULL_OUTER"}
                                               /\ x.side = "left" /\ \A p \in pairs : p[1] # x}}
        \cup {<<NoPartner, r>> : r \in {x \in in : /\ wjType \in {"RIGHT_OUTER", "FULL_OUTER"}
                                               /\ x.side = "right" /\ \A p \in pairs : p[2] # x}}

(* A window that the watermark has passed gave every row it owes for the events that came
   in time, whatever order they came in, and no row twice, although late events open it
   again. *)
WindowRowsExact ==
    /\ wjTwice = {}
    /\ \A e \in wjDone : \A w \in WindowsOf(wjAssigner, e) :
         LET k == windowKey(e.key, w) IN
         w.end <= wjMark /\ k \notin DOMAIN windowState =>
             \A p \in WJOwed(k) : <<k, p[1], p[2]>> \in wjRows

(* "LeftOuterJoin emits all left events, with or without matches": a late event whose
   partner is in the result already is not emitted without a partner. *)
LateMatched ==
    \A row \in wjRows : row[3] = NoPartner =>
        ~\E r \in wjDone : r.side = "right" /\ row[1] \in KeysOf(wjAssigner, r) /\ WJCondition(row[2], r)
=============================================================================
