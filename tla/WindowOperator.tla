--------------------------- MODULE WindowOperator ---------------------------
(***************************************************************************)
(* pkg/window/window.go: the assigners, the triggers and the operator that *)
(* aggregates events per key and window.  The engine's workers call        *)
(* Process at the same time; the lock is held for the update of one        *)
(* window and given back before the trigger is asked and the result read.  *)
(* An aggregate is the set of the events it was made from.                 *)
(***************************************************************************)
EXTENDS WindowAssigners, Sequences

CONSTANTS WindowEvents,   \* the events, records with an id, a key, a time
          Poison,         \* the events the aggregate function fails for
          Triggers,       \* the triggers to choose from
          CountLimit,     \* maxCount of the CountTrigger
          MaxWatermark    \* bound: the last watermark

ASSUME WindowAssumption ==
    /\ \A e \in WindowEvents : e.time \in Nat
    /\ Poison \subseteq WindowEvents
    /\ CountLimit \in Nat \ {0} /\ MaxWatermark \in Nat
    /\ Triggers \subseteq {"event", "processing", "count", "purging"}

VARIABLES
    windows,    \* window key -> its state
    assigner, trigger, triggerCount,
    process,    \* what Process still has to do for each event
    finished,   \* events whose Process returned without an error since the start
    watermarkAt, \* the last watermark OnWatermark was called with
    emitted,    \* the results of the last step
    stuck,      \* OnWatermark waits for the lock it holds itself
    restarted

windowVars == <<windows, assigner, trigger, triggerCount, process, finished, watermarkAt, emitted, stuck,
                restarted>>

-----------------------------------------------------------------------------
(* Triggers: what OnElement and OnEventTime answer.                        *)

CountReached == triggerCount + 1 >= CountLimit
OnElement == IF trigger = "count" /\ CountReached THEN "Fire" ELSE "Continue"

OnEventTime(mark, w) ==
    IF mark < w.end \/ trigger \in {"processing", "count"} THEN "Continue"
    ELSE IF trigger = "purging" THEN "FireAndPurge" ELSE "Fire"

-----------------------------------------------------------------------------
Empty == [k \in {} |-> 0]
NotStarted == [todo |-> <<>>, at |-> "ready"]

WindowInit ==
    /\ windows = Empty
    /\ assigner \in Assigners
    /\ trigger \in Triggers
    /\ triggerCount = 0
    /\ process = [e \in WindowEvents |-> NotStarted]
    /\ finished = {}
    /\ watermarkAt = -1
    /\ emitted = {}
    /\ stuck = FALSE
    /\ restarted = FALSE

\* What fireWindow emits for a window.
fireWindow(k) == [key |-> k, value |-> windows[k].acc, count |-> windows[k].count]

BeginProcess(e) ==
    /\ process[e] = NotStarted
    /\ process' = [process EXCEPT ![e] = [todo |-> AssignWindows(assigner, e), at |-> "update"]]
    /\ emitted' = {}
    /\ UNCHANGED <<windows, assigner, trigger, triggerCount, finished, watermarkAt, stuck, restarted>>

\* An error of the aggregate function is returned after its answer, which is nil,
\* has been stored; the windows left get nothing.
UpdateWindow(e) ==
    LET w == Head(process[e].todo)
        k == windowKey(e.key, w)
        old == IF k \in DOMAIN windows THEN windows[k]
               ELSE [window |-> w, acc |-> {}, count |-> 0, spoiled |-> FALSE]
        new == [old EXCEPT !.count = @ + 1,
                           !.acc = IF e \in Poison THEN {} ELSE @ \cup {e},
                           !.spoiled = @ \/ e \in Poison]
    IN  /\ process[e].at = "update"
        /\ process[e].todo # <<>>
        /\ ~stuck
        /\ windows' = [x \in DOMAIN windows \cup {k} |-> IF x = k THEN new ELSE windows[x]]
        /\ process' = [process EXCEPT ![e].at = IF e \in Poison THEN "failed" ELSE "element"]
        /\ emitted' = {}
        /\ UNCHANGED <<assigner, trigger, triggerCount, finished, watermarkAt, stuck, restarted>>

AskTrigger(e) ==
    /\ process[e].at = "element"
    /\ triggerCount' = IF trigger = "count" THEN (IF CountReached THEN 0 ELSE triggerCount + 1) ELSE 0
    /\ process' = [process EXCEPT ![e] =
                     IF OnElement = "Fire" THEN [@ EXCEPT !.at = "fire"]
                     ELSE [todo |-> Tail(@.todo), at |-> "update"]]
    /\ emitted' = {}
    /\ UNCHANGED <<windows, assigner, trigger, finished, watermarkAt, stuck, restarted>>

\* Without the lock: the window may have got more events by now.
FireOnElement(e) ==
    LET k == windowKey(e.key, Head(process[e].todo)) IN
    /\ process[e].at = "fire"
    /\ emitted' = {fireWindow(k)}
    /\ process' = [process EXCEPT ![e] = [todo |-> Tail(@.todo), at |-> "update"]]
    /\ UNCHANGED <<windows, assigner, trigger, triggerCount, finished, watermarkAt, stuck, restarted>>

ReturnProcess(e) ==
    /\ process[e].at = "update" /\ process[e].todo = <<>>
    /\ process' = [process EXCEPT ![e].at = "done"]
    /\ finished' = finished \cup {e}
    /\ emitted' = {}
    /\ UNCHANGED <<windows, assigner, trigger, triggerCount, watermarkAt, stuck, restarted>>

WindowProcess(e) ==
    BeginProcess(e) \/ UpdateWindow(e) \/ AskTrigger(e) \/ FireOnElement(e) \/ ReturnProcess(e)

\* The faulty form that stops at the first window that has to fire.
FiringOne(mark) ==
    LET due == {k \in DOMAIN windows : OnEventTime(mark, windows[k].window) # "Continue"}
    IN  IF due = {} THEN {} ELSE {CHOOSE k \in due : TRUE}

Firing(mark) == {k \in DOMAIN windows : OnEventTime(mark, windows[k].window) # "Continue"}

\* The read lock is held for the whole of it; purgeWindow asks for the write lock.
OnWatermark(mark) ==
    LET due == Firing(mark) IN
    /\ ~stuck
    /\ mark > watermarkAt
    /\ watermarkAt' = mark
    /\ emitted' = {fireWindow(k) : k \in due}
    /\ stuck' = (trigger = "purging" /\ due # {})
    /\ UNCHANGED <<windows, assigner, trigger, triggerCount, process, finished, restarted>>

GetState == [k \in DOMAIN windows |-> windows[k].acc]

\* Only windows that exist already get their aggregate back.
RestoreState(saved, ws) ==
    [k \in DOMAIN ws |-> IF k \in DOMAIN saved THEN [ws[k] EXCEPT !.acc = saved[k]] ELSE ws[k]]

\* A new operator is restored from the last state before it sees an event; events
\* that were in progress are delivered again, finished ones are not.
Restart ==
    /\ ~restarted
    /\ restarted' = TRUE
    /\ windows' = RestoreState(GetState, Empty)
    /\ triggerCount' = 0
    /\ process' = [e \in WindowEvents |-> IF process[e].at = "done" THEN process[e] ELSE NotStarted]
    /\ finished' = {}
    /\ watermarkAt' = -1
    /\ emitted' = {}
    /\ stuck' = FALSE
    /\ UNCHANGED <<assigner, trigger>>

WindowNext ==
    \/ \E e \in WindowEvents : WindowProcess(e)
    \/ \E mark \in 0 .. MaxWatermark : OnWatermark(mark)
    \/ Restart

WindowSpec == WindowInit /\ [][WindowNext]_windowVars

-----------------------------------------------------------------------------
(* An event whose Process returned is in the aggregate of every window that covers its
   time and of no other, whatever other workers did to the same windows meanwhile; the
   aggregates an error has reset excepted. *)
EventsInTheirWindows ==
    /\ \A e \in finished : \A k \in KeysOf(assigner, e) :
         k \in DOMAIN windows /\ (windows[k].spoiled \/ e \in windows[k].acc)
    /\ \A k \in DOMAIN windows : \A e \in windows[k].acc : k \in KeysOf(assigner, e)

(* With the event-time trigger a watermark emits a result for exactly the windows it has
   passed, and each result counts every event that was processed before. *)
WatermarkResultsComplete ==
    [][trigger = "event" /\ watermarkAt' > watermarkAt =>
         /\ \A e \in finished : \A w \in WindowsOf(assigner, e) :
              w.end <= watermarkAt' =>
                \E r \in emitted' : /\ r.key = windowKey(e.key, w)
                                    /\ e \in r.value \/ windows[r.key].spoiled
         /\ \A r \in emitted' : r.value # {} =>
              \A e \in r.value : \E w \in WindowsOf(assigner, e) :
                r.key = windowKey(e.key, w) /\ w.end <= watermarkAt']_windowVars

(* Claims of comments that the code does not keep. *)

\* "generates a unique key for a window"
UniqueKeys ==
    \A k \in DOMAIN windows : \A e \in windows[k].acc : windows[k].window \in WindowsOf(assigner, e)

\* "Session windows are merged dynamically as events arrive"
SessionsMerge ==
    assigner = "session" => \A d, e \in finished :
        d.key = e.key /\ d.time < e.time /\ e.time < d.time + Size =>
            \E k \in DOMAIN windows : {d, e} \subseteq windows[k].acc

\* "RestoreState restores window state"
WindowsRestored ==
    [][~restarted /\ restarted' => DOMAIN windows \subseteq DOMAIN windows']_windowVars

\* "handles watermark advancement": it returns.
WatermarkReturns == ~stuck

\* An aggregation that fails changes nothing: the operator answers with the error.
FailureKeepsAggregate == \A k \in DOMAIN windows : ~windows[k].spoiled
=============================================================================
