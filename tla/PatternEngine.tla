---------------------------- MODULE PatternEngine ---------------------------
(***************************************************************************)
(* pkg/cep: the engine that follows partial matches of patterns (engine.go)*)
(* the matcher that searches a buffer (pattern.go), and the patterns that  *)
(* their constructors build (pattern.go, dsl.go).  Every operation holds   *)
(* the lock of its object.                                                 *)
(*                                                                         *)
(* An event is its type, the user a condition compares, and its time; the  *)
(* other predicates only make more types.  Matched events are numbers of   *)
(* events in the log.  A partial match keeps the count of its current step *)
(* only, and no negation buffer: the events in it were tested when they    *)
(* came.  Left out: the engine's event buffer, which is only counted, the  *)
(* severity and metadata of a match, and the callback.                     *)
(***************************************************************************)
EXTENDS Sublists, Integers, FiniteSets

CONSTANTS Patterns,          \* the patterns somebody registers, by ID
          EventKinds,        \* the events there may be, without their time
          Untyped,           \* the type of an event without one
          EngineTimeout,     \* timeoutDuration
          MatcherBuffer,     \* maxBufferSize of the matcher
          MaxCepEvents,      \* bound: events processed
          MaxCepNow,         \* bound: the wall clock stops here
          MaxEventDelay,     \* bound: how far an event's time lies behind the clock
          MaxEventLead,      \* bound: how far it lies ahead of the clock
          MaxRegistrations   \* bound: calls of RegisterPattern

ASSUME PatternEngineAssumption ==
    /\ EngineTimeout \in Nat
    /\ MatcherBuffer \in Nat \ {0}
    /\ {MaxCepEvents, MaxCepNow, MaxEventDelay, MaxEventLead, MaxRegistrations} \subseteq Nat

\* A pattern has at least one step: the matcher would index an empty match.
ASSUME PatternsAssumption ==
    \A p \in DOMAIN Patterns :
        /\ Patterns[p].window \in Int
        /\ DOMAIN Patterns[p].steps = 1 .. Len(Patterns[p].steps)
        /\ Len(Patterns[p].steps) \in Nat \ {0}
        /\ \A s \in DOMAIN Patterns[p].steps :
              LET step == Patterns[p].steps[s]
              IN  /\ step.optional \in BOOLEAN /\ step.negated \in BOOLEAN
                  /\ step.min \in Int /\ step.max \in Int /\ step.constraint.time \in Int

-----------------------------------------------------------------------------
(* Patterns.                                                               *)

NoConstraint == [kind |-> "none", time |-> 0]

\* Event(name, type) of the builder.
Event(type) ==
    [type |-> type, optional |-> FALSE, negated |-> FALSE,
     quantifier |-> "one", min |-> 0, max |-> 0, constraint |-> NoConstraint]

Times(step, n) == [step EXCEPT !.quantifier = "exactly", !.min = n, !.max = n]
AtLeast(step, n) == [step EXCEPT !.quantifier = "at_least", !.min = n]
AtMost(step, n) == [step EXCEPT !.quantifier = "at_most", !.max = n]
Optional(step) == [step EXCEPT !.optional = TRUE]
Negated(step) == [step EXCEPT !.negated = TRUE]
Constrained(step, kind, t) == [step EXCEPT !.constraint = [kind |-> kind, time |-> t]]

Pattern(steps, window, conditions) ==
    [steps |-> steps, window |-> window, conditions |-> conditions]

SequencePattern(types, window) ==
    Pattern([i \in DOMAIN types |-> Event(types[i])], window, {})

FrequencyPattern(type, minCount, window) == Pattern(<<Event(type)>>, window, {})

IterationPattern(type, count, window) == Pattern(<<Times(Event(type), count)>>, window, {})

SequenceWithNegation(a, notB, c, window) ==
    Pattern(<<Event(a), Negated(Event(notB)), Event(c)>>, window, {})

isQuantifierSatisfied(step, count) ==
    CASE step.quantifier \in {"exactly", "at_least", "range"} -> count >= step.min
      [] step.quantifier = "at_most" -> count >= 1 /\ count <= step.max
      [] step.quantifier = "zero_or_more" -> TRUE
      [] OTHER -> count >= 1

-----------------------------------------------------------------------------
VARIABLES
    cepLog,         \* the events so far, in the order they were processed
    cepNow,         \* the wall clock
    registered,     \* e.patterns
    partial,        \* e.partialMatches, per registered pattern
    reported,       \* history: the matches ProcessEvent has returned
    registrations,
    since,          \* history: per pattern, the events processed when it was registered
    abandoned,      \* history: partial matches that timed out, by pattern and first event
    matching,       \* pm.pattern of a matcher, once there is one
    matcherBuffer,  \* pm.eventBuffer
    found,          \* what the matcher's last AddEvent returned
    foundAt,        \* history: the clock of that call
    foundBefore     \* history: what its earlier calls returned

engineVars == <<registered, partial, reported, registrations, since, abandoned>>
matcherVars == <<matching, matcherBuffer, found, foundAt, foundBefore>>
cepVars == <<cepLog, cepNow, engineVars, matcherVars>>

CepInit ==
    /\ cepLog = <<>>
    /\ cepNow = MaxEventDelay
    /\ registered = {}
    /\ partial = [p \in DOMAIN Patterns |-> {}]
    /\ reported = {}
    /\ registrations = 0
    /\ since = [p \in DOMAIN Patterns |-> 0]
    /\ abandoned = {}
    /\ matching = {}
    /\ matcherBuffer = <<>>
    /\ found = {}
    /\ foundAt = 0
    /\ foundBefore = {}

Last(events) == events[Len(events)]

\* checkConditions: the events go by their place in the match, since they have no names.
checkConditions(log, events, conditions) ==
    \A c \in conditions : /\ {c.left, c.right} \subseteq DOMAIN events
                          /\ log[events[c.left]].user = log[events[c.right]].user

-----------------------------------------------------------------------------
(* The engine.                                                             *)

matchesEventPattern(event, step) == event.type = step.type

RegisterPattern(p) ==
    /\ registrations < MaxRegistrations
    /\ registrations' = registrations + 1
    /\ registered' = registered \cup {p}
    /\ partial' = [partial EXCEPT ![p] = {}]
    /\ since' = [since EXCEPT ![p] = Len(cepLog)]
    /\ UNCHANGED <<cepLog, cepNow, reported, abandoned, matcherVars>>

UnregisterPattern(p) ==
    /\ p \in registered
    /\ registered' = registered \ {p}
    /\ partial' = [partial EXCEPT ![p] = {}]
    /\ UNCHANGED <<cepLog, cepNow, reported, registrations, since, abandoned, matcherVars>>

\* Event time against the wall clock.
hasTimedOut(p, match) ==
    LET timeout == IF Patterns[p].window > 0 /\ Patterns[p].window < EngineTimeout THEN Patterns[p].window ELSE EngineTimeout
    IN  EngineTimeout # 0 /\ cepNow - cepLog[Last(match.events)].time > timeout

\* The faulty form without the check.
InWindowAlways(p, match, event) == TRUE

InWindow(p, match, event) ==
    Patterns[p].window > 0 => event.time - cepLog[match.events[1]].time <= Patterns[p].window

\* A match in the making: its events, the step it is at, and how many events that step has.
PartialMatch(events, step, count) == [events |-> events, step |-> step, count |-> count]

Dropped == [is |-> "dropped"]
Kept(match) == [is |-> "kept", match |-> match]
Complete(match) == [is |-> "complete", match |-> match]

\* checkIfCompleted, after the step was left.
checkIfCompleted(p, log, match) ==
    LET next == PartialMatch(match.events, match.step + 1, 0)
    IN  IF next.step <= Len(Patterns[p].steps) THEN Kept(next)
        ELSE IF checkConditions(log, match.events, Patterns[p].conditions) THEN Complete(next) ELSE Dropped

\* The step the event meets: optional ones that do not match are skipped.
StepFor(p, match, event) ==
    CHOOSE s \in match.step .. Len(Patterns[p].steps) + 1 :
        LET Skipped(i) == /\ Patterns[p].steps[i].optional /\ ~Patterns[p].steps[i].negated
                          /\ ~matchesEventPattern(event, Patterns[p].steps[i])
        IN  /\ s <= Len(Patterns[p].steps) => ~Skipped(s)
            /\ \A i \in match.step .. s - 1 : Skipped(i)

\* Event number n of the log meets a partial match.
tryAdvanceMatch(p, log, match, n) ==
    LET event == log[n]
        s == StepFor(p, match, event)
        at == PartialMatch(match.events, s, IF s = match.step THEN match.count ELSE 0)
        step == Patterns[p].steps[s]
        gap == event.time - log[Last(match.events)].time
        taken == PartialMatch(Append(at.events, n), s, at.count + 1)
    IN  IF s > Len(Patterns[p].steps) THEN Complete(at)
        ELSE IF step.negated
        THEN IF matchesEventPattern(event, step) THEN Dropped
             ELSE IF step.constraint.kind # "none" /\ gap > step.constraint.time
             THEN checkIfCompleted(p, log, at) ELSE Kept(at)
        ELSE IF \/ ~matchesEventPattern(event, step)
                \/ step.constraint.kind \in {"within", "before"} /\ gap > step.constraint.time
        THEN Dropped
        ELSE IF step.constraint.kind = "after" /\ gap < step.constraint.time THEN Kept(at)
        ELSE IF isQuantifierSatisfied(step, taken.count) THEN checkIfCompleted(p, log, taken)
        ELSE Kept(taken)

\* The faulty form that follows one match at a time.
canStartNewMatchAlone(p, event) ==
    ~Patterns[p].steps[1].negated /\ matchesEventPattern(event, Patterns[p].steps[1]) /\ partial[p] = {}

canStartNewMatch(p, event) == ~Patterns[p].steps[1].negated /\ matchesEventPattern(event, Patterns[p].steps[1])

createPartialMatch(p, n) ==
    IF isQuantifierSatisfied(Patterns[p].steps[1], 1) THEN PartialMatch(<<n>>, 2, 0)
                                                      ELSE PartialMatch(<<n>>, 1, 1)

ProcessEvent(event) ==
    LET n == Len(cepLog) + 1
        log == Append(cepLog, event)
        Alive(p) == {m \in partial[p] : ~hasTimedOut(p, m) /\ InWindow(p, m, event)}
        Outcomes(p) == {tryAdvanceMatch(p, log, m, n) : m \in Alive(p)}
        Started(p) == IF canStartNewMatch(p, event) THEN {createPartialMatch(p, n)} ELSE {}
    IN  /\ n <= MaxCepEvents
        /\ cepLog' = log
        /\ partial' = [p \in DOMAIN Patterns |->
                         IF p \in registered
                         THEN {o.match : o \in {x \in Outcomes(p) : x.is = "kept"}} \cup Started(p)
                         ELSE partial[p]]
        /\ reported' = reported \cup
              UNION {{[pattern |-> p, events |-> o.match.events, at |-> n] :
                        o \in {x \in Outcomes(p) : x.is = "complete"}} : p \in registered}
        /\ abandoned' = abandoned \cup
              UNION {{<<p, m.events[1]>> : m \in {x \in partial[p] : hasTimedOut(p, x)}} :
                        p \in registered}
        /\ UNCHANGED <<cepNow, registered, registrations, since, matcherVars>>

\* A tick of the background checker that finds something.
cleanupTimedOutMatches ==
    LET Out(p) == {m \in partial[p] : hasTimedOut(p, m)}
    IN  /\ \E p \in registered : Out(p) # {}
        /\ partial' = [p \in DOMAIN Patterns |-> partial[p] \ Out(p)]
        /\ abandoned' = abandoned \cup UNION {{<<p, m.events[1]>> : m \in Out(p)} : p \in registered}
        /\ UNCHANGED <<cepLog, cepNow, registered, reported, registrations, since, matcherVars>>

-----------------------------------------------------------------------------
(* The matcher of one pattern.                                             *)

NewPatternMatcher(p) ==
    /\ matching = {}
    /\ matching' = {p}
    /\ UNCHANGED <<cepLog, cepNow, engineVars, matcherBuffer, found, foundAt, foundBefore>>

\* An event without a type is not compared.
MatcherMatches(event, step) == event.type \in {step.type, Untyped}

\* An event meets what is matched so far: nothing is left of it when a required step fails.
Meet(p, log, n, events) ==
    LET step == Patterns[p].steps[Len(events) + 1]
    IN  IF Len(events) = Len(Patterns[p].steps) THEN {events}
        ELSE IF MatcherMatches(log[n], step) THEN {Append(events, n)}
        ELSE IF step.optional THEN {events} ELSE {}

\* tryMatch from a place of the buffer: the events matched, or none at all.
tryMatch(p, log, buffer, start) ==
    LET met[i \in 0 .. Len(buffer) - start + 1] ==
          IF i = 0 THEN {<<>>}
          ELSE UNION {Meet(p, log, buffer[start + i - 1], events) : events \in met[i - 1]}
    IN  {events \in met[Len(buffer) - start + 1] :
            /\ Len(events) = Len(Patterns[p].steps)
            /\ checkConditions(log, events, Patterns[p].conditions)}

AddEvent(p, event) ==
    LET n == Len(cepLog) + 1
        log == Append(cepLog, event)
        inWindow == {i \in DOMAIN log : log[i].time > cepNow - Patterns[p].window}
        recent == Only(Append(matcherBuffer, n), inWindow)
        from == Len(recent) - MatcherBuffer + 1
        buffer == SubSeq(recent, IF from > 1 THEN from ELSE 1, Len(recent))
    IN  /\ n <= MaxCepEvents
        /\ cepLog' = log
        /\ matcherBuffer' = buffer
        /\ found' = UNION {tryMatch(p, log, buffer, i) : i \in DOMAIN buffer}
        /\ foundAt' = cepNow
        /\ foundBefore' = foundBefore \cup found
        /\ UNCHANGED <<cepNow, engineVars, matching>>

CepTick ==
    /\ cepNow < MaxCepNow
    /\ cepNow' = cepNow + 1
    /\ UNCHANGED <<cepLog, engineVars, matcherVars>>

\* The time of an event is the caller's, before or after the clock.
CepEvents ==
    {[type |-> k.type, user |-> k.user, time |-> t] :
        k \in EventKinds, t \in {u \in 0 .. cepNow + MaxEventLead : u >= cepNow - MaxEventDelay}}

EngineNext ==
    \/ \E p \in DOMAIN Patterns : RegisterPattern(p) \/ UnregisterPattern(p)
    \/ \E e \in CepEvents : ProcessEvent(e)
    \/ cleanupTimedOutMatches
    \/ CepTick

MatcherNext ==
    \/ \E p \in DOMAIN Patterns : NewPatternMatcher(p)
    \/ \E p \in matching, e \in CepEvents : AddEvent(p, e)
    \/ CepTick

CepSpec == CepInit /\ [][EngineNext]_cepVars
MatcherSpec == CepInit /\ [][MatcherNext]_cepVars

-----------------------------------------------------------------------------
\* The patterns whose matches are occurrences.  The engine looks at one step at a time: one
\* that it may skip takes a single event, as soon as it comes, and a negated step is left to
\* one that the next event has to match.
Followable(p) ==
    LET steps == Patterns[p].steps
    IN  \A s \in DOMAIN steps :
           /\ steps[s].quantifier = "at_most" => steps[s].max >= 1
           /\ steps[s].optional => isQuantifierSatisfied(steps[s], 1) /\ steps[s].constraint.kind # "after"
           /\ steps[s].negated /\ s < Len(steps) =>
                 ~steps[s + 1].negated /\ ~steps[s + 1].optional /\ steps[s + 1].constraint.kind # "after"

AllFollowable == \A p \in DOMAIN Patterns : Followable(p)

TimeOf(n) == cepLog[n].time

\* How many events the step takes.
Needed(step) == IF step.quantifier \in {"exactly", "at_least", "range"} /\ step.min > 1
                THEN step.min ELSE 1

\* Match m of the engine, event i of it given to step f[i], is an occurrence of its pattern.
Justifies(m, f) ==
    LET p == m.pattern
        k == Len(m.events)
        Step(i) == Patterns[p].steps[f[i]]
    IN  /\ \A i \in 1 .. k :
              /\ cepLog[m.events[i]].type = Step(i).type /\ ~Step(i).negated
              /\ Patterns[p].window > 0 =>
                    TimeOf(m.events[i]) - TimeOf(m.events[1]) <= Patterns[p].window
        /\ \A i \in 2 .. k :
              LET c == Step(i).constraint
                  gap == TimeOf(m.events[i]) - TimeOf(m.events[i - 1])
              IN  /\ m.events[i - 1] < m.events[i] /\ f[i - 1] <= f[i]
                  /\ c.kind \in {"within", "before"} => gap <= c.time
                  /\ c.kind = "after" => gap >= c.time
        /\ \A s \in DOMAIN Patterns[p].steps :
              LET has == Cardinality({i \in 1 .. k : f[i] = s})
                  before == {m.events[i] : i \in {j \in 1 .. k : f[j] < s}}
                  after == {m.events[i] : i \in {j \in 1 .. k : f[j] > s}}
              IN  IF Patterns[p].steps[s].negated
                  THEN \A n \in DOMAIN cepLog :
                          /\ \A b \in before : n > b
                          /\ \A a \in after : n < a
                          /\ n <= m.at
                          => cepLog[n].type # Patterns[p].steps[s].type
                  ELSE /\ has <= Needed(Patterns[p].steps[s])
                       /\ ~Patterns[p].steps[s].optional => has = Needed(Patterns[p].steps[s])
        /\ f[k] = Len(Patterns[p].steps) /\ k > 1 =>
              checkConditions(cepLog, m.events, Patterns[p].conditions)

(* A match that the engine reports is one: its events can be given to the steps of the
   pattern in order, each to a step it matches; every step that is not optional has as many
   as it needs, and no step has more; none came later after the first than the pattern's
   window, or after the one before it than its step allows; nothing that a negated step
   excludes was processed between its neighbours; and the conditions hold when the last step
   took part.  One that the matcher finds has an event for every step, in order, and none
   that had happened by then lies the window or more after another. *)
MatchesJustified ==
    /\ \A m \in reported :
          \E f \in [1 .. Len(m.events) -> DOMAIN Patterns[m.pattern].steps] : Justifies(m, f)
    /\ \A p \in matching : \A events \in found :
          /\ DOMAIN events = DOMAIN Patterns[p].steps
          /\ \A i \in DOMAIN events :
                MatcherMatches(cepLog[events[i]], Patterns[p].steps[i])
          /\ \A i, j \in DOMAIN events :
                /\ i < j => events[i] < events[j]
                /\ TimeOf(events[j]) <= foundAt =>
                      TimeOf(events[j]) - TimeOf(events[i]) < Patterns[p].window

Plain(p) == \A s \in DOMAIN Patterns[p].steps : Patterns[p].steps[s] = Event(Patterns[p].steps[s].type)

\* The events a plain pattern needs, from number n on.
Occurrence(p, n) == [i \in DOMAIN Patterns[p].steps |-> n + i - 1]

\* They are in the log, one after the other within the window and after the first `from`
\* events; a single one needs a successor, which completes the match.
Occurred(p, log, from, n) ==
    LET events == Occurrence(p, n)
        last == IF Len(events) = 1 THEN n + 1 ELSE Last(events)
    IN  /\ Plain(p) /\ n > from
        /\ last <= Len(log)
        /\ \A i \in DOMAIN events : log[events[i]].type = Patterns[p].steps[i].type
        /\ Patterns[p].window > 0 =>
              \A i \in n .. last : log[i].time - log[n].time <= Patterns[p].window
        /\ checkConditions(log, events, Patterns[p].conditions)

Reported(p, events) == \E m \in reported : m.pattern = p /\ m.events = events

(* Every occurrence of a plain sequence, overlapping ones too, is reported: events that
   match its steps one after the other within the window, and were processed since the
   pattern was registered, make a match unless it timed out. *)
OccurrencesFound ==
    \A p \in registered, n \in DOMAIN cepLog :
        Occurred(p, cepLog, since[p], n) /\ <<p, n>> \notin abandoned => Reported(p, Occurrence(p, n))

(* What the engine reports, and the matcher finds, are occurrences of the pattern, and all
   occurrences of a plain sequence are reported. *)
MatchesExact == MatchesJustified /\ OccurrencesFound

-----------------------------------------------------------------------------
(* FrequencyPattern: "%s >= %d times in %s". *)
FrequencyCounted ==
    \A m \in reported, t \in {k.type : k \in EventKinds} :
        Patterns[m.pattern] = FrequencyPattern(t, 2, Patterns[m.pattern].window)
            => Len(m.events) >= 2

(* SequenceWithNegation: "A -> NOT B -> C (B should not occur between A and C)": an A and
   a C right after it, with nothing in between, are a match. *)
NegationMatches ==
    \A p \in registered, n \in DOMAIN cepLog :
        LET steps == Patterns[p].steps IN
        /\ Len(steps) = 3 /\ Patterns[p] = SequenceWithNegation(steps[1].type, steps[2].type, steps[3].type, Patterns[p].window)
        /\ n > since[p] /\ <<p, n>> \notin abandoned
        /\ n + 1 <= Len(cepLog) /\ TimeOf(n + 1) - TimeOf(n) <= Patterns[p].window
        /\ cepLog[n].type = steps[1].type /\ cepLog[n + 1].type = steps[3].type
        => \E m \in reported : m.pattern = p /\ m.events[1] = n

(* "checkConditions verifies that conditions between events are satisfied". *)
ConditionsHold ==
    \A m \in reported : checkConditions(cepLog, m.events, Patterns[m.pattern].conditions)

(* Time is the events' own: a sequence within the window is reported, however late its
   events come. *)
LateOccurrencesFound ==
    \A p \in registered, n \in DOMAIN cepLog :
        Occurred(p, cepLog, since[p], n) => Reported(p, Occurrence(p, n))

(* AddEvent "checks for pattern matches": one that was returned is not returned again. *)
FoundOnce == found \cap foundBefore = {}

(* TimeWindow: "Time window for the pattern". *)
FoundInWindow ==
    \A p \in matching : \A events \in found : \A i, j \in DOMAIN events :
        TimeOf(events[j]) - TimeOf(events[i]) <= Patterns[p].window

(* "Optional event": a match may do without it. *)
MatcherOptional ==
    \A p \in matching :
        matcherBuffer # <<>> /\ (\A s \in 2 .. Len(Patterns[p].steps) : Patterns[p].steps[s].optional)
            /\ cepLog[Last(matcherBuffer)].type = Patterns[p].steps[1].type
            => \E m \in found : m[1] = Last(matcherBuffer)
=============================================================================
