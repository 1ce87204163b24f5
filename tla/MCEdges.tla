------------------------------- MODULE MCEdges ------------------------------
(***************************************************************************)
(* What lies at the edges of the engine: the configuration it starts from, *)
(* the HTTP and WebSocket sources, the Timescale sink, and the pattern     *)
(* engine and matcher that programs feed events to.  They share no state,  *)
(* so each is checked by itself: only the one that part names takes steps, *)
(* the others stay as they start.                                          *)
(***************************************************************************)
EXTENDS Configuration, Ingestion, TimescaleSink, PatternEngine

VARIABLE part

ConfigFile(c) == [parses |-> TRUE, settings |-> c]
PlainConfig == [ZeroConfig EXCEPT !.Interval = 1, !.EnableRetry = TRUE]
MCFiles ==
    {ConfigFile(PlainConfig),
     ConfigFile([ProductionConfig EXCEPT !.Sources = {[name |-> "s", complete |-> TRUE]}]),
     ConfigFile([PlainConfig EXCEPT !.InitialBackoff = 4])}
NoOverride == [set |-> [s \in {} |-> 0], broken |-> FALSE]
MCEnvironments == {NoOverride, [NoOverride EXCEPT !.set = [s \in {"BufferSize"} |-> 30]]}

Kind(type, user) == [type |-> type, user |-> user]
MCKinds == {Kind("a", 1), Kind("b", 1), Kind("b", 2), Kind("c", 1)}
SameUser == {[left |-> 1, right |-> 2]}
A == Event("a")
B == Event("b")
C == Event("c")
MCPatterns ==
    [pair |-> Pattern(<<A, B>>, 2, SameUser),
     frequency |-> FrequencyPattern("a", 2, 1),
     twice |-> SequencePattern(<<"a", "a">>, 0),
     iteration |-> IterationPattern("a", 2, 1),
     followed |-> Pattern(<<AtLeast(A, 2), Constrained(B, "within", 1)>>, 2, {}),
     skipping |-> Pattern(<<A, Optional(B), AtMost(C, 1)>>, 0, SameUser),
     negation |-> Pattern(<<A, Constrained(Negated(B), "within", 0), C>>, 2, {}),
     without |-> SequenceWithNegation("a", "b", "c", 2),
     delayed |-> Pattern(<<A, Constrained(B, "after", 1), Optional(C)>>, 3, SameUser)]

\* The hypothesis under which the engine's part of MatchesExact is proved for all patterns.
ASSUME PatternsFollowable == AllFollowable

EdgesInit ==
    /\ part \in {"configuration", "http", "websocket", "timescale", "patterns", "matcher"}
    /\ IF part = "configuration" THEN ConfigInit ELSE NoConfigInit
    /\ IngestionInit
    /\ Init
    /\ CepInit

EdgesNext ==
    \/ part = "configuration" /\ ConfigNext /\ UNCHANGED <<part, ingestVars, vars, cepVars>>
    \/ part = "http" /\ HttpNext /\ UNCHANGED <<part, configVars, vars, cepVars>>
    \/ part = "websocket" /\ WsNext /\ UNCHANGED <<part, configVars, vars, cepVars>>
    \/ part = "timescale" /\ Next /\ UNCHANGED <<part, configVars, ingestVars, cepVars>>
    \/ part = "patterns" /\ EngineNext /\ UNCHANGED <<part, configVars, ingestVars, vars>>
    \/ part = "matcher" /\ MatcherNext /\ UNCHANGED <<part, configVars, ingestVars, vars>>

EdgesVars == <<part, configVars, ingestVars, vars, cepVars>>

EdgesSpec ==
    /\ EdgesInit
    /\ [][EdgesNext]_EdgesVars
    /\ ConfigFairness
    /\ IngestionFairness
=============================================================================
