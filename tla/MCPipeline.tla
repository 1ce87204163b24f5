----------------------------- MODULE MCPipeline -----------------------------
(***************************************************************************)
(* What events pass through on their way: the window operator, the keyed   *)
(* operators, the joins, and the topic that the Kafka sink and source      *)
(* share with the schema codecs.  They share no state, so each is checked  *)
(* by itself: only the one that part names takes steps, the others stay    *)
(* as they start.                                                          *)
(***************************************************************************)
EXTENDS WindowOperator, KeyedOperators, StreamJoin, WindowJoin, TemporalJoin, KafkaTopic

CONSTANTS r1, r2  \* the two registrars of a schema

VARIABLE part

WindowEvent(i, k, t) == [id |-> i, key |-> k, time |-> t]
MCPoison == {WindowEvent(4, "a", 1)}
MCWindowEvents ==
    MCPoison \cup {WindowEvent(1, "a", 2), WindowEvent(2, "b", 3), WindowEvent(3, "a", 3)}

KeyedEvent(i, k, d) == [id |-> i, key |-> k, does |-> d]
MCKeyedEvents == {KeyedEvent(1, "a", "pass"), KeyedEvent(2, "a", "pass"),
                  KeyedEvent(3, "a", "fails"), KeyedEvent(4, "", "filtered")}

JoinEvent(i, s, k, t) == [id |-> i, side |-> s, key |-> k, time |-> t]
MCJoinEvents == {JoinEvent(1, "left", "a", 1), JoinEvent(2, "right", "a", 1),
                 JoinEvent(3, "left", "a", 2), JoinEvent(4, "right", "b", 2)}
MCWJEvents == {JoinEvent(1, "left", "a", 1), JoinEvent(2, "right", "a", 2),
               JoinEvent(3, "left", "a", 3), JoinEvent(4, "right", "b", 2)}

Schema(type, values) == [type |-> type, accepts |-> values, valid |-> TRUE]
MCSchemas == {Schema("AVRO", {"v"}), Schema("AVRO", {"v", "w"}), Schema("PROTOBUF", {"v"})}

PipelineInit ==
    /\ part \in {"windows", "keyed", "join", "window join", "temporal join",
                "schema", "topic"}
    /\ WindowInit
    /\ part # "windows" => assigner = "tumbling" /\ trigger = "event"
    /\ KeyedInit
    /\ part # "keyed" => keyedKind = "aggregate"
    /\ IF part = "join" THEN JoinInit ELSE NoJoinInit
    /\ WindowJoinInit
    /\ part # "window join" => wjAssigner = "tumbling" /\ wjType = "INNER"
    /\ TemporalInit
    /\ TopicInit

PipelineNext ==
    \/ part = "windows" /\ WindowNext
       /\ UNCHANGED <<part, keyedVars, joinVars, wjVars, refVars, schemaVars, topicVars>>
    \/ part = "keyed" /\ KeyedNext
       /\ UNCHANGED <<part, windowVars, joinVars, wjVars, refVars, schemaVars, topicVars>>
    \/ part = "join" /\ JoinNext
       /\ UNCHANGED <<part, windowVars, keyedVars, wjVars, refVars, schemaVars, topicVars>>
    \/ part = "window join" /\ WindowJoinNext
       /\ UNCHANGED <<part, windowVars, keyedVars, joinVars, refVars, schemaVars, topicVars>>
    \/ part = "temporal join" /\ TemporalNext
       /\ UNCHANGED <<part, windowVars, keyedVars, joinVars, wjVars, schemaVars, topicVars>>
    \/ part = "schema" /\ SchemaNext
       /\ UNCHANGED <<part, windowVars, keyedVars, joinVars, wjVars, refVars, topicVars>>
    \/ part = "topic" /\ TopicNext /\ registrar'[r2] = NotChecked
       /\ UNCHANGED <<part, windowVars, keyedVars, joinVars, wjVars, refVars>>

PipelineVars == <<part, windowVars, keyedVars, joinVars, wjVars, refVars, schemaVars, topicVars>>

PipelineSpec ==
    /\ PipelineInit
    /\ [][PipelineNext]_PipelineVars
    /\ JoinFairness
=============================================================================
