----------------------------- MODULE KafkaTopic -----------------------------
(***************************************************************************)
(* pkg/sink/kafka_sink.go, a Kafka topic and messageToEvent of             *)
(* pkg/ingestion/kafka_source.go, with a value schema on both sides        *)
(* (SchemaCodec).  Write hands a message to the producer, which delivers   *)
(* it later; a failed delivery is only logged.                             *)
(***************************************************************************)
EXTENDS SchemaCodec

CONSTANTS Values,          \* event values, all of them JSON objects
          SinkVersion,     \* SinkSchemaConfig.Version
          ProducerQueue,   \* messages the producer holds
          MaxWrites        \* bound: events written

ASSUME TopicAssumption ==
    /\ ProducerQueue \in Nat \ {0} /\ MaxWrites \in Nat /\ SinkVersion \in 0 .. MaxVersions

VARIABLES
    writes,       \* history: the values written, in order
    accepted,     \* history: the writes that returned nil
    producer,     \* the producer's queue: [event, message]
    topic,        \* what was delivered
    undelivered,  \* events whose delivery failed or that were in the queue at Close
    sinkOpen,
    flushedAt,    \* history: writes accepted before the last Flush returned
    received      \* history: what messageToEvent made of each message of the topic

topicVars == <<writes, accepted, producer, topic, undelivered, sinkOpen, flushedAt, received>>

TopicInit ==
    /\ SchemaInit
    /\ writes = <<>>
    /\ accepted = {}
    /\ producer = <<>>
    /\ topic = <<>>
    /\ undelivered = {}
    /\ sinkOpen = TRUE
    /\ flushedAt = {}
    /\ received = <<>>

\* The wire form of a value: the codec's, or the JSON text, which has no magic byte.
Plain(v) == [id |-> 0, writer |-> 0, payload |-> v]
SinkMessage(v) ==
    IF Encode(v, SinkVersion) # NoMessage THEN Encode(v, SinkVersion) ELSE Plain(v)

SinkWrite(v) ==
    LET n == Len(writes) + 1 IN
    /\ sinkOpen /\ n <= MaxWrites
    /\ writes' = Append(writes, v)
    /\ Cached(SinkVersion)
    /\ \/ /\ Len(producer) < ProducerQueue
          /\ producer' = Append(producer, [event |-> n, message |-> SinkMessage(v)])
          /\ accepted' = accepted \cup {n}
       \/ /\ Len(producer) = ProducerQueue
          /\ UNCHANGED <<producer, accepted>>
    /\ SchemaFrame /\ UNCHANGED <<topic, undelivered, sinkOpen, flushedAt, received>>

\* The producer: external.
Deliver ==
    /\ sinkOpen /\ producer # <<>>
    /\ producer' = Tail(producer)
    /\ \/ /\ topic' = Append(topic, Head(producer)) /\ UNCHANGED undelivered
       \/ /\ undelivered' = undelivered \cup {Head(producer).event} /\ UNCHANGED topic
    /\ UNCHANGED <<writes, accepted, sinkOpen, flushedAt, received, schemaVars>>

\* Flush waits at most thirty seconds and returns nil whatever is left.
SinkFlush ==
    /\ sinkOpen
    /\ flushedAt' = accepted
    /\ UNCHANGED <<writes, accepted, producer, topic, undelivered, sinkOpen, received, schemaVars>>

SinkClose ==
    /\ sinkOpen
    /\ sinkOpen' = FALSE
    /\ undelivered' = undelivered \cup {producer[i].event : i \in DOMAIN producer}
    /\ producer' = <<>>
    /\ UNCHANGED <<writes, accepted, topic, flushedAt, received, schemaVars>>

\* A message that does not decode is parsed as JSON; when that succeeds the value of the
\* failed decoding is taken, when it fails (the magic byte is not JSON) the bytes.
EventValue(m) ==
    IF Decode(m) # Refused THEN Decode(m) ELSE IF m.id = 0 THEN Nil ELSE RawBytes

messageToEvent ==
    LET x == topic[Len(received) + 1] IN
    /\ Len(received) < Len(topic)
    /\ received' = Append(received, EventValue(x.message))
    /\ IF x.message.id = 0 THEN UNCHANGED regCache ELSE regCache' \in CachesAfterGet(x.message.id)
    /\ SchemaFrame
    /\ UNCHANGED <<schemaCache, writes, accepted, producer, topic, undelivered, sinkOpen, flushedAt>>

TopicNext ==
    \/ \E v \in Values : SinkWrite(v)
    \/ Deliver \/ SinkFlush \/ SinkClose \/ messageToEvent
    \/ SchemaNext /\ UNCHANGED topicVars

TopicSpec == TopicInit /\ [][TopicNext]_<<schemaVars, topicVars>>

-----------------------------------------------------------------------------
(* What the source reads is the value that was written, or no value, or the undecoded
   bytes, and never the value of another schema, however registrations, deletions, expiring
   caches and failures of the registry fall between the writing and the reading: the
   message carries the id it was encoded with, and ids keep their meaning. *)
ReadAsWritten ==
    \A i \in DOMAIN received : received[i] \in {writes[topic[i].event], Nil, RawBytes}

-----------------------------------------------------------------------------
(* "Fallback to JSON": the fallback yields the value. *)
FallbackYieldsValue == \A i \in DOMAIN received : received[i] # Nil

(* "Flush ensures all messages are sent". *)
FlushSends == flushedAt \subseteq {topic[i].event : i \in DOMAIN topic}

(* A write that returned nil is delivered or its failure reaches the caller. *)
AcceptedDelivered == accepted \cap undelivered = {}
=============================================================================
