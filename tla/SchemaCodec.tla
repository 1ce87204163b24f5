---------------------------- MODULE SchemaCodec -----------------------------
(***************************************************************************)
(* pkg/schema: the registry client with its cache of schemas by id         *)
(* (registry.go), the codec manager with its cache by subject and version  *)
(* and its three codecs (codec.go, avro.go, protobuf.go, jsonschema.go),   *)
(* and the validators (validator.go), for one subject.  A message on the   *)
(* wire is the magic byte, the schema id and the payload.  The registry    *)
(* service numbers schemas in the order of registration and never reuses   *)
(* an id; what it finds compatible is that every old value is still        *)
(* accepted.                                                               *)
(***************************************************************************)
EXTENDS Integers, Sequences, FiniteSets, FiniteSetsExt

CONSTANTS
    Schemas,          \* schemas that may be registered: [type, accepts, valid]
    Compatibility,    \* SchemaConfig.Compatibility
    CacheSize,        \* Config.CacheSize
    CacheTTL,         \* Config.CacheTTL, in ticks
    Registrars,       \* callers of RegisterSchema
    MaxVersions,      \* bound: versions registered
    MaxSchemaTime     \* bound: the clock

ASSUME SchemaAssumption ==
    /\ CacheSize \in Nat \ {0} /\ CacheTTL \in Nat /\ MaxVersions \in Nat /\ MaxSchemaTime \in Nat
    /\ \A s \in Schemas : s.type \in {"AVRO", "PROTOBUF", "JSON"}

VARIABLES
    versions,     \* the service: schemas by id, the id being the version too
    deleted,      \* the service: ids deleted for good
    registryUp,   \* the service answers
    regCache,     \* schemaRegistry.cache: id -> expiresAt
    schemaCache,  \* CodecManager.schemaCache: version asked for (0 for the latest) -> id, or 0
    registrar,    \* per caller of RegisterSchema: the schema it found compatible
    schemaNow,
    overlappedRegistration \* history: somebody registered between a check and its registration

schemaVars == <<versions, deleted, registryUp, regCache, schemaCache, registrar, schemaNow,
                overlappedRegistration>>

NoSchema == [type |-> "none", accepts |-> {}, valid |-> FALSE]
NotChecked == [schema |-> NoSchema, seen |-> 0]

\* The id 0 stands for an error of the service.
Live == {i \in DOMAIN versions : i \notin deleted}
Latest == IF Live = {} THEN 0 ELSE Max(Live)

-----------------------------------------------------------------------------
(* registry.go.                                                            *)

getFromCache(id) == id \in DOMAIN regCache /\ schemaNow <= regCache[id]

evictExpired(cache) == [i \in {j \in DOMAIN cache : schemaNow <= cache[j]} |-> cache[i]]

\* The caches addToCache may leave: when it is full an entry of any age goes.
addToCache(id) ==
    LET kept == IF Cardinality(DOMAIN regCache) >= CacheSize THEN evictExpired(regCache) ELSE regCache
        victims == IF Cardinality(DOMAIN kept) >= CacheSize THEN {{v} : v \in DOMAIN kept} ELSE {{}}
    IN  {[i \in (DOMAIN kept \ v) \cup {id} |-> IF i = id THEN schemaNow + CacheTTL ELSE kept[i]] :
            v \in victims}

\* GetSchema by id: what it returns, and the cache after it.  The faulty form asks the
\* service for the newest schema.
GetSchemaLatest(id) == IF getFromCache(id) THEN id ELSE IF registryUp THEN Latest ELSE 0
GetSchema(id) ==
    IF getFromCache(id) THEN id ELSE IF registryUp /\ id \in Live THEN id ELSE 0
CachesAfterGet(id) ==
    IF getFromCache(id) \/ GetSchema(id) = 0 THEN {regCache} ELSE addToCache(id)

\* GetLatestSchema and GetSchemaByVersion, which never look into the cache.
Fetch(version) ==
    IF ~registryUp THEN 0 ELSE IF version = 0 THEN Latest ELSE IF version \in Live THEN version ELSE 0

-----------------------------------------------------------------------------
(* codec.go and the codecs.                                                *)

getSchemaMetadata(version) ==
    IF schemaCache[version] # 0 THEN schemaCache[version] ELSE Fetch(version)

CachesAfterMetadata(version) ==
    IF schemaCache[version] # 0 \/ Fetch(version) = 0 THEN {regCache} ELSE addToCache(Fetch(version))

NoMessage == [id |-> 0, writer |-> 0, payload |-> "none"]
Nil == "nil"          \* a nil value
RawBytes == "bytes"   \* the bytes of the message
Garbage == "garbage"  \* what bytes of one schema mean under another

Refused == "refused"  \* what a codec that returns an error gives

\* The codecs.  Protobuf's populateMessage turns a map into the JSON of the empty message,
\* so that no field survives, and its messageToMap returns a map it never fills.
avroEncode(s, v) == IF v \in s.accepts THEN v ELSE Refused
jsonEncode(s, v) == IF v \in s.accepts THEN v ELSE Refused
protobufEncode(s, v) == Nil

avroDecode(id, m) == IF id = m.writer THEN m.payload ELSE Garbage
jsonDecode(id, m) == IF m.payload \in versions[id].accepts THEN m.payload ELSE Refused
protobufDecode(id, m) == Nil

getCodecEncode(s, v) ==
    CASE s.type = "AVRO" -> avroEncode(s, v) [] s.type = "JSON" -> jsonEncode(s, v)
      [] s.type = "PROTOBUF" -> protobufEncode(s, v)

\* Encode, NoMessage when it fails; writer is the schema the bytes were made with.
Encode(v, version) ==
    LET id == getSchemaMetadata(version)
        payload == getCodecEncode(versions[id], v)
    IN  IF id = 0 THEN NoMessage ELSE IF payload = Refused THEN NoMessage
        ELSE [id |-> id, writer |-> id, payload |-> payload]

\* Decode tries every codec; the one of the schema's type takes the message or nobody.
Decode(m) ==
    LET id == GetSchema(m.id) IN
    IF m.id = 0 \/ id = 0 THEN Refused
    ELSE CASE versions[id].type = "AVRO" -> avroDecode(id, m)
           [] versions[id].type = "JSON" -> jsonDecode(id, m)
           [] versions[id].type = "PROTOBUF" -> protobufDecode(id, m)

\* ValidatorOperator.Validate: an event that went through Encode and Decode, or none.
ValidatedEvent(v, version) ==
    LET decoded == Decode(Encode(v, version))
    IN  IF decoded # Refused THEN [ok |-> TRUE, value |-> decoded] ELSE [ok |-> FALSE, value |-> v]

-----------------------------------------------------------------------------
SchemaInit ==
    /\ versions = <<>>
    /\ deleted = {}
    /\ registryUp = TRUE
    /\ regCache = [i \in {} |-> 0]
    /\ schemaCache = [i \in 0 .. MaxVersions |-> 0]
    /\ registrar = [r \in Registrars |-> NotChecked]
    /\ schemaNow = 0
    /\ overlappedRegistration = FALSE

\* An Encode leaves the schema in both caches when it had to ask for it.
Cached(version) ==
    /\ schemaCache' = [schemaCache EXCEPT ![version] = getSchemaMetadata(version)]
    /\ regCache' \in CachesAfterMetadata(version)

SchemaFrame == UNCHANGED <<versions, deleted, registryUp, registrar, schemaNow, overlappedRegistration>>

\* The versions ValidateCompatibility asks about: which way it asks is the service's business.
LatestModes == {"BACKWARD", "FORWARD", "FULL"}
TransitiveModes == {"BACKWARD_TRANSITIVE", "FORWARD_TRANSITIVE", "FULL_TRANSITIVE"}
versionsToCheck(live) ==
    CASE Compatibility \in LatestModes -> {Max(live)}
      [] Compatibility \in TransitiveModes -> live
      [] Compatibility = "NONE" -> {}

Compatible(new, old) == old.accepts \subseteq new.accepts

\* The faulty form that takes one version for none.
ValidateCompatibilityFrom2(s) ==
    /\ registryUp
    /\ Cardinality(Live) > 1 => \A i \in versionsToCheck(Live) : Compatible(s, versions[i])

\* A mode that is none of the seven is an error as soon as there is a version.
ValidateCompatibility(s) ==
    /\ registryUp
    /\ Live # {} => /\ Compatibility \in LatestModes \cup TransitiveModes \cup {"NONE"}
                   /\ \A i \in versionsToCheck(Live) : Compatible(s, versions[i])

\* RegisterSchema of the codec manager: the format, then the check, then the service.
CheckSchema(r, s) ==
    /\ registrar[r] = NotChecked
    /\ s.valid
    /\ Compatibility # "NONE" => ValidateCompatibility(s)
    /\ registrar' = [registrar EXCEPT ![r] = [schema |-> s, seen |-> Len(versions)]]
    /\ UNCHANGED <<versions, deleted, registryUp, regCache, schemaCache, schemaNow, overlappedRegistration>>

\* The service returns the schema it has when it is there already.
Register(r) ==
    LET s == registrar[r].schema
        known == {i \in Live : versions[i] = s}
        id == IF known # {} THEN Max(known) ELSE Len(versions) + 1
    IN
    /\ registrar[r] # NotChecked
    /\ registrar' = [registrar EXCEPT ![r] = NotChecked]
    /\ \/ /\ ~registryUp
          /\ UNCHANGED <<versions, regCache, overlappedRegistration>>
       \/ /\ registryUp /\ id <= MaxVersions
          /\ versions' = IF known # {} THEN versions ELSE Append(versions, s)
          /\ regCache' \in addToCache(id)
          /\ overlappedRegistration' = (overlappedRegistration \/ registrar[r].seen # Len(versions))
    /\ UNCHANGED <<deleted, registryUp, schemaCache, schemaNow>>

\* DeleteSubject and DeleteSchemaVersion: the caches keep what they have.
DeleteVersion(i) ==
    /\ registryUp /\ i \in Live
    /\ deleted' = deleted \cup {i}
    /\ UNCHANGED <<versions, registryUp, regCache, schemaCache, registrar, schemaNow, overlappedRegistration>>

cleanupCache ==
    /\ evictExpired(regCache) # regCache
    /\ regCache' = evictExpired(regCache)
    /\ SchemaFrame /\ UNCHANGED schemaCache

ClearCache ==
    /\ schemaCache' = [i \in DOMAIN schemaCache |-> 0]
    /\ SchemaFrame /\ UNCHANGED regCache

SchemaClock ==
    /\ schemaNow < MaxSchemaTime
    /\ schemaNow' = schemaNow + 1
    /\ UNCHANGED <<versions, deleted, registryUp, regCache, schemaCache, registrar, overlappedRegistration>>

RegistryFails ==
    /\ registryUp' = ~registryUp
    /\ UNCHANGED <<versions, deleted, regCache, schemaCache, registrar, schemaNow, overlappedRegistration>>

SchemaNext ==
    \/ \E r \in Registrars : Register(r) \/ \E s \in Schemas : CheckSchema(r, s)
    \/ \E i \in DOMAIN versions : DeleteVersion(i)
    \/ cleanupCache \/ ClearCache \/ SchemaClock \/ RegistryFails

-----------------------------------------------------------------------------
(* The versions of the subject stay compatible, each with the one that was the latest when
   it was registered, as long as nobody registered between RegisterSchema's check and its
   call of the service and nothing was deleted. *)
CompatibleUnlessOverlap ==
    Compatibility # "NONE" /\ ~overlappedRegistration /\ deleted = {} =>
        \A i \in 1 .. (Len(versions) - 1) : Compatible(versions[i + 1], versions[i])

-----------------------------------------------------------------------------
(* "schema is not compatible with existing versions" keeps them compatible. *)
VersionsCompatible ==
    Compatibility # "NONE" => \A i \in 1 .. (Len(versions) - 1) : Compatible(versions[i + 1], versions[i])

(* "Version is the specific version to use (0 for latest)". *)
LatestUsed == registryUp /\ Latest # 0 => getSchemaMetadata(0) = Latest

(* Validate "updates event with validated/normalized value". *)
ValidKeepsValue ==
    \A s \in Schemas, i \in Live : \A v \in s.accepts :
        ValidatedEvent(v, i).ok => ValidatedEvent(v, i).value = v

(* A schema that was deleted is not written with any more. *)
DeletedNotUsed == \A i \in DOMAIN schemaCache : schemaCache[i] \notin deleted
=============================================================================
