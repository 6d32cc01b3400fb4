---------------------------- MODULE UpdateRequest ----------------------------
(***************************************************************************)
(* From the query and the body that NGSI Adapter is sent to the update     *)
(* that Context Broker reads: getUpdateRequest of lib/parsers/common/      *)
(* base.js, after NagiosParser, for the API that the broker's URL names.   *)
(* The identification of the entity goes through four conversions: the     *)
(* query that the source writes, the parsed query, the path or the JSON    *)
(* body of the request, what the broker takes out of them.  Requests are   *)
(* sent one after another, maybe through the same connection.              *)
(*                                                                         *)
(* A text is a sequence of characters, of which only those that some       *)
(* conversion changes are told apart: "wide" is any out of ASCII, with two *)
(* bytes in UTF-8; "%20" stands for the three characters of an escape and  *)
(* "%" for a percent sign that begins none; "a" is any other character.    *)
(* Bodies and paths are reduced to the parts that depend on the request.   *)
(***************************************************************************)
EXTENDS NagiosParser

CONSTANTS
    Names,          \* identifiers and types, of entities or missing
    BrokerPaths     \* paths of config.brokerUrl, slash by slash

Chars == {"a", "/", "?", "#", "&", "+", " ", "%20", "%", "wide"}
ASSUME NamesAssumption == Names \subseteq Seq(Chars)

\* What is told apart in a path: the names of the APIs, in lower case or not.  The
\* path of an http URL begins with a slash.
PathParts == {"/", "ngsi10", "NGSI10", "v1", "V1", "v2", "V2", "other"}
ASSUME BrokerPathsAssumption ==
    \A path \in BrokerPaths : path \in Seq(PathParts) /\ path # <<>> /\ path[1] = "/"

Entities == [id : Names, type : Names]
Nameless == [id |-> <<>>, type |-> <<>>]

Has(text, chars) == \E i \in DOMAIN text : text[i] \in chars

\* "module": the event broker module, which writes texts in the query as they are.
\* "client": any other that escapes them.
Sources == {"module", "client"}

BROKER_API_V0 == <<"ngsi10">>
BROKER_API_V1 == <<"v1">>
BROKER_API_V2 == <<"v2">>

VARIABLES
    brokerPath, \* path of config.brokerUrl, as given
    brokerApi,  \* config.brokerApi
    source,     \* who sent the request being processed
    asked,      \* entity that the source names
    entity,     \* entityId and entityType of the request's domain
    outcome,    \* how far the request is
    leftover,   \* bytes behind the end of the last request on the connection
    lastWide,   \* whether the last body on the connection had wide characters
    afterWide,  \* whether the request came behind such a body
    updated     \* entity that the broker updated, or Nameless

updateVars == <<brokerPath, brokerApi, source, asked, entity, outcome, leftover,
                lastWide, afterWide, updated>>
vars == <<parserVars, updateVars>>

\* config.check: one slash at the end is dropped, and the case.
Lower(text) == [i \in DOMAIN text |-> CASE text[i] = "NGSI10" -> "ngsi10"
                                        [] text[i] = "V1" -> "v1"
                                        [] text[i] = "V2" -> "v2"
                                        [] OTHER -> text[i]]
Trimmed(path) == IF Len(path) > 1 /\ Last(path) = "/" THEN Front(path) ELSE path
ApiOf(path) == IF Trimmed(path) = <<"/">> THEN BROKER_API_V0 ELSE Lower(Tail(Trimmed(path)))

Init ==
    /\ Idle
    /\ brokerPath \in BrokerPaths
    /\ brokerApi = ApiOf(brokerPath)
    /\ source \in Sources
    /\ asked = Nameless
    /\ entity = Nameless
    /\ outcome = "none"
    /\ leftover = 0
    /\ lastWide = FALSE
    /\ afterWide = FALSE
    /\ updated = Nameless

----------------------------------------------------------------------------
\* Text up to the first "&" or "#", where a parameter of a query ends.
Parameter(text) ==
    SubSeq(text, 1, SelectInSeq(text \o <<"&">>, LAMBDA c : c \in {"&", "#"}) - 1)

\* querystring of Node, and the broker: escapes are decoded, and a "+" is a space.
FormValue(text) ==
    [i \in DOMAIN Parameter(text) |-> IF text[i] \in {"+", "%20"} THEN " " ELSE text[i]]

\* Node takes each byte of the request line for a character.
BytesAsChars(text) ==
    FlattenSeq([i \in DOMAIN text |-> IF text[i] = "wide" THEN <<"wide", "wide">> ELSE <<text[i]>>])

\* url.parse(request.url, true).query in asyncRequestListener.  A malformed escape
\* makes querystring decode the value byte by byte instead, and then as UTF-8.
QueryValue(text) ==
    CASE source = "client" -> text
      [] source = "module" /\ Has(Parameter(text), {"%"}) -> FormValue(text)
      [] OTHER -> BytesAsChars(FormValue(text))

\* The type comes behind the identifier, and behind a "#" nothing is query.
Query(e) ==
    [id |-> QueryValue(e.id),
     type |-> IF source = "module" /\ Has(e.id, {"#"}) THEN <<>> ELSE QueryValue(e.type)]

\* A space breaks the request line; without identification the answer is 400.
Accepted(e) ==
    /\ source = "module" => ~Has(e.id \o e.type, {" "})
    /\ Query(e).id # <<>> /\ Query(e).type # <<>>

----------------------------------------------------------------------------
\* The attribute and the timestamp: digits, brackets and names.
ContextAttrs == <<"a", "a">>

\* MUTATION of UpdateBody: identifier and type are swapped.
UpdateBody_Swapped(e) ==
    IF brokerApi = BROKER_API_V2 THEN [attrs |-> ContextAttrs]
    ELSE [id |-> e.type, type |-> e.id, attrs |-> ContextAttrs]
\* getUpdateRequestJSON and getUpdateRequestJSONv2: the older API has the entity in
\* the body, escaped by JSON.stringify.
UpdateBody(e) ==
    IF brokerApi = BROKER_API_V2 THEN [attrs |-> ContextAttrs]
    ELSE [id |-> e.id, type |-> e.type, attrs |-> ContextAttrs]
Content(json) == IF "id" \in DOMAIN json THEN json.id \o json.type \o json.attrs ELSE json.attrs

\* API v2 has the entity in the path and its query, nothing escaped: Target tells what
\* is read out of them.
UpdatePath(e) == IF brokerApi = BROKER_API_V2 THEN e ELSE Nameless

\* MUTATION of ContentLength: taken before the timestamp is added.
ContentLength_Early(text) == Len(text) - 1
\* 'Content-Length': requestBody.length
ContentLength(text) == Len(text)
Bytes(text) == Len(BytesAsChars(text))

\* http.request throws on a space in the path.
Unescaped(path) == Has(path.id \o path.type, {" "})

\* getUpdateRequest: parseRequest, getContextAttrs, the checks, then http.request.
\* A failure is logged, and nothing is sent.
GetUpdateRequest ==
    /\ stage \in {"parsed", "invalid"}
    /\ \E e \in Entities : Accepted(e) /\ asked' = e /\ entity' = Query(e)
    /\ \E empty \in {metric = 0 : metric \in Metrics} :
          outcome' = IF \/ stage = "invalid"
                        \/ empty
                        \/ entity'.id = <<>> \/ entity'.type = <<>>
                        \/ Unescaped(UpdatePath(entity'))
                     THEN "failed" ELSE "built"
    /\ Release
    /\ UNCHANGED <<brokerPath, brokerApi, source, leftover, lastWide, afterWide, updated>>

----------------------------------------------------------------------------
\* Context Broker (external) reads a URL as the standards say: a slash or a question
\* mark in the identifier makes it the path of another resource, where there is nothing
\* to update, and a malformed escape or a fragment are refused.
Readable(path) == ~Has(path.id, {"/", "?"}) /\ ~Has(path.id \o path.type, {"#", "%"})
Decoded(text) == [i \in DOMAIN text |-> IF text[i] = "%20" THEN " " ELSE text[i]]

\* The entity of a request, Nameless if it has no resource of the API.
Target(path, json) ==
    CASE brokerApi \in {BROKER_API_V0, BROKER_API_V1} -> [id |-> json.id, type |-> json.type]
      [] brokerApi = BROKER_API_V2 /\ Readable(path) ->
            [id |-> Decoded(path.id), type |-> FormValue(path.type)]
      [] OTHER -> Nameless

\* The request is read from a connection, new or left by an earlier one.  A body cut
\* short is no JSON, and what is behind it is read as the next request.
SendUpdate(reused) ==
    LET text == Content(UpdateBody(entity))
    IN /\ outcome = "built"
       /\ ~(reused /\ leftover > 0)
       /\ leftover' = Bytes(text) - ContentLength(text)
       /\ updated' = IF leftover' # 0 THEN Nameless
                     ELSE Target(UpdatePath(entity), UpdateBody(entity))
       /\ outcome' = IF updated' = Nameless THEN "refused" ELSE "performed"
       /\ lastWide' = Has(text, {"wide"})
       /\ afterWide' = (reused /\ lastWide)
       /\ UNCHANGED <<parserVars, brokerPath, brokerApi, source, asked, entity>>

\* Behind leftover bytes the request makes no sense: the broker answers so, or it
\* closes the connection and the attempt is repeated through another.
SendSpoiled ==
    /\ outcome = "built"
    /\ leftover > 0
    /\ leftover' = 0
    /\ updated' = Nameless
    /\ outcome' \in {"refused", "built"}
    /\ lastWide' = FALSE
    /\ afterWide' = lastWide
    /\ UNCHANGED <<parserVars, brokerPath, brokerApi, source, asked, entity>>

ParseRequest == ParseLine /\ UNCHANGED updateVars

\* A request, when the previous one is done with.
NextRequest ==
    /\ outcome # "built"
    /\ ReceiveBody
    /\ source' \in Sources
    /\ asked' = Nameless
    /\ entity' = Nameless
    /\ outcome' = "none"
    /\ afterWide' = FALSE
    /\ updated' = Nameless
    /\ UNCHANGED <<brokerPath, brokerApi, leftover, lastWide>>

Next ==
    \/ ParseRequest
    \/ GetUpdateRequest
    \/ \E reused \in BOOLEAN : SendUpdate(reused)
    \/ SendSpoiled
    \/ NextRequest

Spec == Init /\ [][Next]_vars

----------------------------------------------------------------------------
\* Types of the parse, of the request and of what the broker makes of it.
TypeOK ==
    /\ body \in Bodies \cup {<<>>}
    /\ next \in 1..(Len(body) + (IF stage \in {"parsed", "idle"} THEN 1 ELSE 0))
    /\ data \in Seq(1..Len(body))
    /\ perfData \in Seq(1..Len(body))
    /\ multi \in BOOLEAN
    /\ stage \in {"idle", "parsing", "parsed", "invalid"}
    /\ brokerPath \in BrokerPaths
    /\ brokerApi = ApiOf(brokerPath)
    /\ source \in Sources
    /\ asked \in Entities \cup {Nameless}
    /\ entity \in [id : Seq(Chars), type : Seq(Chars)]
    /\ outcome \in {"none", "failed", "built", "refused", "performed"}
    /\ leftover \in Nat
    /\ lastWide \in BOOLEAN /\ afterWide \in BOOLEAN
    /\ updated \in [id : Seq(Chars), type : Seq(Chars)]

\* An API is named in any case, with a slash behind or not; no name is the oldest,
\* and then a second slash is dropped too.
V2Names == {"v2", "V2"}
OlderNames == {"ngsi10", "NGSI10", "v1", "V1"}
UrlNames(names) == \E v \in names : brokerPath \in {<<"/", v>>, <<"/", v, "/">>}
OlderApi == UrlNames(OlderNames) \/ brokerPath \in {<<"/">>, <<"/", "/">>}

\* The entities that every conversion on their way leaves as they are: the queries
\* of the module (ngsi_event_broker_common.h:151) and the paths of API v2
\* (base.js:82) are not escaped, and the length of a body is in characters (base.js:93).
Plain(e) ==
    /\ source = "module" => ~Has(e.id \o e.type, {"#", "&", "+", " ", "%20", "wide"})
    /\ \/ OlderApi /\ ~Has(e.id \o e.type, {"wide"})
       \/ /\ UrlNames(V2Names)
          /\ ~Has(e.id, {"/", "?", "#", " ", "%20", "%"})
          /\ ~Has(e.type, {"#", "&", "+", " ", "%20", "%"})

\* The entity updated is the one the source means, for exactly those; for any other,
\* the broker updates nothing or a different entity.
EntityKept == outcome = "performed" => (updated = asked <=> Plain(asked))

\* The update of such an entity is performed, whatever was sent before, unless the
\* connection comes from one of an older API with wide characters: what one source
\* sends spoils the update of another.
NeighbourSpared == outcome = "refused" /\ Plain(asked) => afterWide /\ OlderApi
=============================================================================
