# Verification of FIWARE Monitoring

TLA+ models of this repository, the TLC configurations that check them on small
instances and the theorems TLAPS proves about them. Paths are relative to the
root of the repository; `adapter.js` is `ngsi_adapter/lib/adapter.js`, `common.c`
is `ngsi_event_broker/src/ngsi_event_broker_common.c`, and so on.

## The system

Nagios runs plugins that check hosts and services. An *event broker module*
loaded in its process sends the output of each plugin by HTTP to *NGSI Adapter*,
a Node server, which parses it and updates an entity in *Context Broker*. Other
sources may send the adapter datagrams.

    Nagios --callback--> event broker --HTTP POST--> NGSI Adapter --HTTP POST--> Context Broker
           (blocking)    (libcurl)                  ^ UDP          (retries, <= maxRequests sockets)

| Component | State | Operations | What makes it hard |
|---|---|---|---|
| Update delivery, `adapter.js` | requests in progress, the agent's sockets and queue, attempts left in each retry operation | HTTP and UDP listeners, `updateContext`, listeners of the outgoing request and its response, exit | 200 is answered before anything is done; errors, retries, resets and responses interleave over shared sockets; no timeouts |
| Parser factory, `factory.js` | `parsersCache`, Node's cache of modules | `getParser`, `getParserByName` | two caches over files that change |
| Parsers and update request, `base.js`, `nagios.js`, `parsers/nagios/*` | none between requests, but for the connections they share | `parseRequest`, `getContextAttrs`, `getUpdateRequest` | a line grammar decided with two flags; the entity's name passes four conversions, few of which escape it |
| Logging, `logger.js` | the context of each domain | `getContext`, `format` | listeners run in the domain of whoever opened the connection |
| Start-up, `main`, `config.js` | normalized options, bound endpoints | `config.check`, listeners | several failures, each with its own way out |
| Event broker, `common.c` | `adapter_url`, `region_id`, `host_addr`, the registered callback | `nebmodule_init`, `nebmodule_deinit`, `callback_service_check` | runs inside Nagios: whatever fails, the callback must return; settings of several loads |
| XIFI and FIWARE libraries | none | `get_adapter_request` | which entity a check is about |
| Argument parser, `argument_parser.c` | the position of getopt, the list | `parse_args` | the size of the list against options that share an argument |
| Service scripts, `tools/devops` | pid file, processes | start, stop, restart | stale pid files, concurrent runs |

Correctness, by component:

* delivery: the connections and the attempts are bounded; nothing waits while a
  socket is free; who waits is not overtaken; what is logged as done was done;
  giving up is final, announced and only after the last attempt; every accepted
  update is eventually reported if the broker's connections end;
* delivery, seen from outside: Nagios goes on whatever the broker does; an entity
  goes back to an older check only for reasons one can name; the traces of an
  outcome are those of its request as long as nothing waits for a connection;
* factory: failures are not cached, successes are; the path's order is respected;
* parsers and update request: exactly the multi-line format is accepted and no
  line is lost; the entity updated is the one the source means; what one source
  sends does not spoil the update of another;
* event broker: the callback works with complete settings of the last load; the
  monitoring host is one entity for as long as the module is loaded, and no check
  goes to the entity of a host it was not run on;
* argument parser: the list fits its memory and holds what the string says;
* start-up: endpoints fail one by one, and the adapter serves HTTP or exits;
* service script: the pid file names the adapter that runs, also after a stop that
  failed; no adapter runs when stop says so; restart does not pass off the old
  process for the new one unless its own stop failed.

`PROJECT.json` lists the hazards at their lines, with the properties on each.

## Modules

| Module | Models | Extended by |
|---|---|---|
| `Adapter` | `adapter.js`: listeners, `updateContext`, retries, callback; the agent, the broker and the network as external parts | `MCAdapter`, `AdapterProofs` |
| `Tracing` | `logger.js` over `Adapter`: whose context the traces of an outcome have | `Monitoring` |
| `Monitoring` | Nagios and its callback, `Adapter`, and one entity in Context Broker, composed | `MCMonitoring`, `MonitoringProofs` |
| `UpdateDelivery` | abstract: what the adapter promises of an update | instantiated in `Adapter` |
| `ParserFactory` | `factory.js` over changing files | `MCParserFactory`, `ParserFactoryProofs` |
| `NagiosParser` | `nagios.js` and the five probes | `UpdateRequest` |
| `UpdateRequest` | `base.js`: the request for Context Broker and what it reads; the API in `config.js` | `MCUpdateRequest`, `UpdateRequestProofs` |
| `ArgumentParser` | `parse_args` | `MCArgumentParser`, `ArgumentParserProofs` |
| `EventBroker` | `common.c`, `xifi.c`, `fiware.c` | `MonitoredHosts` |
| `MonitoredHosts` | which addresses the requests of `EventBroker` named, and which ones hosts had | `MCEventBroker`, `EventBrokerProofs` |
| `Startup` | `config.check` and `main` | `MCStartup`, `StartupProofs` |
| `Service` | the Debian service script, `tools/devops/debian/ngsi_adapter.init` | `MCService`, `ServiceProofs` |

The operators named `X_Something` and commented as a mutation of `X` are wrong
versions of `X`, each a plausible bug. They are not used by any specification:
put in the place of `X` they show which property notices.

### Adapter

Every action is one turn of Node's event loop, so what a listener does is atomic
and everything between listeners interleaves. `stage[r]` is where a request is:

    idle -> refused                                   405, 400, 404, unknown UDP parser
    idle -> receiving -> abandoned                    the probe hangs up
            receiving -> ticked -> done               the parser throws
    idle (UDP) -> ticked -> queued -> sent -> served -> responding -> done
                            ^                 |             |
                            +----- backoff <--+-------------+   connection error

* `HttpRequest`, `BodyEnd`, `UdpRequest` are the listeners (`adapter.js:142-226`).
  The status is answered before the body arrives; `BodyEnd` defers to the next
  tick, `ticked`.
* `UpdateContext` is `updateContext` up to the first `http.request`. Parsing is
  left to `NagiosParser`: here it succeeds or throws.
* `SendRequest` and `ReleaseSocket` are Node's agent with `maxSockets`
  (`adapter.js:47`): a request takes a socket or waits in `queue`.
* `Response`, `ResponseEnd`, `ResponseCut`, `ResponseReset`, `AbortedEnd` and
  `ConnectionError` are what Node (4.5, the version in `package.json`) calls for a response that
  completes, one whose connection is closed before the last byte ('end' only),
  one that is reset (first 'error' and then 'end') and a connection that breaks
  before any response. `cut` remembers who had a response cut.
* `OnError` is the 'error' listener with `operation.retry`, `RetryTimer` the
  next attempt, at least a second later: `AbortedEnd` takes ticks, so it comes
  first.
* `BrokerUpdate` and `StrayUpdate` are the broker performing an update while its
  connection is open or after it broke: it may perform it without us knowing.
* `Outcome` is `updateContextCallback`; `reports[r]` is the sequence of outcomes
  it logged. A body that is no JSON makes `JSON.parse` throw inside the 'end'
  listener; the error reaches the domain that is active, which logs it, so the
  outcome is `unreadable`.

`UpdateDelivery` is at-least-once delivery: an update is dropped or accepted,
delivered up to `MaxDeliveries` times while the adapter runs or after, claimed as
performed only with evidence, and settled once. `Adapter` implements it with
`MaxDeliveries <- Retries + 1`, forgetting sockets, queue and connections
(`PhaseOf`, `Claimed`). A claim may come before settling and without it: that is
the reset response of the first finding.

### Tracing

`Tracing` adds to `Adapter` whose domain the connection of each request belongs
to. In Node 4.5 the 'error' listener runs in the domain in which `http.request` was
called, which is that of the request in every attempt; 'end' is emitted by the
response, in the domain of the connection. A request that finds a free socket
opens it in its own domain; for one that waits, the agent opens or hands over a
connection when another request lets go of its own, in the domain of *that* one
(with a finite `maxSockets` no idle connection is kept for later requests).
So `GetContext` may answer the context of another request, and the 'end' listener
writes the correlator of the response there. `TracesApart` says that this takes
a request that has waited; nothing else mixes traces. A response made by
something on the way (`BadGateway`) has no correlator.

### Monitoring

Nagios processes the checks of `Schedule` in turn; `nagios` is the request whose
answer its callback is waiting for. A request reaches the adapter only after
Nagios has sent it, and the callback returns when the adapter has answered, when
it is gone or when the connection breaks. All other steps are those of `Adapter`
with `Tracing`. `value` is the update the entity has, `arrived` the order of the
first attempts. `OrderKept` names every way in which the entity goes back from a
later check to an earlier one: the earlier update was attempted again, or left
behind by a broken connection, or its body came later. With more than one socket
it does not hold, since two connections are not ordered.

### ParserFactory

`file[d][n]` is what the administrator keeps under a name in a directory,
`module` what Node remembers of it and `cache` is `parsersCache`. Only files that
load are remembered by Node, with or without a `parser` in them. A lookup
(`GetParserByName`) is atomic, because `require` is synchronous; files change
between lookups.

### NagiosParser

A line is what its split by bars yields; results are positions in the body. One
`ParseLine` is one turn of `lines.forEach`. The attribute of a probe is the
number some field of its first line leads with, so `getContextAttrs` is reduced
to which field and whether it is a number. A text followed by a lone bar is
`textBar`: its second part is the empty string, which the code takes for none.

### UpdateRequest

It extends `NagiosParser` with what comes before and after a parse, one request
after another. A text is a sequence of the characters that some conversion
changes; `a` stands for all others and `wide` for any out of ASCII. An escape, as
`%20`, is taken for one character, which is decoded as a space; `%` is a percent sign
that begins no escape.

* `asked` is the entity the source means. The event broker module writes it in the
  query as it is (`ngsi_event_broker_common.h:151`), any other client escapes it:
  `Sources`. `Query` is what Node and `url.parse` make of it (`adapter.js:162`): bytes
  become characters, escapes are decoded, a plus becomes a space, an ampersand ends the
  parameter and a hash the query, so that one in the identifier loses the type; a space
  breaks the request line. In a value with a malformed escape querystring (Node 4.5)
  decodes byte by byte and the result as UTF-8, which is the one case in which wide
  characters come out as they were (`QueryValue`).
* `GetUpdateRequest` is `getUpdateRequest` up to `http.request`, which throws for a
  space in the path. `UpdatePath` and `UpdateBody` are where the entity is named:
  in the path for API v2, unescaped; in the JSON body for the older API, escaped.
  `ApiOf` is what `config.check` makes of `brokerUrl`: of two slashes it makes the
  default, and of a slash too many behind a name an API that no one knows.
* `SendUpdate` is the request on a connection. `ContentLength` counts characters and
  `Bytes` what is sent, so `leftover` bytes may stay behind the end of a body; the
  next request on that connection is behind them (`SendSpoiled`).
* `Target` is the entity Context Broker (external) reads. In a path of API v2 a slash or
  a question mark in the identifier ends it, so there is no such resource (`Readable`);
  escapes are decoded (`Decoded`), and the type is a parameter of a query again
  (`FormValue`). A hash or a malformed escape has no place in the path of a request, and
  it is refused. Nothing is assumed of the names that a broker may refuse for its own
  reasons: one that refuses more performs less.

`EntityKept` is an equivalence: the entity updated is the one meant exactly for the
names of `Plain`, which lists what all the conversions spare. So it says also that
every other name, with an update performed, hits a different entity: the
identifiers of interfaces, which have slashes in them, do not work with API v2.
`NeighbourSpared` says that nothing else a source sends can spoil the update of
another. Datagrams are left out: their body is a Buffer, for which `parseRequest` of
these parsers throws.

### ArgumentParser

getopt (external, glibc) reads a token letter by letter. A token that is a dash
alone is a word for getopt but looks like an option when it is taken as a value;
`--` ends the options. `optlist` keeps the token of each option and of its value.

### EventBroker

One action is one call of Nagios into the module, but for the callback, which is
split where it waits for the adapter (`curl_easy_perform`). Nagios runs one
function of its modules at a time, so nothing but the environment changes
meanwhile: that is the guard `request = NoRequest`, and no property is about it. `library` is the one of the two
libraries that is loaded. A check is what the code asks
of Nagios about it; only the cases it compares with are told apart. The crash of
a null type (`_entity_type null` in Nagios) and of an NRPE option without value
are outcomes of the callback.

### MonitoredHosts

The entity of a host is its address in its region, so a check that is sent under the
address of another host updates the entity of that one. `MonitoredHosts` adds to
`EventBroker` the addresses each name has had since the module was loaded (`resolved`)
and those that were sent for each host (`named`), which is the one the plugin ran on:
the remote one of `check_nrpe`, or this one (`HostOf`, out of the check and not out of
what the code decides). `HostsNotConfused` says that local checks name one address from a
load to the next, whatever the name of this host resolves to meanwhile, and that no
host is named by an address it has not had. It does not say that a remote address
is never this host's: both names may resolve to it. What is left to the code is
that a request without an address of its own host is not sent under what another one
left (`common.c:178`, `resolve_address` in `xifi.c`). Checks without a command line are
left out, because no one knows what program they ran.

### Startup

`Main` is one turn of the event loop: `config.check`, which exits at the first
error, and the calls that begin to bind the addresses. How each ends is an action
of its own, in any order, because names of hosts are resolved by a pool of threads.
`holder` is who has each UDP address: an endpoint, another program or nobody.
After a UDP error the socket of that endpoint is closed; an HTTP error is an
uncaught exception and ends the process.

### Service

Every action is one command of the script, run by each of `Admins`.
start-stop-daemon is external: with no more than a pid file it takes any live
process of that pid for the daemon (`Running`). `StopWait` is the process that ends
with SIGTERM or SIGKILL, `StopFails` the one that is still there 5 seconds after
SIGKILL: `do_stop` returns 2 at once and leaves the pid file (`ngsi_adapter.init:82`).
Its second call, by `--exec`, finds nothing, because what runs is node, and so never
fails (line 90). `StopReturn` is what follows `do_stop`: the end of stop, or
`do_start` for restart, which does not look at what it returned. `Checkup` may fail in
either. `AdapterListens` and `AdapterExits` are what `Startup` has in detail.

The three properties are about the two ways in which stop and restart could deceive:
`StopMeansStopped`, that 0 or 1 is returned with the adapter running, and
`RestartReplaces`, that restart ends with 1, shown as a success, because of a process
that its own stop left. That does happen when stop fails, and the property says that
it takes that: a pid file that is stale, or a pid that was used again, is not enough.
`Managed` says that a failed stop keeps the file of what it could not end. The run has
one administrator, because nothing keeps two runs of the script apart: with two in
`Admins` they do not hold, for one run removes the pid file that the other has just
written. Nor is `start` right to refuse when the pid of a stale file is another
program's, which is what `Others` adds.

## Runs

| Run | Instance | Question |
|---|---|---|
| `adapter_retry` | one HTTP request and one datagram, 1 retry, 1 socket, ngsi10, fair | are sockets bounded and never lost? does what is logged agree with what the broker did, whatever breaks? is every accepted update reported? does the adapter implement `UpdateDelivery`? |
| `monitoring` | two checks of one entity, 1 retry, 1 socket, v2; fair to Nagios only | does Nagios go on whatever the broker does? can the entity go back to an older check? whose traces are written? |
| `adapter_once` | one HTTP request, 1 retry, ngsi10 | violation: the callback runs twice |
| `factory_lookup` | two probes, two directories | which caches are stale and which are not? |
| `factory_unknown` | one of two names is inherited | violation: an unknown probe is accepted |
| `update_request` | bodies of up to 4 lines, names of up to 2 characters, 7 forms of the broker's path | is exactly the format accepted? is the entity updated the one meant? does one request spoil the next? |
| `arguments` | strings of up to 4 tokens of up to 2 letters, 3 of them seen | does the list fit and hold what it should? |
| `arguments_flag` | up to 2 tokens | violation: an option without value crashes |
| `broker` | either library, two values per option, two addresses | are the settings those of the last load? is each host named by its own addresses, and this one by one? |
| `broker_type` | the same | violation: an explicit type that is not first is not seen |
| `startup` | paths of up to 2 of 3 names, two of them one directory; up to 2 endpoints, 2 addresses, other programs; fair | is the path kept in order, once each, and readable? do endpoints fail alone? is HTTP served if the process stays? |
| `service` | one administrator, 3 pids, reused | is the adapter always in the pid file? does stop stop it, or say that it could not? does restart replace it? |

Bounds. One socket and two requests make each request wait for the other, in a
first attempt or a retry; a second socket would only hide the queue. The order of
the queue needs two that wait, and so a third request, which is too much for TLC with
retries and liveness: it is proved, for any number of requests, and not checked
(`QueueInOrder`). One retry
has all of a first attempt, a repeated one and a last one. The two APIs differ in
what a 200 proves, so the first run takes the one where it may be false and
`monitoring` the other. Two checks are an earlier and a later one. Names of two
characters have each special one last, the empty and the plain name, and a wide
character before a malformed escape; the seven
paths of the broker are the default, the three APIs in either case, with and
without a slash, and two with a slash too many. Two directories have a first and a later one. Four lines have a first line, text
before a compound line, the compound line and one of performance data, or a second
compound line too many. Two letters per token are an option and its value, or two
options in one token; the fourth token is beyond what argv has room for. Two
endpoints may have one address or two. Three pids are a stale one, the adapter's
and one to spare. Nothing
is bounded by a state constraint: `attempts` is bounded by `Retries`, and all
other counters by it. Deadlock is not checked where the system stops by itself
(all requests done or the process gone, the parse ended).

Fairness. `NodeFairness`: pending ticks, timers and 'end' events are eventually
delivered, as the event loop does. `BrokerFairness`: a connection is in the end
answered, closed or broken. The code does not see to that, for it sets no timeout
on its requests, so a broker that keeps a connection open without answering keeps
its socket, and `maxRequests` of them stop the adapter. `EventuallyReported` says
that this is the only way to strand an update short of exiting; nothing is
assumed of clients, of new requests or of the broker performing anything.
`MonitoringSpec` assumes neither: only that a request reaches the adapter that runs
and that the callback reads its answer, because `NagiosProgress` rests on nothing
but the listener answering before it does anything else. In
`Startup`, Node runs `main` and reports in the end how `listen` ended.

## Findings

1. `adapter_once`: a connection reset after the headers of a response runs the
   callback for the truncated response and for the error, between retries too.
   `CallbackOncePerResponse` in `adapter_retry` gives its extent.
2. `factory_unknown`: `parsersCache` is an object literal, and a request for the
   probe `constructor` is answered 200 where the manual promises 404.
3. `arguments_flag`: `parse_args` copies the null value of options without one;
   the XIFI library gives it two such options for NRPE.
4. `broker_type`: only the head of the list of custom variables is compared with
   `ENTITY_TYPE`.

## Proofs

`AdapterProofs` proves for all finite sets of requests, any number of retries and
sockets and both APIs:

* `TypeCorrect`: `TypeOK`, inductive by itself.
* `QueueCorrect`: `QueueMatchesStage`. It is inductive with `TypeOK`: an action
  that appends takes a request that was not queued, and `ReleaseSocket` moves the
  head of the queue out of it and out of its stage in the same step.
* `SocketsBounded` and `NoSocketLost`: `SocketBound` and `WorkConserving`. Neither is
  inductive alone: that a socket handed over keeps the number of active requests
  needs that the head was not active (`QueueMatchesStage`), and that appending
  only happens at the limit needs `WorkConserving`. The steps are counted with
  the cardinality facts of `FiniteSetTheorems`.
* `QueueInOrder`: `NoOvertaking`. `StepKinds` reduces the actions to what they do to
  stages and queue. That a request which waits is never overtaken by one that finds a
  free socket needs `WorkConserving`: while the queue holds someone, none is free.
* `DuplicatesBounded`: `DuplicateBound`, from an invariant that accounts for
  every attempt: updates performed plus copies that may still be, plus the one on
  its way, never exceed the attempts made.
* `SuccessCorrect`: `SuccessIsApplied`, from what a response in progress says of
  the update: a reply of success is only received in `responding` after the
  update was performed.
* `FailuresFinal`, `CallbacksCounted` and `RepliesFinal`: `FailureIsFinal`,
  `CallbackOncePerResponse` and `ReplyIsFinal`, all from one invariant, `Told`. The
  number of calls of the callback is not inductive, for a response that was reset
  still has its 'end' to come while the next attempt is on its way. `Told` counts the
  calls due with those made: together they never exceed the attempts, plus one when
  the request is over. A call before that is only possible after a cut.
* `ImplementsDelivery`: `DeliverySafety`. The refinement mapping is `PhaseOf` and
  `Claimed` of `Adapter`. One lemma per step of `UpdateDelivery` says which change of
  phase, claim and count it is, and `StepImplements` gives each action of the adapter
  its step or none. It needs all the invariants above: `Deliver` that attempts are left
  (`AttemptsAccounted`), `Claim` and `Settle` that there is evidence for what is claimed
  (`ClaimsBacked`), and the late 'end' that its request was accepted (`Told`).

`EventBrokerProofs` proves, for both libraries and any values and addresses:

* `SettingsCurrent`: `SettingsAreCurrent`. An option that is not given keeps what
  its variable had, so the invariant needs that the variables are null between
  loads (`Released`), which is what the call to `nebmodule_deinit` on every
  failure is for.
* `HostsCorrect`: `HostsNotConfused`, in `HistorySpec`. The invariant (`HostsInv`) is that
  what names resolve to now is in the record, with the local address that the module
  found when it was loaded, and that what was named for this host is that address
  only. `AddressBuilt` is a lemma on every result of `get_adapter_request`, by the
  program of the command line.
* `BrokerTypes`: `TypeOK`. A URL has values of both options in it because the
  callback only runs with complete settings, so it needs the invariant of
  `SettingsCurrent`, and `UrlBuilt`, what every result that is a URL is made of.
  `FirstVariable` comes with it: the type sent is that of the first custom variable or
  the implicit one, which is all that is left of `ExplicitTypeSupersedes`.

`MonitoringProofs` proves of the composed system, for any schedule of checks:

* `SystemRunsAdapter`: every behaviour of `MonitoringSpec` is one of `Adapter`, so
  that all of the above holds in it. The other two theorems use that.
* `TracesNotMixed`: `TracesApart`. While nothing has waited the domain of every
  connection is that of its request and no context has another's correlator
  (`TracingInv`); a step ends one response at most (`OneEnds`).
* `UpdatesInOrder`: `OrderKept`, for `MaxRequests = 1`, the case in which it is
  stated. That the queue is in order is not enough. The invariant is `BehindFirst`:
  who was first attempted after an update that is still in its first attempt, waiting
  or on its connection, is in the queue, on its own first attempt, behind it. Then
  `AttemptsAccounted` says that Context Broker has performed nothing of it.

`ParserFactoryProofs` proves, for any number of directories and any names:

* `FactoryTypes`, `RefusalsCurrent`, `FirstDirectory`, `ParserStable` and
  `InvalidReported`: the type invariant and the four action properties of the run. The
  properties follow from the types and from what one lookup finds: the least of
  the directories with a usable module (`ChosenDirectory`).
* `OthersRefused`: `UnknownIsRefused` for every name that is not inherited from the
  prototype of the cache, the exact extent of the second finding.

`UpdateRequestProofs` proves, for bodies of any number of lines, names of any length and
any path of the broker's URL:

* `FormatDecided` and `LinesKept`: `GrammarDecided` and `NoLineLost`, from `ParserInv`,
  which says what the variables of the parser hold in terms of the lines done and of
  the compound line among them. Neither flag alone tells what was read.
* `EntityIdentified`: `EntityKept`, in both directions. The invariant
  (`RequestInv`) is that what was read is `Query(asked)`; the rest is what the four
  conversions do to any text. `FormValueIs` says that a value is read as it was written
  exactly if it has no separator, plus or escape, `DecodedIs` the same of a path and
  `ModuleText` of the query of the module, where wide characters are only kept beside a
  malformed escape. That case never counts, since the older API keeps no wide
  character and API v2 no malformed escape (`OlderKept`, `V2Kept`).
* `OthersSpared`: `NeighbourSpared`, because bytes are only left over behind a body of
  the older API with wide characters (`TextBytes`: a text has more bytes than
  characters exactly if one is wide).
* `RequestTypes`, `RequestAccount` and `ParserAccount`: `TypeOK` and the two invariants.

`ArgumentParserProofs` proves, for any options and strings of any length:

* `ScanCorrect`: `TypeOK`.
* `ListFits`: `OptionListFits`. It is not inductive: `RoomLeft` counts the options
  stored against the tokens passed, so that as many elements are left as tokens. It
  holds although options may share a token because a scan that meets a second one
  has crashed or failed at the first.
* `EveryOptionCollected`: `AllCollected`, from `Collected`: every option passed is
  stored, and what is stored was passed, in its order.
* `OnlyFlagsCrash`: `ScanReturns` if every option takes a value (`Flags = {}`), the
  exact extent of the third finding. The XIFI library has such options, so
  this is no assumption about the code: it is where the finding ends.

`StartupProofs` proves, for paths of any length, any endpoints and addresses:

* `StartupTypes`, `EndpointsSeparate` and `StartupAccount`: `TypeOK` and `EndpointsApart`
  from `StartupInv`: nothing is bound or failed before the checks, and afterwards the
  states of the sockets and the holders of the addresses agree.
* `PathIsNormalized`: `PathNormalized`. The filter of `config.js:135` is a fold over the
  directories; `UniqueIs` says that each is in the result once, in the order of its
  first mention.

`ServiceProofs` proves `TypeOK` (`ServiceTypes`) for any administrators, and for one at a
time (`OneAdmin`) `Managed`, `StopMeansStopped` and `RestartReplaces` (`AdapterManaged`,
`StopTrue`, `RestartTrue`), for any pids and other programs. Beside `Managed`, the
invariant says what the script knows at each of its commands (`ScriptKnows`), and for
restart that the pid file is gone when it comes to start, unless stop failed
(`RestartInv`). `OneAdmin` is the hypothesis because nothing in the script keeps two
runs of it apart: with two the properties are false.

Data of any length. What folds and recursive functions of the library yield
(`FoldLeft`, `FlattenSeq`) is proved for sequences of any length. The prover cannot
use an induction theorem over a predicate, so `EveryNumber` states induction over a
*set* of numbers, from the fact that a set of numbers has a least one; the existence of
the functions that the library defines with CHOOSE is proved with it too (`UniqueFolds`,
`FlattenDefined`).

The assumptions are those the modules name on their constants
(`RetriesAssumption` and the others), which every run evaluates. They say that numbers
are numbers, that the null pointer is no value (`NullAssumption`), that a path of a URL
begins with a slash (`BrokerPathsAssumption`) and that the default directory has a
name (`DefaultNameAssumption`).

Only model-checked: liveness (`EventuallyReported`, `DeliveryProgress`,
`NagiosProgress`, `ServesHttpOrExits`), which is out of the prover's reach. Every
invariant and action property of the passing runs has its theorem. Only proved:
`NoOvertaking`, for the reason given with the bounds.

## Not modelled

* Lengths: the texts that the event broker cuts at `MAXBUFLEN` (`common.c:355`) and
  the traces it writes in a buffer of that size (`common.c:220`).
* The layout and the level of traces, in both programs (`log_level` included), and
  how the correlator of a check is made.
* The names of attributes and the values of their numbers.
* A request whose URL `url.parse` cannot read: the domain's 'error' listener answers it
  500 (`adapter.js:153-157`) where `HttpRequest` knows 405, 400, 404 and 200.
* The options of `config.js`, defined for a library that parses them.
* The status command, and the script of RedHat, which leaves what matters to
  functions of the system (`daemon`, `killproc`) and finds the pid of what it
  started in the output of `ps`.
* Packaging, builds (`Gruntfile.js`), release scripts, integration environment: no
  run-time behaviour.

## Plan

Every component with run-time behaviour has its module, and every safety property of
the runs its theorem. What is left, in this order: what the abstract `UpdateDelivery`
itself promises, for any updates and deliveries; the safety part of the liveness
properties, that is, that nothing but what the fairness conditions name can stop a
request; the extent of the first finding as an equivalence.
