# RoboPay in TLA+

Models, model-checking runs and machine-checked proofs for the program under
`src/`: a *tunnel* process on the robot that keeps a WebSocket open to a proxy,
serves paid `POST /action` requests that arrive through it, and publishes them on
a Zenoh topic from which a ROS 2 *bridge* drives the robot. Paths below are
relative to `src/`.

## 1. The system

| Component | Code | State | Operations |
|---|---|---|---|
| Tunnel client | `tunnel/internal/client.go` | backoff, connection, `writeMu`, one goroutine per connection and per request | `Run`, `dial` (nonce, handshake), `readLoop`, `dispatchRequest`, `writeEnvelope` |
| Process | `tunnel/cmd/main.go`, `tunnel/docker-compose.yml` | signal context, asset table | start, loop around `Run`, SIGINT/SIGTERM, container restart |
| Payment gate | `tunnel/internal/mppay/mppay.go` | none per process | dispatch on the `Authorization` header, `advertise` |
| Handlers | `tunnel/internal/handlers/handlers.go` | `sync.Once` Zenoh session | `PostAction`, `PublishRobotAction` |
| AIP agent | `tunnel/internal/aipagent/agent.go` | none | job handler, registration data |
| Attestation | `tunnel/internal/attest/` | per response: what was signed | `attestWriter`; `Verify` at the payer |
| Token registry | `tunnel/cmd/main.go:103-172` | x402's global asset table, `registeredNetwork` | `registerTokenAsset` |
| Configuration | `tunnel/config/config.go` | none | load, validate, default |
| Bridge | `bridge/` | Zenoh subscription | parse event, map to a velocity, publish |

Interactions. `main` builds the router and runs the client. The client reads
request envelopes, starts a goroutine per request that calls the router
in-process, and writes the recorded response back under one mutex. The router
stacks attestation, MPP gate, x402 and `PostAction`. `PostAction` and the AIP
handler share the Zenoh session. The bridge subscribes to the topic, parses each
event on a thread of Zenoh and publishes a velocity. Before all that `main` loads
and validates the configuration, may ask for an authorization, and ends the
process at the first error; the container starts it again.
Everything else (proxy, facilitator, MPP and x402 libraries, gin, the network)
is external, and modelled from how the code uses it.

What is hard: goroutines that captured a connection which is no longer the
current one; a write that blocks while it holds the mutex of all connections;
a process that dies, or a handler that panics, between charging, publishing, settling
and answering; a proxy whose
view of the session lags behind; two payment protocols that settle on different
sides of the handler; a response whose headers change after its status was
recorded; two clocks that bound the life of an attestation; defaults derived from
values that change later, or drawn at random at every start; a robot that keeps moving
until another order comes, driven by a node that a signal takes down under its callback.
`PROJECT.json` lists each hazard at its line with the properties that
cover it.

## 2. Modules

| Module | Models |
|---|---|
| `TunnelClient` | client, process, network and proxy |
| `RequestRelay` | the abstract promise of the tunnel about one request |
| `MCTunnelClient` | constants and symmetry for TLC |
| `TunnelClientProofs` | theorems about `TunnelClient`; that it implements `RequestRelay`, and loses no answer by itself |
| `PaidAction` | router, payments, Zenoh session, AIP handler |
| `PaidMotion` | the abstract promise of the router about one order |
| `PaidActionProofs` | theorems about `PaidAction`, and that it implements `PaidMotion` |
| `RobotOrders`, `RobotOrdersProofs` | tunnel, router and bridge together, composed of the two abstract promises; that orders and answers are kept |
| `TokenRegistry`, `TokenRegistryProofs` | the asset table |
| `AttestWriter`, `AttestWriterProofs` | the signing response writer |
| `Attestation`, `MCAttestation`, `AttestationProofs` | what a payer accepts of what was signed |
| `Config` | `LoadConfig` and `Validate` as operators |
| `Startup`, `MCStartup`, `StartupProofs` | `main` up to the first router, over `Config` and `TokenRegistry` |
| `Bridge`, `MCBridge`, `BridgeProofs` | the ROS 2 node and the three adapters |

Operators marked `MUTANT` stand beside the operator they alter. They are what a
plausible bug in that code would do, and each property is refuted by one of them;
no specification uses them.

### TunnelClient

`run` is the program counter of `Client.Run`: `select` (the context check),
`nonce`, `dial`, `sleep`, `reading`, `stopped` (returned to `main`). Connections
are numbered; `cur` is the latest, `conn[c]` the client's end of it, `link[c]` the
TCP link: `up`, `stalled` (packets vanish, nobody knows) or `down` (the kernel
knows). `watcher[c]` is the goroutine of `client.go:223`. For a request, `pc[r]`
is its dispatcher, `home[r]` the connection it captured, `exec[r]` how often the
robot was moved. `session` is the connection the proxy believes in, which may be
one the client lost long ago. The process may be killed at any point (`Crash`),
may end itself (`logger.Fatal`, the end of `main`) and is restarted
(`restart: unless-stopped`, which also covers a `Fatal`).

A nonce is `fresh`, `expired` or `spent`; the signature over it is not modelled.
An envelope's contents are reduced to the request id. A write to a stalled link
may return at once (the bytes sit in a socket buffer, `WriteBuffered`), or block until
the link is known to be down: both are possible at any time, and since `WriteJSON` has no
deadline (`client.go:352-357`) nothing forces either.

`RequestRelay` has no connection, mutex or goroutine: a request is accepted at
most once, acts at most once and only while it is handled, and is answered at
most once with the outcome its handler produced. `TunnelClient` implements it
under the mapping at `Relay`.

### PaidAction

`pc[r]` walks through gate, `verify`/`charge`, `handler`, the `sync.Once`
(`opening`), `publish`, `accept`, `settle`. `verified`, `charged` and `spent` are
what the payment protocols did, `bus` what reached the topic and with which tag,
`unpublished` the requests whose publish failed. x402 verifies before and
settles after the handler, and only if the handler answered below 400; MPP
settles before. Whether the gate exists is fixed by the configuration and
therefore a variable that never changes. `Restart` loses everything in flight
and the Zenoh session. `Panic` may end any request that is being served, at any step of
it: `gin.New()` recovers nothing, `dispatchRequest` does (`client.go:299-305`), answers 500
and the process goes on with whatever was charged or published. A panic inside
`zenoh.Open` completes the `sync.Once` with neither a session nor an error
(`zenoh = "missing"`), and every later publish panics on the missing publisher
(`MissingPublisherPanics`).

### TokenRegistry

`SetupRouter` is called with any sequence of configurations, which is the
contract stated at `main.go:113-127`. The program of today calls it once per
process: `main` would only rebuild the router if `Run` returned without
cancellation, and `RunReturnsOnlyWhenCancelled` shows that it never does. The
module therefore checks the contract of the function, not a reachable sequence.

### AttestWriter

One response, written by handlers that may set and append challenge headers,
record statuses, write, flush and return in any order. The attestation is the
challenge it signs: the canonical encoding has every field in fixed order, and
robot id, method and path do not change within a response. `Get` is
`http.Header.Get` and also what `dispatchRequest` relays (`client.go:340-344`).
`dirty` is a history variable: a challenge header changed after the last call of
the wrapper. gin's own final write, and `Flush`, do not pass through the
wrapper, so such a change is sent unattested; the property says exactly that.

### PaidMotion and RobotOrders

`PaidMotion` sees of `PaidAction` an order, its proof, the payment and the motion:
an order moves the robot at most once, while it is pending and proved; a payment
is taken once, by an order that has proved it or proves it by that; a receipt is
the answer to a payment taken. Both settlement orders, the lost answers of a
settlement, panics and restarts are steps of it. The topic of `PaidMotion` and `PaidAction`
is a set: a second publication of a pending order would not be told from the first here.
That an order acts at most once is `RequestRelay`'s promise, where acts are counted; one
that outlives its order is seen (`PublishRetried`).

`RobotOrders` composes `RequestRelay` and `PaidMotion`: a step of the handler is a
step of both, its publication is `Act` of the one and `Move` of the other, a panic
or the end of the process ends both. Because the detailed modules implement the
abstract ones, the composition need not repeat them. To these it adds callers
(`after[r]` is what the caller of `r` knew when it sent `r`), the topic as one queue
per Zenoh session, and a bridge that obeys events one after the other.

### Config and Startup

A field of the configuration is itself, `Unset` or `Bad` (its format check refuses
it); a private key is the address it derives. `Overlaid` is the precedence of the
environment, `Filled(c, id)` the defaults with the robot id that `uuid.NewString` draws if
none is written (`FreshIds`, another at every start), `Acceptable` the checks. The chain id
of x402's network may have any size (`config.go:127`), that of MPP's must fit 64 bits
(`Narrow`, `config.go:210`); `Presets` are the networks that `CHAIN` selects. The code interleaves
defaults and checks; the order matters only for the decimals (checked before the
default for the token, after it for MPP), and 0 passes either way. Fields that are
copied without a check (URLs, AIP names) are left out.

`Startup` lets an operator edit any field of `config.json` at any time, also while the
process starts (`Edit`). The environment is that of the container's creation
(`docker-compose.yml:8-14`: `environment` is fixed and only `config.json` is mounted), which
a restart keeps: to change it the operator makes a new container, which ends the process
(`Recreate`). `phase` follows `main`: `loading`, `authorizing`,
`checking` (`mppay.New`, `StakingSigner`), `building`, `serving`. The asset table is
that of `TokenRegistry`, of which `BuildRouter` takes the step `SetupRouter`.

### Attestation

`now` is the robot's clock, the payer's is `now + skew`; `Second` ticks make the
second to which `IssuedAt` is rounded down. A signature carries what it signs;
`Recovered` yields its key for exactly that message and an address of nobody for
any other. The header that arrives may be any envelope around any signature made
so far. `Sign` by `Others` may carry any date.

### Bridge

The main thread creates the publisher, subscribes, spins, undeclares and destroys, while
a callback may run. A signal shuts the context of rclpy down at any moment
(`Interrupt`), before `close` and `destroy_node` run: `node.py:67` asks `rclpy.ok()` for
this reason. In that window a callback's `publish` raises. Velocities are in tenths,
`NaN` is a parameter that is no number. `Events` has one value of each kind that the
parser and the mappers tell apart, among them `move`, the example action of the AIP job
offer.

## 3. Runs

| Run | Bounds | Checks |
|---|---|---|
| `TunnelSafety` | 2 requests, 2 faults, 3 connections | the safety properties of the client, refinement of `RequestRelay` |
| `TunnelEnds` | 2 requests, 1 fault | a signal ends the process, every dispatcher ends |
| `TunnelConverges` | 1 request, 3 faults | the robot is connected for good |
| `TunnelOwnSession` | 1 request, 1 fault | finding 1 |
| `PaidSafety` | 2 requests, 2 payments, 2 faults | the properties of paid actions, refinement of `PaidMotion`, every request ends |
| `PaidAccepted` | 1 request, 2 payments, 1 fault | finding 2 |
| `TokenRegistry` | 5 networks, 2 addresses, 2 decimals | the table follows the last configuration |
| `AttestWriter` | 2 values, 2 per header, 1 signing failure | a 402 is attested as sent |
| `RobotOrders` | 2 orders, 2 payments, 2 exits | order and answers end to end |
| `Startup` | 4 configurations, 1 edit, 1 exit, 2 ids to draw | what is served is what was written, a corrected configuration is served |
| `Attestation` | 2 challenges, 2 keys, 2 signatures, 2 responses, 6 ticks | what a payer accepts and for how long |
| `Bridge` | 3 robots, 4 speeds per parameter, 2 events | motion follows orders, within limits |

Why the bounds are enough. A late dispatcher and a current connection need two
requests and one fault; a stale session that is redialled, refused and restarted
needs two; `MaxFaults` limits only how often the environment misbehaves, and a
new connection is dialled only after a fault, so `MaxFaults + 1` connections are
all that can exist. Two requests are enough to race for a payment, for the opening of
the session and for the topic; what is said of requests is proved for any number of
them. In the token registry two networks with a shipped asset, one without and one that
is no `eip155` network are each present.
The proxy's answers to a handshake are one of each kind `handshakeRejection`
tells apart. The configurations to begin with are the repository's own examples and one
that uses everything; a default or a check relates at most two fields, so that one edit
away from them, and one more for `VettedLikeRestart`, which tries every change of the
file, the pairs occur. `ServesWhatIsWritten` and `Revalidates` are proved for all.
Replaying an attestation needs one signature and two responses, exchanging two
needs two signatures; the clocks agree, run ahead, lag, and lag by more than the
maximal age, and the tick is half a second so that rounding shows. A command that
should have ended another needs two orders and two events. Requests (and challenges) are
interchangeable and are declared symmetric in safety runs only, never where liveness is
checked.

Deadlock is not checked where the system may legitimately stop: a client that
was shut down, requests that have all ended, a response that was sent.

Properties of the client:

* `WriteExclusion`, `DispatchEnds`: one writer at a time, and a dispatcher that does not
  end waits for a write that blocks for good on an open connection, its own or that of the
  mutex's holder. This exception is a behaviour of the model, not a formality: without it
  the property is false, because the code bounds no write.
* `OneOpenConnection`, `SendFailureSevers`, `HealthyConnectionKept`: `Run`, the
  watchers and the dispatchers all close connections; none is leaked, none that
  works is closed, and none stays open for a response that failed.
* `NoncePresentedOnce`, `RunReturnsOnlyWhenCancelled`: retries.
* `AnsweredUnlessFault`, `RelaySpec`: what happens to a request that has acted.
* `ShutdownCompletes`, `EventuallyConnected`: liveness.

Properties of paid actions: `VerifiedBeforePublished`, `OneProtocolPerRequest`,
`ChargedForNothing` and `PublishedForNothing` (which name *every* way in which
money and motion can come apart: refused bodies, failed publishes, lost settlements,
restarts, and panics that `dispatchRequest` recovers), `OneReceiptPerPayment`,
`JobAcceptedMeansPublished`, `EveryRequestEnds`, `MotionSpec`.

End to end: `OrderKept` says when a robot obeys two orders as they were given.
Every request has a goroutine of its own (`client.go:289`), so an order that is sent
before the answer to another may overtake it, a stop among them; with the answer
in hand it may not, unless the tunnel was restarted between the two.
`AnswerExplained`: a path that was rejected cost and moved nothing, an answer that returned
is that of an order that ended, a motion never paid for was answered by a refusal or a
panic, and no two callers hold a receipt for the same payment.

Start: `ServesWhatIsWritten` reads the router off the file and the environment,
and so refutes the silent fall-backs of `main.go:142,235` for accepted
configurations. `Revalidates` and `VettedLikeRestart` check the contract stated at
`config.go:130` (vetting a candidate copy), which nothing calls yet; `Lasting` names
the defaults for which a vetted copy differs from a restart, `Drawn` the ids: without a
`robot_id` the live configuration keeps the one it drew, and the realm that defaults to it,
while a restart draws another. Every value of every field is tried but an unreadable file,
which is no candidate. `ServesOnceCorrected` is liveness, for corrections of the file, and
of the environment by a new container.

Attestation: `AcceptedWasServed`, `ReplayEnds` and `UnalteredAccepted` bound what a
payer accepts from both sides, up to the tick and the clock skew.

Bridge: `MovesAsOrdered`, which names the one speed that no limit bounds, and
`LastOrderObeyed`: from the moment the node subscribes until a signal comes, a robot whose
callback has nothing left to do does what the last order said that reached the subscriber.
The callback thread that runs before the constructor ends, unknown orders, and events that
are dropped or raise in between lose or undo none.

### Fairness

`ClientSpec` assumes weak fairness of the process's own goroutines: the Go
scheduler runs them, and a handler, a sleep and a write to a dead or working link end.
Nothing is assumed of a write on a stalled link (`DispatchProgress` leaves `WriteBuffered`
out): it may block for ever, with the mutex of all connections held.
A dial or a nonce fetch is assumed to end only once the context is cancelled,
because `http.DefaultClient` has no timeout. `TunnelEnds` needs nothing else.
`FairSpec` adds what the world does in the long run: the proxy answers, drops
sessions whose connection is dead, a rival leaves, TCP keepalive finds a dead
link, docker restarts the container. `PaidAction!FairSpec` assumes that the
middlewares and the Zenoh open return: the facilitator calls are bounded by 30
seconds (`main.go:226`). `Startup!FairSpec` assumes that `main` goes on and that the
container restarts it, with the environment it was made with; of the authorization it
assumes nothing, it may wait for its operator for ever.

### Findings

1. `TunnelOwnSession`. `robot_id_in_use` is terminal because "another robot is
   already connected with this id" (`client.go:34`). If the reply to an accepted
   handshake is lost, the id is held by the robot's own stale session, and the
   client gives up with `logger.Fatal`. This assumes a proxy that keeps a
   session until it notices that the connection is dead. Only the restart policy
   of the container brings the robot back, which is what `EventuallyConnected`
   relies on.
2. `PaidAccepted`. `PostAction` answers 200 `accepted` when the publish failed,
   and the payment is kept; `README.md:209` says the accepted action lands on the
   topic. The AIP handler reports the failure (`JobAcceptedMeansPublished`).

### Deviations the models reproduce

Met while modelling, and modelled as the code has them. No run is devoted to them;
where a property has an exception for one, it is named.

* `MPP_DECIMALS=0` "overrides" (`README.md:269`) and 0 is in the range named by the error
  message, but `config.go:250` takes 0 for an absent value and serves 6.
  `token_decimals` has the same step (`config.go:312`), visible in
  `ServesWhatIsWritten`.
* The README walks through the browser authorization "when neither is set"
  (`README.md:369`), token and `AIP_USER_ID`; `main.go:54` looks at the token alone
  (`Unauthorized`). A process that waits there is the exception of
  `ServesOnceCorrected`.
* The g1 mapper states the robot's limits and clamps every speed but
  `turn_linear_speed` (`mapper.py:33,36`): the exception of `MovesAsOrdered`.
* `parse_action_event` "returns None on parse failure" (`action_event.py:25`); JSON
  that is no object raises `AttributeError` in the callback instead (`ParseRaises`).
* The AIP job offer gives `{"action":"move",...}` as its example
  (`agent.go:63,69`); no adapter knows `move` or `rotate`, which stop the robot, while
  the job is answered `accepted`. `move` is one of `Events`.

## 4. Proofs

Every invariant of a passing run, the action property `HealthyConnectionKept` and the
refinements of `RequestRelay` and `PaidMotion` are theorems, for every value of the
constants. They rest on the assumptions named in the modules:

| Assumption | Says |
|---|---|
| `TunnelAssumption` | the bound is a natural number, a refusal has a status and a reason, `Junk` is no request |
| `PaidAssumption`, `OrdersAssumption` | the bound is a natural number |
| `BridgeAssumption` | robots are of the three kinds, a speed is an integer or `NaN` |
| `RegistryAssumption`, `ConfigAssumption`, `StartupAssumption` | values of different meaning differ, an id can be drawn, the defaults are valid, the samples are files and environments |
| `UnsetAssumption` | an error of `LoadConfig` is told from a `Config` |
| `AttestAssumption`, `AttestationAssumption` | bounds are natural numbers, a second has a length, `Nobody` has no key |

An invariant is seldom inductive as it stands. What each proof adds:

* `TunnelClientProofs`. `TunnelInv` adds to the properties what they need to be
  inductive: nothing is known of a connection before its handshake
  (`ConnHistory`, without which a dispatcher's `home` could be a connection that
  is dialled later and opens), a writer holds the mutex (`WriterLocks`), and a
  dispatcher that saw a write fail has a connection that is closed or broken
  (`FailureSeen`). From it follow `TypeOK`, `WriteExclusion`,
  `OneOpenConnection`, `SendFailureSevers`, `RunReturnsOnlyWhenCancelled`,
  `NoncePresentedOnce`, and as an action property `HealthyConnectionKept`.

  `ClientIsRelay`: `TunnelClient` implements `RequestRelay`. What the
  mapping needs is that a message is read once (`WireInv`: it is in one wire, and
  its request is new) and how far each dispatcher is (`ProgressInv`). There is
  one lemma per abstract step, and one for the steps the relay cannot see.
  `AnsweredUnlessFault` follows from `CalmInv`: without a fault or a signal there has
  been at most one handshake, its connection is open and its link up, and every
  dispatcher writes to it.
* `PaidActionProofs`. `PaidInv` has one part per concern: routes, ledger, bus,
  receipts, session. The ledger part says that a payment is charged to one
  request only; together with "a 200 is sent only for a payment that was taken"
  it gives `OneReceiptPerPayment`. The six safety properties of the run and `OneSession`,
  that at most one goroutine opens the Zenoh session, are proved, by
  one lemma per part over the steps of a request and one for `Restart`. A panic leaves
  the ledger and the bus as they are (`PanicLoses`).
  `ActionsKeepThePromise`: `PaidAction` implements `PaidMotion`, from `PaidInv` and one
  lemma per abstract step.
* `RobotOrdersProofs`. `OrderKept` speaks of what was obeyed, and nothing in it
  says why an order that is still on its way will not be obeyed too late. `OrdersInv`
  extends the order from the obeyed (`InOrder`) over each session's topic to the boundary
  between the two (`OrderInv`), and explains it (`AskedInv`): who is on a topic or was
  obeyed has acted, who was known to be answered when an order was sent *is* answered, and
  an answered order acts no more. What is put on a topic is therefore never behind what
  answered for it. `Budget` (each process but the first was preceded by an exit) bounds the
  sessions, and `HandlerInv` ties the end of an order's payment to where the order is,
  and `LedgerInv` (one taker per payment) to the other orders; from both `AnswerExplained` follows. `OrdersKeepRelay` and `OrdersKeepMotion` show that the
  composition adds no behaviour to either of its parts: each of its steps is one of
  `RequestRelay` and one of `PaidMotion`, or none. With `ClientIsRelay` and
  `ActionsKeepThePromise` these are the two contracts on which the detailed modules and
  the composition agree.
* `StartupProofs`. `StartupInv` says in which phases the configuration is a
  completed one of the file and environment as they were loaded, that the token
  and the gate of a completed configuration pass the later checks, and that the
  asset table of a fresh process is pristine. The lemmas about the operators of `Config`
  rest on one closed form of what `Validate` fills in (`FilledForm`): `Revalidates` is
  its idempotence (`CompletedFilled`), `ServesWhatIsWritten` reads it off.
  `VettedLikeRestart` compares two ways to one configuration. `LoadedInv` says that the
  live `Config` is the completed form of what is written, but for the credentials the
  authorization adds; `ChangedAlike` that changing any one field before or after
  completion leads to the same verdict and, but for the defaults `Lasting` names and the
  ids `Drawn`, to the same `Config`, whatever ids the first start, the vetting and the
  restart draw.
* `BridgeProofs`. `TwistInv`: the last velocity is the one the robot's table has for the
  last event served; `LifeInv`: which parts of the node exist when; `LastInv`: while
  the node is up, the last order is the last one on the topic, or else the one the
  callback works on, or else in force, from which `LastOrdersObeyed` follows. `DrivesBounded` bounds
  the tables of all three robots for any integer speed and `NaN`, through
  `ClampBounds`.
* `AttestationProofs`. The invariant says that a verdict is what `Verify` said when
  the response arrived, about a signature that existed by then; the bounds of
  `ReplayEnds` and `UnalteredAccepted` are arithmetic on it, for every maximal age,
  clock skew and length of a second.
* `TokenRegistryProofs`. Only the registered network is overridden; then
  `Memoryless`, `RegisteredIsOverridden` and type correctness.
* `AttestWriterProofs`. The memo is the attestation, and the attestation of a
  pending 402 is up to date once the wrapper has seen its headers.

Only model-checked is liveness, which with fairness and ENABLED is out of the prover's reach:
`ShutdownCompletes`, `DispatchEnds`, `EventuallyConnected`, `EveryRequestEnds` and
`ServesOnceCorrected`. So are the two findings, which are counterexamples. No module
declares a RECURSIVE operator and no proof needs induction over data: the one sequence
that grows, `obeyed`, and the topics are reasoned about by index.

## 5. Not modelled

* The AIP SDK (registration, polling of its gateway; the authorization only as a
  step of the start that ends, fails or never ends), x402, mpp-go, gin, Zenoh
  beyond what the code observes of them.
* Cryptography, encodings, logging, CORS, and the contents of requests,
  responses and events.
* Time: backoff values are kept, durations are not. That a proxy which accepts
  and closes is redialled without a pause (`client.go:221`) is not expressible.
* That each reconnect leaves a parked watcher behind (`client.go:223`): a bound on
  their number would be false.
* `PriceAmount`, `AIPEndpointURL` and the registration record of `agent.go`: data.

## 6. Plan

The plan was: `TunnelClient` and `RequestRelay`, the most concurrent part and its
promise; `PaidAction`, the money; `TokenRegistry`; `AttestWriter`; then the
verifying side (`Attestation`), the configuration and the start (`Config`,
`Startup`), the bridge, the abstract promise of a paid action (`PaidMotion`) and the
composition of the whole way (`RobotOrders`); proofs along with each. All of it is
done. What would come next:

1. The liveness properties as theorems, once a prover can do them; what would have to be
   shown for each is that a measure of the goroutines' program counters falls.
2. The job queue of the AIP SDK, once its source is at hand.
3. Time in `TunnelClient`, for the pace of redials.
