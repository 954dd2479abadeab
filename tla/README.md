# T-PBFT in TLA+

This directory specifies the T-PBFT server and its client (`server/`, `client/`
of the repository): the request round, the trust and the groups it works with,
the configuration, the wire format and the processing timer, and besides them
the one interactive program that is committed with the server, the search on the
pages of its generated documentation. TLC checks the specifications on small
instances, TLAPS proves their safety for all. Source locations are given as
`file:line` below `src/`.

## The system

One server process creates `NUM_NODES` nodes (10 as shipped) on one salticidae
event loop. Each node has a network of its own and talks TCP to every other
node; a client process connects to all of them. Requests go through a round
with two groups of nodes chosen by trust:

    client --MsgGroup--> all nodes          every node queues the request
    lead   --MsgPrimaryConsensus--> primary group
    primary group --MsgPrimaryVerified--> lead
    lead   --MsgPreprepare--> rest of the consensus group   (signed by the group)
    rest   --MsgPrepare--> consensus group                  (signed by group and peer)
    the node where the quorum is reached --MsgSend--> consensus group
    consensus group --MsgReply--> client
    client --MsgAck--> the node whose reply completed its quorum
    that node --MsgNextRequest--> all nodes                 next request

### Components

| component | state | operations | works with |
|---|---|---|---|
| Node (`server/node.cpp`, `node.h`) | `requestQueue`, `busy`, `client_request`, `client_id`, `verified_message` per node | eight message handlers, `process_group_request` | all others; messages to nodes and clients |
| `RSAKeyGenerator` (`server/rsakey.cpp`) | static: `orderNumber`, `randomValue`, `prepared_messages`, the group key pair | signing, verifying, counters, key change | shared by all nodes of the process |
| `TrustManager` (`server/TrustManager.cpp`) | static: `trustMap`, `globalTrustMap`, `consensusGroup`, `primaryGroup` | trust updates, group selection | shared by all nodes |
| `Handler` (`server/handler.cpp`) | the nodes | construction: random trust, groups, lead, first group key | all |
| Client (`client/main.cpp`) | `verified_message`, two sending threads | multicast requests, count replies, acknowledge | nodes |
| Messages (`server/messages.*`) | none | two constructors for each of 19 message types, 9 of them used | node, client |
| Timer (`server/node.cpp:8-10,59-86`) | three globals at file scope | start, pause, reset | `process_group_request`, `preprepare_handler` |
| Configuration (`server/config.h`) | `NUM_NODES`, `D2`, `M2` | two group sizes, two quorums, each computed where it is used | all |
| Search on the documentation pages (`server/docs/html/search/search.js`, third-party, written by Doxygen) | field, two windows, two timers; in a frame the rows, what is open, the focus | handlers of keys, mouse, focus and timers | the box and its frame call each other |
| View change (`node.cpp:403`), checkpoint, indirect trust | - | never registered or called | - |
| Process and shutdown (`server/main.cpp`) | - | starts the nodes, waits for a signal | - |
| Rest of the documentation's scripts (`menu.js`, `menudata.js`, `dynsections.js`, `jquery.js`, `searchdata.js`, `all_*.js`; Doxygen's) | - | write the menu once, hold the index | search |

### What is hard here

* Handlers are atomic (one event loop), but messages on different connections
  arrive in any order: the close of a round can overtake the request it closes.
* Half of the round's state is static and shared by all nodes: the count of
  prepares, the order number, the lead, the group key. A node that is still in
  the last round changes them under a node that is in the next.
* Five places close a round (`node.cpp:191`, `211`, `311`, `366`, `384`), each
  repeating the same assignments by hand, and several nodes can close at once.
* Nothing is retried and nothing times out: the timer is never read. A round
  that loses a message it needs stands still.
* `pop_front` on an empty `std::list` kills the process. It is modelled as
  what the C library makes of it (`aborted`), an outcome after which nothing
  moves; the properties say when it can happen.

* The four sizes come from three values by casts that each drop their own
  fraction. For most numbers of nodes they do not fit each other.
* Trust is accumulated in place, in the order of the nodes, and a pair's entry is
  overwritten by whichever of its nodes comes later.
* In the search, eight handlers and two timers set four flags and a text by
  hand; focus moves between two documents by messages that arrive later.

What makes each component correct: the nodes agree on which requests are open
and in which order; each works on the front of its queue; a round has one
certificate, one quorum, one set of replies, one close; the client acknowledges
a request that is open and does so once; the counters never step over their
thresholds; rewards go to members of the groups that served; groups lie within
each other and hold the best; a request that every node holds is registered, or
dropped where the configuration cannot register it; what is written is what is
read; what is remembered as searched is on display and the focus is on something
that is.

## Modules

| module | what it is |
|---|---|
| `TPBFT` | The round: one action per handler of a node (`group_request_handler` ... `process_next_request`, collected in `Node` as `reg_handlers` does), `multicast` and `reply_handler` for the client, and the shared statics as variables. Also the type invariant and the properties the proofs are about. |
| `RequestLine` | Abstract: a line of requests that grows at the end and is closed at the front. |
| `RequestService` | Abstract: the front of the line is registered once and then retired, or dropped unregistered. Holds the instance of `RequestLine` it implements. |
| `RequestQueues` | Between the two and `TPBFT`: the queues, the requests and the closes on their way, and nothing of why a round is closed. |
| `Trust` | `TrustManager` and what `Handler` does with it: transactions to direct and global trust, ranking, groups. |
| `Sizes`, `GroupSizes` | The sizes as operators; all configurations as states, and which kind each is. |
| `SignedText` | The string that is signed, and that number and text can be told from it. |
| `Messages` | The wire format: the two constructors of each message type over a byte stream. |
| `Timer` | The processing timer. |
| `SearchBox`, `SearchResults`, `SearchPage` | The search box of the documentation pages, the page of results in its frame, and both composed. |
| `OneClient` | `TPBFT` with the one client the program is written for: the requests on their way to a node, the refinement mapping to `RequestQueues`, and agreement on the line. |
| `LockStep` | `OneClient` on a network that delivers the close of a round first, the refinement mapping to `RequestService`, and the properties of that network. |
| `MCTPBFT` | Instances of `LockStep` for TLC, and the properties that are only model-checked: liveness of a request. |
| `MCTrust`, `MCSearchPage`, `MCParts` | Instances of `Trust` and `SearchPage`; `GroupSizes`, `SignedText` and `Messages` in one instance, of which one moves. |
| `TPBFTProofs`, `TrustProofs`, `RequestQueuesProofs`, `TimerProofs`, `SearchPageProofs` | Theorems about the module of the same name and their proofs; `RequestQueuesProofs` also has those about `RequestService`. |
| `PartsProofs` | Theorems about `GroupSizes`, `SignedText` and `Messages`, the parts of `MCParts`. |
| `QueueProofs`, `LockStepProofs` | Theorems about `OneClient` and `LockStep`. The first extends `TPBFTProofs`, the second the first. |

### How `TPBFT` corresponds to the code

* **Names.** Variables and actions have the names of the members and handlers.
  `PROJECT.json` maps every definition to its lines.
* **Network.** `net[p][q]` is the connection from `p` to `q`, a FIFO queue.
  `Handle(n, q, out)` consumes the oldest message `n` has from `q` and sends
  `out`. A reply to a default `PeerId` (a node that has processed no request)
  goes nowhere, because `To` sends to peers only.
* **Closing.** `CloseRound` is the code shared by `ack_handler` and the
  rejecting and `max_prepared` branches; the three differ only in what they do
  to trust, lead and count, which stays in the handlers.
  `process_next_request` does less (no regrouping, no key, no multicast).
* **Handlers as a whole.** `Process` and `Proposal` are
  `process_group_request`; every action that pops or pushes the queue contains
  it. The groups it reads are the new ones (`primaryGroup'`), as in the code,
  where `getPrimaryGroup` runs before it.
* **Signatures.** `Sign(key, order, text)` verifies exactly with its own key,
  number and text. Nodes verify against *their own* `client_request`, as the
  code does; the text in the message is not read by anybody and is left out.
  The group key is a generation number that `changeGroupKey` advances. The
  concatenation of number and text is kept as a pair; `SignedText` is why.
* **Trust.** `ranking` is the order `std::sort` gives the global trust map. An
  acknowledgement may leave any ranking of a given set behind; nothing else
  changes it. `trust` counts what `updateTrust` recorded since the start, over
  all pairs; the random initial values matter only through the first ranking.
  `Trust` computes the ranking; both modules cut the groups from it alike.
* **Sizes.** `ConsensusSize`, `PrimarySize`, `PrepareQuorum` and `ReplyQuorum`
  are constants; the code computes them from `NUM_NODES`, `D2` and `M2`, as `Sizes` does.
* **Left out** because no code reads it: the `MsgAck` a node returns for a
  request, `num_acks`, the second copies of the groups in each node, the timer
  (which has its module).
* **Not modelled:** reconnection of a dropped connection (all peers of the
  shipped program are on one machine), several clients in the runs
  (`TPBFT` and its proofs take any set of clients; `server/main.cpp:37`
  describes a single one, which is what the runs use; with two, the nodes no
  longer agree on the order of the requests).

Definitions that end in `_mut` are faulty variants of the definition that
follows them. Nothing uses them; they record which bug of the code each property
notices.

### How the other modules correspond to the code

* **`Trust`.** The code computes in doubles, the model in exact fractions with
  one growing denominator (`unit`), so ties are real ties; `std::sort` may break
  them either way and so may the model. Sums over a hash map do not depend on
  its order when they are exact. `updateTrust` is called the way `prepare_handler`
  calls it.
* **`GroupSizes`.** A state is a configuration somebody may write into
  `config.h`; the fractions are tenths, from -0.1 to 1.1, and are clamped as in
  the code. The casts of a double are truncations of the exact quotient. The two
  agree for the shipped `M2`, all `D2` in tenths and up to 2000 nodes (compared by
  evaluating the code's expressions), and `QuorumsOffBoundary` says why they agree
  for the quorums of the shipped fractions: no quotient is ever within 1/30 of an
  integer. The group sizes are a product with 0.6, whose double lies below it,
  and a half, which is exact.
* **`Messages`.** Writing and reading are separate tables, because the code
  writes them separately, and one member is one step. A byte has `Base` values
  and a word `Width` bytes. `DataStream` is salticidae's and modelled by how it
  is used.
* **`SearchBox`, `SearchResults`, `SearchPage`.** A handler is an action, and so
  is what the browser does between handlers (editing the text, moving the
  focus). `SearchBox` has an action for what its frame does to it (`LeaveResults`);
  in `SearchPage` that happens only when a key in the frame does it. What is
  shown where on the screen and which file of results is loaded is left out: a
  search shows any run of neighbouring rows.

### Kinds of configuration

With the fractions as shipped (`D2` 0.6, `M2` 0.5) `GroupSizes` finds, and
`PartsProofs` proves where it is a property:

| nodes | kind | what becomes of a request |
|---|---|---|
| 1 to 3 | `Leaderless`: the primary group is empty | no lead; an empty range is drawn from and an empty vector indexed |
| 4 to 6 | `Lonely`: the lead alone | queued for ever, nothing else is sent (theorem `LonelySilent`) |
| 7, 8 | `Undersized`: fewer prepares than the quorum | never answered, dropped (run `undersized`, theorem `UndersizedSilent`) |
| 9, and every number above with remainder 1, 3 or 4 by five | `Starved`: fewer members than replies wanted | stands still (run `starved`; proved for 9, 11, 13 and 14, theorem `StarvedStands`) |
| 10, 12 | `Serves`, with one quorum per round | registered |
| 15 and above, with remainder 0 or 2 by five | `Doubled`: one round has prepares for two quorums | registered; the second quorum is up to the order of messages |

### Lock step

The code does not order the close of a round before the messages of the next
one. On an unrestricted network, TLC shows that a lead that has not yet heard of
the last closes can propose a closed request again and register it twice, and
that more closes than requests can be sent, after which the process dies. No
document claims that this cannot happen, so these are listed as hazards rather
than as violated properties. `LockStepSpec` states the assumption under which the
rounds *are* separated: while a `MsgNextRequest` is on its way, the next thing
that happens is a node reading from a connection that has one (`ClosesFirst`).
What is in front of the close on that connection is read before it, so closes are
not reordered within a connection, only preferred between connections. All peers
are on one machine and the client takes a full round trip, which makes this the
usual order; it is not enforced. An abort is a step like the others: that it
needs a close which overtakes its request is a property of this network, not an
assumption. The properties of `lockstep`, and those of `lockstep_tie` except
`RewardsStayInGroups`, are claims about this network only, and so are the theorems of `LockStepProofs`, but for `StarvedStands`. That theorem,
everything in `burst` and all theorems of the other modules hold on any network.

## Runs

All runs of the round have `CHECK_DEADLOCK FALSE`: the clients send finitely
many requests, and then everything stops. So do `trust` and `parts`, whose bounds
or inputs end.

| run | question | instance |
|---|---|---|
| `burst` | Do the nodes agree on the open requests, whatever the network does? Types, fronts, counts, the queues of `RequestQueues`, nothing counted twice, a lead with answers left over stays deaf; and does the traffic end, with rounds that overlap and close each other? | 3 nodes, two client threads as in `client/main.cpp` (two requests and one), groups 3/2, quorums 2 and 3; any interleaving of the connections, fair scheduling. 33,564 states. |
| `lockstep` | Are rounds separate when closes arrive first? Service, certificates, no over-closing. | 4 nodes (one outside the consensus group, which a new ranking makes the lead), three requests in a row. About 67,000 states. |
| `lockstep_tie` | The same with answers that may tie and prepares that outlive their round; rewards and groups, and no quorum lost to the answer to an earlier round. | 4 nodes, groups 4/3 (two answers per proposal), prepare quorum 2 of 3. About 164,000 states. |
| `fair_round` | Is a request registered when all nodes hold it? | 4 nodes, one request, fair scheduling, any interleaving. 1,579 states. |
| `undersized` | What happens when the prepare quorum cannot be reached? Nothing is answered; is it at least dropped everywhere? | The sizes for 7 nodes with the shipped fractions (groups 4/2, quorum 7, at most 6 prepares), with 4 of the nodes: those that never join a group only queue. Two requests, fair scheduling. 23,604 states. |
| `starved` | What happens when the client wants more replies than there are members? | The sizes for 9 nodes, with 5 of them, one request. 146,286 states. |
| `timer` | What does the timer measure? | Clock to 20. |
| `trust` | What does trust gain, what order does it give, do the groups follow? | 4 nodes, groups 3/2, every start of -1, 0, 1 per pair, a reward and an acknowledgement. 8,362 states. |
| `parts` | Sizes, signed text and wire format, each alone. | Up to 60 nodes (`MaxNodes`); order numbers to 120 (`MaxOrder`), texts that hold digits; bytes of two values (`Base`), words of two bytes (`Width`), strings to two bytes (`MaxLength`). 38,870 states. |
| `page` | Do box and results stay together? | Two sections, three texts (empty, with a blank inside, the label itself), three rows with two, none and one child, one forgotten timer (`MaxStale`). 387,568 states. |
| `ack_doc` (violated) | `node.h:252`: the acknowledgement handler prints. | As `fair_round`. |
| `timer_starts` (violated) | `node.h:83`: `startTimer` starts the timer. | Clock to 3. |

### Why the bounds are enough

* The shipped configuration is 10 nodes, groups 6/3, prepare quorum 11 of at
  most 15, replies from all 6. The runs keep its shape: a primary group with a
  lead and others, a consensus group with members outside it, a quorum between 1
  and the maximum, a reply quorum of the whole group, and (with four nodes) an
  outsider. `burst` has quorum equal to maximum, `lockstep_tie` quorum below it,
  `undersized` quorum above it.
* Two rankings are enough for a change of lead and for an outsider to enter;
  which ranking follows which is free at every acknowledgement.
* Three requests let a round be followed by another while a third waits. The
  order number and key generation need no bound, because requests are finite.
* A primary group of three is the smallest whose lead waits for more than one
  answer and can get a tie.
* Trust: the numbers grow beyond TLC's integers with the second
  acknowledgement. The start has one round of trust behind it, the
  acknowledgement is a second, and a reward may come between them.
* Sizes are periodic in five nodes and monotone above 15; the theorems drop the
  bound of 60. Order numbers to 120 pass two changes of length. Two values per
  byte and two bytes per word tell a swapped or skipped byte from the right one.
  The theorems drop the bounds of the text and of the wire format, too.
* Three rows: one hidden between or beside two shown, a last child above a row
  with none. The bounds of `page` are dropped by the theorems.
* The bounds of `burst`, `lockstep` and `lockstep_tie` are dropped by the theorems
  too: every property of these three runs but `Quiesces` is proved for any number of
  nodes and requests, those of lock step for all sizes with one quorum per round. TLC shows
  that the cases the proofs argue about do happen.

### Fairness

`FairSpec` gives weak fairness to each sending thread, to each connection of each
node and to each connection of a client. The operating system runs both
threads, and the event loop polls all its connections: one that stays readable is
served. Nothing is assumed about which of several readable connections comes
first. After an abort nothing is owed. Only the liveness properties use it.

## Properties

Checked on every network (`burst`, `undersized`):
`WorksOnFront`, `PreparedBelowQuorum`, `FailuresAreSilent`,
`ClosesCountedOnce`, `NodesAgreeOnLine`, `NothingCountedTwice`, `ImplementsQueues`,
`DeafLeadStaysDeaf`, `UndersizedNeverCommits`.

* `NodesAgreeOnLine` compares, for any two nodes, the queue plus the requests on
  their way minus the closes on their way. It fails if a close is counted twice
  or by some nodes only, or if queues are not in arrival order.
* `ImplementsQueues` says that `TPBFT` does nothing else to the queues than
  `RequestQueues` does.
* `NothingCountedTwice` is a balance: rewards, the shared count, the prepares on the
  wire and those its pre-prepares will cause are no more than the orders given out
  so far allow, and replies and acknowledgements no more than the rewards allow. It
  does not say that rounds are apart, as they need not be on such a network, but
  that overlapping rounds never make a prepare or a reply count twice.
* `DeafLeadStaysDeaf`: a lead that has more answers than it waits for never
  judges again; a rejection that leaves answers behind leads there.
* `FailuresAreSilent` and `UndersizedNeverCommits` document branches that
  never run and configurations that never answer.

Checked in lock step: `ImplementsService` (registered once, retired once, never
dropped after registration), `NeverOverclosed`, `AbortNeedsOvertaking`,
`OneCertificatePerRound`, `CertifiesRequests`, `PreparesOfOneRound`, `NoLateSend`,
`RewardsPerRound`, `RewardsStayInGroups`. `PreparesOfOneRound` bounds the prepares a
round can count from above; `NoLateSend` is the other side, that those counted are
not cleared by an answer to an earlier round while they can still make a quorum.

Liveness: `Quiesces`, `InStepIsRegistered`, `InStepIsDropped`. `Quiesces` is checked
with three requests of two threads, so that the closes of one round start others
which close in turn. `InStepIsRegistered` speaks of the first request: for a later
one it is false on this network, as a lead that is behind may propose a closed
request once more and the answers to it reject the one that is open (see *Lock
step*). Against them stands `StarvedStandsStill`, which is safety: with sizes that
are `Starved`, the first
request is never closed once the nodes are `InStep` with it. It speaks of the first
round only (`groupKey = 1`) and needs enough prepares for one quorum: with the sizes
of 8 nodes a request is dropped instead. The premise `InStep` (every node works on the same request,
the proposal is unanswered and no answers of an earlier round are counted for it)
is needed: a proposal that arrives before the request is answered with a
rejection, a node still in the last round answers for another request, and some
orders stall with one request already. `InStepIsDropped` holds with it even in
the middle of a burst.

Trust: `NobodyInCreditReverses` and `LastNodeAlwaysGains` say what the order of
the nodes alone does to their trust; `GroupsAreBest` that both groups follow the
trust of the moment. The comment at `TrustManager.cpp:80` says that global trust
starts from `1 / NUM_NODES`; it starts from the old value and accumulates, which the
model follows.

Search: `SearchedIsShown`, `UnusedShowsLabel`, `FocusIsVisible`, `DownGoesToNext`,
`UpGoesToPrevious`. A key timer that Close has left running does open a window in a
box nobody uses; `UnusedShowsLabel` says that it can only hold the results for the
label, which Close has put into the field. Two things the script does are in the model and in no property,
because the page promises nothing about them: Down in the list of sections goes
one past the last, where every search fails (`Throws`), and a search that was not
started by its timer forgets a timer that runs (`StaleTimer`).

## Proofs

`TPBFTProofs` proves for all constants that satisfy the named assumptions
(`PeerAssumption`, `RequestAssumption`, `SizeAssumption`):

* `TypeCorrect`: `Spec => []TypeOK`. `TypeOK` is inductive because it says who
  sends what: were a node able to send `MsgGroup`, it could become the client of
  a request. The argument is in two parts. `NodeStepTypes` takes the handlers one
  by one for the node's variables. The channels are handled once and for all by
  `RoundTraffic`, `QuorumTraffic`, `SendReplyTraffic`, `MulticastTraffic` and
  `ReplyTraffic`, which say for an arbitrary set of messages what a step adds;
  the later theorems use them again with smaller sets.
* `NodesWorkOnFront`: `WorksOnFront` is inductive together with `TypeOK`.
  `ProcessOnFront` is the common part of all handlers that change a queue.
* `CountBelowQuorum`: `CountSteps` shows that a step clears the count, leaves it,
  or adds one and finds it below both thresholds. This is why `==` in
  `node.cpp:311` is as good as `>=`.
* `FailuresSilent`: not inductive as stated. `SuccessOnly` adds that all
  replies and `MsgSend`s on the channels report success. The step that needs
  care is the quorum: because the count is below the quorum before
  (`CountBelowQuorum`), the prepare that completes it was counted and thus
  verified, and `updateTrust` gets `true`.
* `UndersizedSilent`: with `max_prepared` below the quorum the count cannot
  reach the quorum, so `RoundTraffic` applies to every step and the channels
  never hold anything but the messages of a round.
* `LonelySilent`: with a primary group of one, only requests are ever on a
  channel (`OnlyRequests`), because each handler that sends anything else needs a
  message of another type to run.
* `DeafStaysDeaf`: the tally of a lead only grows while it is beyond what it waits
  for, because `AllAnswered` compares with equality.
* `RewardsInGroups`: a key is never older than its groups, so a prepare that
  verifies was signed for the present ones; `TypeOK` says who sends prepares.

`TimerProofs` proves `MeasuresUptime` for an unbounded clock.

`RequestQueuesProofs` proves for any number of nodes that the queues agree
(`Agreement`) and, if there is a node, implement one line (`QueuesAreLine`).
Invariant and proof go by position: counted from the first request that is not
being closed, entry `i` is the same at all nodes (`AgreeByIndex`). A close at one
node takes one off its queue and adds one to every other node's closes, which
leaves all positions alone but the first; a request adds one at the end of all.
The module also proves that the service implements the line (`ServiceIsLine`,
through `ServiceInvariant`).

`QueueProofs` proves, on any network:

* `CountedOnce`: every node will have closed the same number of rounds, with any
  number of clients. The invariant speaks of closes a node has yet to read and
  those it still has in its queue, so the proof needs to count the messages of
  a kind on the channels. They are counted by the places they have (`Spots`), a
  set whose cardinality changes in one way only: `MovedSpots` says once and for
  all what taking one message and sending some does to it, and `Gives` what
  `To`, `Then`, `NextRequest` and `Proposal` send of a kind.
* `QueuesImplemented`: with one client the round implements `RequestQueues`. What
  is on its way to a node is defined by recursion over its channel (`Requested`);
  the two facts needed of it, what reading the first message and sending another
  do, are induction over the length of the channel. The library's induction
  theorems take an operator as a parameter and cannot be used here, so
  `NaturalsInSet` states induction for a set, from the least number outside it.
* `AgreeOnLine` and `OneLineServed`: through `RequestQueuesProofs`, the nodes agree
  on the line and serve it as one.
* `NoneCountedTwice`: `NothingCountedTwice` for all sizes, also those with several
  quorums per round. It is not inductive, as it does not say where prepares come
  from. `Ledger` adds the questions: an order number pays for one question to every
  other member of the primary group, an answer takes the place of the question, and
  a certificate uses up the answers of one order, so that there are no more
  certificates than orders. A pre-prepare stands for the prepares its receiver will
  send, a quorum for the prepares it took, and a reward for the replies of one
  consensus group. What a late message, a cleared count or a changed group loses
  only makes the balance smaller.

`LockStepProofs` proves the properties of lock step, and one of any network, for
every number of nodes, clients' requests and rankings. Those of lock step are under
one assumption on the sizes, `OneQuorum`: the
consensus group has members outside the primary group, the prepares of one round
make at most one quorum, and the client waits for no fewer replies than the
consensus group has members. `OneQuorumAsShipped` (`PartsProofs`) says that with the
shipped fractions, among the sizes that register requests, exactly those with one
quorum per round meet it, 10 as shipped and 12; the instances of both lock step
runs meet it too. The argument:

* None of the properties is inductive. What separates the rounds is how much
  traffic of a round can still be useful, wherever it is. `Weight` counts the prepares
  of the current key, those counted, those on the wire, and for each pre-prepare as
  many as its receiver will send; `Replied` counts the replies the same way, with
  an acknowledgement weighing as many as it took. A round is in one of three
  phases (`Phase`): it has no weight (no certificate yet); it has at most a round's
  prepares and no replies; or its quorum was reached, and what is left of
  `Weight` is below a second quorum and `Replied` at most one set of replies.
* A phase can only be trusted if the lead does not start another round within it.
  `Engaged` says that in the last two phases the lead is busy, has no open
  question and no close is on its way. `Asks`, `Tallies`, `Routes`, `Ordered` and
  `ToldOnce` say why it stays so: questions come from the lead, after its closes
  on each channel, and answers go to it; a node has at most one close on its way;
  nobody's tally of answers is left to be completed by accident.
* `NoneOwed` says that nobody has more closes to come than requests.
* A close needs the front of the line to be judged, counted or answered; each of
  the three uses up a phase (`QuorumKeeps`, `ResultCounts`, `LockNext`), and because closes are
  read first, the next phase begins with no old traffic that counts: the key of a
  new round is new, and the old replies were used up by the acknowledgement.
* `NoneOverclosed`, `AbortIsOvertaking`, `PreparesFitOneRound`, `NoQuorumRobbed` and
  `RewardedPerRound` follow from this invariant (`LockInv`, which adds that rewards are no more than
  rounds, and why the process may have died).
* `CertifiedOnce` and `RequestsCertified` add `CertInv`: no certificate is of a
  later order number than the current one, nor of the current one or of the
  current key while the lead still asks, so a new one differs from all others in
  both.
* `ServiceImplemented`: a request counts as registered while an acknowledgement is
  on its way. The invariant gives that there is one at most, that all nodes are in
  its round, and that no other close is possible until it arrives; what the line
  does is taken from `QueuesImplemented` and `AgreeOnLine`.
* `StarvedStands` is about `Spec`. Until a round is closed no close is on its way, so
  every network is in lock step and `LockInv` holds. `FirstInv` adds that nobody
  acknowledges, as `Replied` is at most the size of the consensus group and the client
  waits for more, and that a question is about the request its sender works on. In
  step, the questions on their way are all there are (`AllAsked`), so no answer is:
  the round is `Frozen` (`InStepFrozen`), all nodes being busy with one request and no
  denial counted or on its way. It stays so (`FrozenNext`), because each of the three
  ways to close a round is shut (`FrozenKey`): a rejection needs a denial, the
  prepares cannot run out below a quorum they are enough for, and there is no
  acknowledgement. `Starved` sizes with one quorum per round meet `OneQuorum`
  (`StarvedSizes`); with the shipped fractions these are 9, 11, 13 and 14 nodes.

`PartsProofs` proves all properties of `parts`:

* The four properties of the sizes for every number of nodes, and
  `OneQuorumAsShipped`. The divisions are linear once the fractions are fixed: each
  quotient is named with its remainder, and the remainder by five decides.
* `TextIsPair`: for all order numbers and all texts that do not begin with a digit,
  number and text can be told from the string that is signed. `to_string` is a
  recursive function on all numbers, so that there is one has to be shown first
  (`DigitsExist`, put together from functions that reach as far as needed). Its value
  is then known digit by digit (`StringSteps`), two numbers with the same digits are
  the same (`StringTells`), and the number ends at the first character that is no
  digit (`NumberEnds`). All of it is argued from the least number for which it would
  fail (`LeastNumber`).
* `AllArrive`: every member of every message type arrives as it was sent, for every
  number of values of a byte, every width and all lengths that fit the width.
  `LengthArrives` is the length: read from its last byte on, what is read so far is
  what was left when those bytes had still to be written. `WireInv` says how many
  members are written and how many read, at which byte each one starts (`Places`), and
  that between the two the stream holds the members in full. That both constructors
  list the same members is `SameMembers`; that the stream never runs out is that the
  guard of `get` (`Holds`) is true whenever a member is left to be read.

`TrustProofs` proves all properties of `Trust`, for every number of nodes, all
balances and sizes, however often trust is computed. The operators are folds, over
the pairs of a node and over the nodes:

* Sums. The fold over a set takes an operator and is defined by recursion, so that
  there is such a function has to be shown first (`FoldExists`, by induction over
  the size of the subsets). From then on a sum is what `IsSum` says of it: each
  value is added once, whichever comes first (`AddingIsSum`). The sum over the
  pairs of a node becomes one over the other nodes (`PairSumIsNodeSum`).
* Turns. A fold over `allNodes` is a function on `0..NUM_NODES` whose value at `k` is
  what the first `k` nodes leave (`DirectSteps`, `GlobalSteps`). All that is proved of
  a round of trust is induction over the turns. `CommonDivides` says that the unit
  becomes fine enough for every quotient of a turn to be exact.
* `TrustTypes`: direct trust is a proper fraction because what a node has with one
  other is not more than what it has in total (`StotalBounds`), global trust is
  positive because a turn only adds. `Types` is inductive.
* `BestGroups`: `Sorted` says that both groups are cut from the order by the trust of
  this moment. It is inductive because a reward changes balances and no trust, and an
  acknowledgement sorts after trust.
* `ReversesWithoutCredit`: balances only grow, so a pair that is not in credit
  never was, and everybody trusts everybody the same, `1 / NUM_NODES`. Then a turn
  gives a node what all others have in sum, over `NUM_NODES`. `Rising` is the invariant of the
  turns: the first `k` nodes are in strict order, the others in the order they were
  in before, and the next one will overtake the last. After `NUM_NODES` turns all
  are in strict order (`EvenRound`), to which there is one descending order only
  (`IncreasingReverses`), so no tie is left for the sort to break.
* `LastNodeGains`: not true of any other node, whose entries are overwritten. The
  entries of the last node share a denominator and add up to at least
  `(NUM_NODES - 1) / NUM_NODES` (`LastEntries`); until its turn nobody has lost
  anything (`TurnsGain`); so what it gets is at least that share of the least
  trust there was before the acknowledgement (`LastTurn`).

`SearchPageProofs` proves all properties of the search, for all texts, rows,
children and sections and any number of forgotten timers. `UnusedShowsLabel` and
`SearchedIsShown` are proved of the box; the page implements the box (`PageIsBox`),
so they hold there. That a timer left running finds the label only is because the
field of an unused box holds it, and every search remembers what the field holds. `FocusIsVisible` needs `FocusInv`: the rows shown are
neighbours, so that the row above a row has the number before it
(`PreviousIsNeighbour`), which is how the script looks for its last child; and
only rows with children are open. `DownGoesToNext` and `UpGoesToPrevious` follow
from the same invariant: an element has a row and a place under it, and
`UnderByPlace` says which pairs are neighbours on the page.

The assumptions of `SearchPageProofs` are `BoxAssumption` and `PageAssumption`; of
`PartsProofs` `BoundAssumption` and `PartsAssumption` (texts are texts and do not begin
with a digit, a byte has at least two values, a length fits the width); of
`TrustProofs` `NodesAssumption` (at least two nodes, each built once; groups neither
empty nor larger than what they are cut from); of
`RequestQueuesProofs` none but that there is a node, where it is needed; of
`QueueProofs` and `LockStepProofs` those of `TPBFTProofs` and `ClientAssumption`
(one client), the latter with `OneQuorum` as a hypothesis of each theorem of lock
step and `Starved` as the hypothesis inside `StarvedStandsStill`.

Model-checked only is all liveness: `Quiesces`, `InStepIsRegistered`,
`InStepIsDropped`.

## Not modelled

* View change (`node.cpp:403`, never registered), checkpoint
  (`checkpoint.cpp`) and indirect trust (`TrustManager.cpp`): no code calls them.
* Process and shutdown (`server/main.cpp`): starts everything and waits.
* Construction in `Handler` step by step: its loops build and connect nodes with
  salticidae's calls before any message is handled. Its result is `Init` of
  `TPBFT` and, with the first round of trust, of `Trust`.
* Crypto++ and salticidae beyond their use here. A signature is a record that
  verifies with its own key and text; a connection is a queue that is never lost.
* Dropped connections and crashes: nothing in the code persists or resends.
* The remaining scripts of the documentation: they write the menu once per page
  or hold data; no page calls `dynsections.js`.

## What could follow

1. `StarvedStandsStill` for rounds after the first and for two quorums per round (16
   nodes and more).
2. Which weaker assumption than lock step keeps the rounds apart.
