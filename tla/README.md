# EasyHome in TLA+

EasyHome is the hub of a home-automation network: a Java EE server (REST
resources over EJBs and a database, JMS topics between threads) that talks to
radio modules through gateways, keeps a registry of the devices of the network
and drives lamps, sensors and alarms. The specifications of this directory are
translated from its code, `src/rest/src/main/java/it/uniud/easyhome` (paths
below are relative to it); `PROJECT.json` maps each definition to its lines.

## 1. Inventory

| Component | State it keeps | Operations | Modelled in |
|---|---|---|---|
| Network tables: `NodeEJB`, `LinkEJB`, `JobEJB` | rows of Node, Link, NetworkJob | find, insert or update, merge, cleanup, latest jobs, remove | `NetworkTables`, `NodeLife` |
| Network resources: `NodeResource`, `LinkResource`, `JobResource` | static counters of ids, one lock per table | the REST calls over the tables | `NodeRegistry` |
| Registry processes: `NodeAnnceRegistration`, `NodeDiscoveryRequest/Registration`, `NodeDescrRequest/Registration`, `NetworkUpdate` | where each is between two calls, pending events | announce, discover, ask, describe, clean up | `NodeRegistry` |
| Endpoints, simple descriptors: `ActiveEndpoints*`, `SimpleDescr*` | the endpoints and descriptors of a row, jobs, events | request, repeat, register | `Acquisition` |
| Neighbours: `NodeNeighRequest/Registration` | the neighbours of a row, jobs with a sequence number | ask each router in turn, match, register | `Neighbours` |
| Power levels: `NodePowerLevel*`, `NetworkGraphMinimization`, `changePower` | the level of a row, jobs with a level | read, ask, issue, acknowledge, retry, minimise | `PowerLevels`; the jobs of a reading in `Acquisition` |
| Occupancy and alarms, lamps and light: `OccupancySensing*`, `AlarmState*`, `LightLevelControl`, `LampStateUpdate`, `StateResource` | states of the devices, occupied locations | react to sensors, to the fridge and to users; find, merge and send a lamp's row | `Alarms` |
| Hub and gateway threads: `HubContext`, `GatewayResource`, `Gateway`, `XBeeGateway` | list of gateways, run state, threads, server sockets | add, open, close, remove; bind, accept, serve, stop | `Gateways` |
| Dispatch, packets and framing: `XBeeGateway`, `XBeePacket*` | bytes read and not consumed, the topics | read, refuse, convert, dispatch, relay | `Framing` |
| Process lifecycle: `ProcessResource`, `Process` | list of processes, pids, run states, consumers | post, delete, clear; run, wait, stop | `Processes` |
| SIPRO gateway | its nodes, sensors, actuators | add nodes, poll, command | `addNode`, `open` and the loop only |
| Persistent information, locations, pairings | rows that survive the network | CRUD and the join with nodes | not modelled |
| `NativeGateway`, JSF pages and their scripts, mock network | - | - | not modelled |

Interaction. A gateway thread turns the bytes of its module into packets on the
inbound topic, and takes packets from the outbound one. Each process is one
thread in an endless loop: a *registration* process receives inbound packets
and calls the REST resources; a *request* process polls the jobs, or waits for
network events, and sends outbound packets. Jobs are requests that wait for
an answer: they are repeated until a registration process removes them. The
processes share nothing but the tables and the topics, and every REST call
takes the lock of one table only.

What is hard: every process reads, computes and writes in separate calls while
the others run; a cleaner removes rows under them; packets are lost, late or
repeated; a restart keeps the tables and forgets everything else; an answer
does not say which request it answers; rows are written back as a whole, by some
processes under a lock that others do not take; threads are stopped by a
volatile state, and by closing a socket or sending a null message, in two steps;
the lists of gateways and processes have no lock; frames arrive in pieces, and
every way to refuse one has to find the next. The hazards are listed at their
lines in `PROJECT.json`.

What makes each component correct: the registry has one row for a gateway and
address and one for an id, does not lose or revive what it knows, asks every node
that it does not know yet, and forgets a silent network; what a node is asked for
is registered, and no registration undoes another; a row has the neighbours that
its own device reported; an acknowledged power level is the one that was set, and
a minimisation ends; the alarm of a lamp is that of the code of the fridge and of
the occupancy, and the lamp is told so; the packets that arrive whole are
dispatched once, all of them and in order, and relayed to the networks they are
for; a gateway has one thread and leaves no port bound; a process that is told to
stop wakes and ends.

## 2. Modules

    NetworkTables          operators on the tables, no variables
      NodeRegistry         the processes of the registry over the tables,
                           shown to implement NodeLife
    NodeLife               the life of a row, seen from outside
    Acquisition            what a known node is asked for
    Neighbours             the neighbours of routers and coordinators
    PowerLevels            levels asked for, set and minimised
    Alarms                 lamps, sensors and the fridge
    Framing                bytes, packets and topics of the gateways
    Gateways               hub, requests, gateway threads
    Processes              requests and threads of the processes

Each of the last seven and `NodeRegistry` has a module `MC...`, its small
instances, and a module `..._proofs`. In a module, an operator whose comment
begins with "Mutant" is a plausible slip in the definition below it, and no part
of the specification: `PROJECT.json` names the property that notices it.

**NetworkTables.** A table is a set of rows, an operation an operator from a
table to a table. Jobs are abstracted to one state for each type and
coordinates, that of the latest row (`none`, `first` for sequence number 0,
`repeated`, `overdue`), which is all that the queries of these processes tell
apart. `FindNode` matches the address in any gateway, as the code does: of its
two criteria the second replaces the first.

**NodeRegistry.** One action for each REST call, with the process's local state
in a record (`annce`, `disc`, `request`, `registration`; `update` is the next
of the three cleanups). An announcement is dispatched as an event only if the
node and both of its jobs were accepted (`AnnceGoOn`): after a restart one of the
posts may be refused. Nothing is locked between two actions; the lock shared
by the registration processes (`Process.nodesLock`) orders none of the six
against another, because `NodeDescrRegistrationProcess` alone takes it. Time is
what the code asks of it: `AgeLink` and `AgeJob` let a link or a job outlive
its timeout at any moment. The constant `UpdateVerb` is the verb of
`nodes/update`: `"PUT"` is the code; `"POST"` is what its client and its test
use, and shows what the registry would do if they agreed. `Restart` keeps the
tables and loses the counters, the processes and the topics (which are not
durable); a job or a link posted afterwards may be refused because its id is in
use, or hidden by an older row with a higher one (`kept`, and `old` in a link).
The radio and the devices are external: an answer comes late or never.
Packets of a node without a row, and events that no process of the module
reads, are left out, but for their waking of a waiting process (`RequestOther`).

**NodeLife.** What the rows of the registry look like to the rest of the
system: one appears with the next id, becomes described, leaves; an id is given
once, and nothing comes back. `NodeRegistry!RowsLive` substitutes the ids of the
rows of unknown type, those of the others, and the counter.

**Acquisition.** What happens to a row once its device answers: its descriptor,
then the endpoints and their descriptors of an end device, or the power level of
a router. The two request processes with jobs, `ENDPOINTS` and `POWER`, are the
same loop; `SimpleDescrRequestProcess` has events alone, and no repetition. The
four registrations are `RegisterGet` (take the packet, the lock, the row),
`RegisterExists` and `RegisterMerge` (the two halves of `nodes/update`),
`RegisterJobs` and `RegisterEvent`; `Filled` is what each changes of its copy,
and `nodesLock` is released where the code releases it: before the jobs, but for
the power level. `AgeJob` is free when nothing that would answer is on its way,
and counts as a fault when it is: an early timeout. `Leave` and `Announce`
remove the row of a device and bring it back with a new id.

**Neighbours.** Unlike those of `Acquisition`, these two processes wait for no
event (the one that the registration sends, nothing reads) and repeat no
request, and the answer is not matched by its source: `Matching` is
the query of the jobs by type and sequence number, where 0 is no condition. A
turn of the request is `RequestNext` (the next row, the next number, a byte),
`RequestPost`, `RequestSend`; the registration is `RegisterReceive`,
`RegisterDelete`, `RegisterGet`, `RegisterExists`, `RegisterMerge`, where a node
that is not found ends the thread (`dead`). Its `nodesLock` excludes only the
processes of `Acquisition`, which change other fields, and is left out. Three
histories state the properties: `heard`, what each device has reported;
`turned`, whether a number may be in use twice; `removed`, whether a row was.

**PowerLevels.** A call of `changePower`, by a user or by the minimisation, is
three actions: check, post the job, dispatch the event. `IssuePoll` takes a
snapshot of the jobs, or with none waits for an event; `IssueGet`, `IssuePost`,
`IssueSend` serve each. The acknowledgment carries, in the model, the level that
the node has set; the code does not see it, and takes the level of the latest job.
A row's level has a second writer, the registration of the level that a node
reports (`RegReceive`, `RegGet`, `RegExists`, `RegMerge`), under the lock of the
first and whatever job the node has; `Report` is a node that answers with the
level it has then, which comes late or never. Three histories state the
properties: `ordered`, the level of each node that `changePower` accepted last;
`misread`, the rows whose level was written from a reading that was no longer
true; `removed`, the nodes whose row was. `MinAsk`, `MinAnswer` and `MinLook` are
`requestPowerLevelChange`, whose caller is in `goal`. Sleeps are left out: a sleep
only widens the gap between two actions, and any action may come there.

**Alarms.** Each process is a thread that finds, merges and sends a row of a
lamp in three actions (`StateResource`), inside the loop that its kind has. The
two that set alarms hold `nodesLock` through their loops; the two that write the
light and refresh the lamp take none. `moved` remembers the lamps whose location
has changed since the start, because the states that the SIPRO gateway registers
need not agree with their locations.

**Framing.** The bytes between a module and its gateway, one by one: `Half` is
half of the values of a byte (128 in the code), `Overhead`, 2, stands for the 19
or 20 bytes of a payload before its data. A turn of the gateway's loop is
`HandleInbound` (read what has arrived, one attempt at a frame: incomplete,
pruned, discarded, too short, refused or accepted), `Dispatch`, and the drain of
its queue (`Write`, `Drained`). Three histories state the properties: `offered`,
what came whole; `astray`, whether something was sent after which no reader of
this format, or not this one, finds the next frame; `Passable`, `Skippable` and
`Harmless` say when. A damaged length is believed by any reader; a length byte
with its high bit set, in a frame that is refused, and a frame that is too
short, are faults of this reader.

**Gateways.** A request is a sequence of actions (check the list, check the
state, start, add to the list; set the state, close the socket, remove), so that
two requests, and the thread of the gateway, interleave between any two of
them. A thread is identified by the request that started it, because a gateway
can come to have two. A socket records the thread that bound it. A failed first
bind kills the thread (`dead`). The list without a lock is modelled by its
outcomes: a lost addition, a removal by a stale index, and an exception in the
iteration over a list that has changed.

**Processes.** The same shape: requests post, delete and clear, with
`++pidCounter`, the construction, the addition and the start as four actions;
`stop` sets the state and then sends the null message to the topics of the
process, which reaches every process that waits on them. The null messages of
one stop are sent in one action: the order in which two topics get them is
invisible to a process that waits on one of them.

## 3. Runs

| Run | Bounds | What it shows |
|---|---|---|
| `NodeRegistry_built` | `PUT`; coordinator, one device and a SIPRO device of a second gateway with the same address; 3 packets | unique coordinates and ids, no forgotten node, no row revived, and the refinement of `NodeLife`, where no merge is ever reached |
| `NodeRegistry_silence` | `POST`; coordinator and one device, 2 packets, 1 restart, fairness | a silent network is forgotten, and so are its jobs; a description is never lost |
| `Acquisition_row` | `POST`; one device, of either type, with two endpoints; 2 faults, fairness | registrations do not undo one another; what a node is asked for is registered at last |
| `Neighbours_turn` | `POST`; a coordinator and a router, bytes of 3 values, 1 packet on its way, 1 change of neighbours, 1 fault, fairness | no node is given the neighbours of another until the number comes round; the registration lives; neighbours settle |
| `PowerLevels_settle` | `POST`; a router, an end device that joins, one request for any level, 2 readings, 1 row removed, fairness | no level out of range; a level asked for is set at last, and the row says so unless a late reading was written last |
| `PowerLevels_ends` | `POST`; one router, one minimisation, 2 issues of 1 look each, no readings, fairness | a minimisation ends |
| `PowerLevels_late` | `POST`; one router, two requests, no readings | **violation**: a late acknowledgment confirms the wrong level |
| `Alarms_house` | one lamp and another node in one room, two codes; one change of the code, of the sensor, of the light; fairness | alarms and lamps settle; the two processes that set alarms do not write together |
| `Framing_wire` | two gateways, one network that sends 2 frames of 5 payloads; 1 byte damaged or added, 1 packet issued; 3-bit bytes; fairness | packets are dispatched once, all, in order, and relayed to the radio that they are for, once, all, in order |
| `Gateways_one` | two gateways for one port and id, one of them SIPRO, one request at a time, 5 requests, fairness | one thread for each XBee gateway, no port left bound; a close while serving ends it |
| `Gateways_close` | one gateway, 3 requests, fairness | **violation**: a removed gateway keeps its port |
| `Processes_stop` | a process that waits for events and one that sleeps, two requests together, 3 requests, 2 messages, fairness | no wakeup is lost; who is told to stop ends |

Why these bounds. Three packets are the shortest interesting life of a node
(announce, answer, announce again; or be discovered in between), and one restart
is enough to meet the ids of the run before. Five requests add, close, open and
remove a gateway and add another; three post and stop two processes or post,
delete and clear. Two faults lose a packet and time out early, or remove a row;
two endpoints are what the loop over endpoints, and its failure at the first,
need. With bytes of three values the numbers of two requests differ and the third
comes round to 0; one packet is on its way at a time because requests are 7 s
apart, and an answer still waits behind the calls of the one before. A second
level asked for breaks `QuietAgrees`; `PowerSettles` is therefore stated of one.
One reading may come late and one be repeated, or put the row right again; the two
other runs of `PowerLevels` have none, to show what the requests and the
minimisation do by themselves. One change of each kind races every pair of writers
of a lamp, for a lamp has one row and each writer one copy. Two frames and one
damaged byte are a frame that is refused and one behind it, cut into pieces at
every byte; the payloads are each kind of frame that the reader tells apart, one
of them with a delimiter inside. What the bounds leave out is covered by the
theorems, which have none, where there is one.

`NodeRegistry` and `Framing` are checked for deadlock. The others may stop when
the requests, packets or events of a run are spent, and their runs say
`CHECK_DEADLOCK FALSE`.

The verb. `nodes/update` serves `PUT` and its client sends `POST`: as built, no
description is registered, and what follows from one (the acquisition, and the
acknowledgment of a level) never happens. The runs about those use `POST`, the
verb that client and test agree on: they say what the system does once the verb
is one. Under `POST` three of the properties of `NodeRegistry_built` do not hold:
a late merge brings back a removed row, which may then be one of two at its
coordinates, and the deletion of the jobs after an update takes that of a node
just announced again. They are listed as hazards; the verb as it is built hides
them, and `NodeRegistry_built` says nothing about them: of the merge it shows only
that it is not reached. `NodeRegistry_silence`, where it is, shows that a description is
kept through it and that a row which it brings back leaves again.

**Fairness.** Of what the server itself runs, weak: the threads of the processes
and of the gateways, the requests that were begun, and the clock (`AgeLink`,
`AgeJob`). Nothing is asked of users, of restarts, or of a device that need not
answer. Beyond that:

- `PowerLevels` asks strong fairness of the delivery of levels and of
  acknowledgments: the radio loses packets, not every one. Without it a level is
  repeated for ever. `MinimizationEnds` rests on it: the maximisation has no
  other bound.
- `Acquisition` asks that a request which is not lost is answered; what is lost
  is bounded, and only of the kinds that a job repeats (`Lossy`).
- `Neighbours` asks strong fairness of the turn of each row: the index of the
  request process goes round the list, whatever comes and goes in it. The premise
  of `NeighboursSettle` excepts the runs in which answers are confused for ever
  and those in which the thread of the registration has ended.
- `Alarms` asks strong fairness of `OccupancyLock`: the other process that takes
  the lock is driven by a poll every 10 s and leaves it in between. The premise
  `<>[]~Race` of `AlarmsSettle` and `LampsSettle` excepts the runs in which
  writers without a lock undo one another for ever, which the code does not
  exclude and no clock makes likely.
- `Framing` asks it of `Run(g)`: the thread runs and the bytes arrive. The drain
  of the outbound queue goes on as long as there are messages, and the reading
  waits: the packets of a run are finite.
- `ClosedWhileServing` assumes for the same reason that the thread of a gateway
  gets to look at its state between packets. In `Processes` no fairness is asked
  of `Fail`. `SilentNodesLeave` and `JobsFollowNodes` rest on the bound of the
  packets: it is the silence that they speak of.

## 4. Proofs

The theorems hold for any sets of devices, gateways, processes and requests,
and any bounds, from the named assumptions on the constants.

*Registry.* `TypeCorrect` is inductive with a lemma for each process.
`NodesSteps` says what any step does to the rows (an insertion with the next
id, a removal, a step of `NodeDescrRegistrationProcess`, a restart) and
`PostNodeCases` gives the three outcomes of an insertion: the other proofs rest
on the two. `IdInv` (types, one row for an id, the copy held is described) is
inductive for both verbs and across restarts, and gives `DescriptionNeverLost`;
the ids in use being below the counter (`Given`) gives `UniqueIdCorrect`, under
`MaxRestarts = 0`: a restart breaks it. `BuiltInv` (types, the copy is never
merged, unique coordinates) is inductive for `PUT`, and gives
`UpdateRefused`, `UniqueCoordinatesCorrect` and `NoResurrectionCorrect`; with
`NothingKept`, and again without restarts, `NoForgottenNodeCorrect`.
`UniqueCoordinates` is not inductive alone: a merge may bring a row back beside
another with its coordinates, and that no merge is reached is the part that
strengthens it. `ForeignRowAnswers` is about one insertion, of any table: a node
whose address is in use in another gateway is not answered CREATED, and gets no
row.

`RowsLiveCorrect` is the refinement, for `PUT` and between two restarts: the case
analysis of `NodesSteps`, each case an action of `NodeLife` or a stutter, with
`IdInv` for the ids and `BuiltInv` for the merge that is never reached.

*Acquisition.* `NothingUndone` is an action property and needs three facts that
are inductive together with the types: ids are unique and below the counter
(`IdsOK`); a registration between its read and its merge holds the lock
(`LockOK`); and then its copy is still the row, filled with its packet
(`CopyOK`). The last is the point: a row changes between two accesses only by
someone who holds the lock. `Inv` is inductive for both verbs.

Three more invariants rest on `Inv`, all of them until a row is removed.
`DescriptorsFitCorrect` says more than `DescriptorsFit`, that the thread of the
descriptors does not end: also why. `DescriptorsFit` is not inductive: a
descriptor is written far from where it was asked for, so `FitInv` traces each
packet back to the row it came from. Every device has one row, with all of its
endpoints or none (`RowsFit`); a copy to be written is of a row that is there
(`CopiesFit`); and whoever asks, is asked or answers for a descriptor does so of a
node whose endpoints are registered (`SimpleFits`, `PacketsFit`), which keeps the
thread of the descriptors alive. `NoneForgotten` is the safety half of
`NodesAcquired`: a row that lacks what its type is asked for has a job, or is
about to get one (`Awaited`); it needs the types in rows and copies to be those of
the devices, and the packet of a registration to be of its kind and node.
`EndpointsPursued` is that half of `DescriptorsAcquired`, with the verb that the
client uses (`POST`: with that which the resource serves, `PUT`, no endpoint is
ever registered) and where no job remembers the question: a descriptor that a row
lacks is in one of six places (an event about to be sent, an event that waits, the
request that reads the row, the endpoints it has left, the radio, a registration),
and the only ways out are a loss by the radio and the failure of the broker at the
first endpoint. What is left to TLC of the two liveness properties is that each of
these places is left.

*Neighbours.* `OwnNeighboursCorrect` needs to know whose every number is:
`NumbersOK` says of all that carries one (jobs, requests, answers, the turn that
is being taken) that it is at least 1, no more than the counter, and of one node;
with it `MatchingOwn`, that the job found is of the sender of the answer, and
`HeldOK`, that what the registration holds was reported by the node it holds it
for. All of it is under `~turned`: the number that comes round is what breaks it.
`RegistrationLivesCorrect` follows from each node having its row, and the copy
being of a row that is there (`RowsKept`, `CopyKept`), until one is removed.

*Power levels.* `LevelsInRange` is inductive only with the shape of everything
that carries a level: the jobs, the events, the snapshot of the issue process,
its request, the packets, and the entries of the minimisation, which go one below
zero and are asked for down to -3. `Inv` is that conjunction, and
`TypeCorrect` and `LevelsInRangeCorrect` follow from it.

`OneRequestSettles` says what one request is worth, as long as there is no other
and no minimisation: a node about which nothing is under way, and whose row was
not removed, has the level that `changePower` accepted, and so has its row, unless
the level written there last was a reading that was no longer true. It takes two
orders to match an acknowledgment with the wrong one, which is what
`PowerLevels_late` shows; a reading that comes late takes none, and is the
exception. The invariant `OneInv` says that before the request nothing is under
way (`Still`), and that after it all that carries a level, but for the readings,
carries the one that was asked for, to one node, and the device of whoever
acknowledges has it (`OneOrder`); its part `NotLost` says that the order is about
to be posted, or has a job, or is carried out: the device has the level, and so
has the row but for a late reading (`RowHas`). An acknowledgment of a level set
long ago would otherwise find no job, and a reading taken before the level was set
is told from one taken after it by what the device has when it is written. It is
the safety half of `PowerSettles`.

`NeverWritten` and `NeverCleared` are of the system as it is built, with `PUT`:
neither registration gets past its update, so no level, acknowledged or read, is
ever written to a row, and the job of a level is deleted by nothing but the
cleanup after the removal of its row: the level is sent again for ever.

*Alarms.* `OneAlarmer` from `LockOK`: a process inside its loop holds the lock.

*Framing.* `TypeCorrect`, and four theorems about boundaries, for any payload,
any bytes after it and bytes of any size: the frame at the head of a buffer is
found, and exactly its bytes taken (`FrameFound`); no proper part of a frame is
taken for one (`PartWaits`); a refused frame takes its own bytes away if both
bytes of its length are below half (`RefusedSkipped`), and never otherwise
(`RefusedUnskipped`), which is the fault of `XBeeGateway.java:112` in general. Two
are about the checksum: what is written is read as sound (`WholeSound`), and a
change of one byte, in the payload or in the checksum, is noticed (`DamageNoticed`).

`InOrderCorrect` is about all the bytes together. Its invariant `OrderInv` says
of each gateway that what it has dispatched, followed by what its buffer and its
wire are still to become, is what came whole. What bytes are to become has to be
said of any length and of a buffer that begins anywhere between two frames:
`Readings` is the least set of pairs, of bytes and packets, that holds the empty
pair and is closed under putting a segment first: a frame that comes whole, a
damaged one that will be skipped, bytes that start no frame. Each turn of the
reader is then one of three cases (it waits for more, drops the segment at the
head, or takes the packet at the head), whose facts are the boundary theorems;
where the bytes of the buffer end inside a segment, the reader waits, as in
`PartWaits`. All of it is until something is `astray`, which is what no reader
of this format, or not this one, recovers from. `RelayedInOrderCorrect` adds the
topic: `RelayInv` says that what each sender has on it is what that sender has
dispatched, and that each radio was given what it wants of the messages its
gateway has taken.

The safety halves of `Received` and `Relayed`: when the wire is empty and the
reader waits, all that came whole has been dispatched (`NothingLeft`); when,
besides, no message waits on the topic, each radio was given exactly the packets
due to it (`QuietRelayed`); and a turn that has something to read takes a byte
from the wire or from the buffer (`ReadingGetsOn`), so that no reader goes round
over the same bytes for ever.

The inductions over numbers and over sequences that these need are lemmas
(`Least`, `Induct`, `SeqInduct`) with a set in the place of the predicate: the
library's induction theorems, whose parameter is an operator, cannot be used. The
sum of bytes and `Filter` are recursive functions, proved to exist from the
functions that agree with them up to a length (`SumTotal`, `FilterKept`).

*Gateways.* `NoLeakedPortCorrect` holds of any requests together; its
invariant says which threads may own the socket. `SingleThreadCorrect` is
conditional on `OneAtATime`: with two opens together it is false. Its
invariant ties the state of a gateway to the stage of its only thread.

*Processes.* `NoLostWakeupCorrect`: the invariant adds that a process between
the state and the null message of a stop is held by a request, so that a process
that goes to wait has the message before it.

Model-checked only: the liveness properties, because the prover has no
reasoning about fairness (`NoneForgotten`, `EndpointsPursued`, `OneRequestSettles`,
`NothingLeft`, `QuietRelayed` and `ReadingGetsOn` prove what they rest on); and the
two violations. Every invariant and action property of the passing runs is a
theorem, of all values of the constants; that of `NodeRegistry_built` and the
refinement with the hypotheses named above.

## 5. Findings

Each has a run that ends in a counterexample:

1. `Gateways_close`: a close that comes before the thread of the gateway sets its
   state, or between its check and its bind, is lost (`gateway/Gateway.java:215`).
2. `PowerLevels_late`: an acknowledgment is matched with the latest issue
   (`processing/NodePowerLevelSetAcknowledgmentProcess.java:67`).

One is a theorem, `UpdateRefused`: the description of a node is posted
(`processing/NodeDescrRegistrationProcess.java:82`) to a resource that serves
`PUT` (`rest/NodeResource.java:128`), and is dropped every time; `NodeResourceIT`
(lines 71-72) expects `OK` of the same POST. `NeverWritten` and `NeverCleared` say
what it does to the power levels.

Met while modelling, in the models as they are, without a run of their own:

- An answer with the neighbours of a node is matched by its sequence number
  alone (`processing/NodeNeighRegistrationProcess.java:68`): once the byte has
  come round, 0 matches any job, and so does a number left by a lost answer; a
  node may then be given the neighbours of another until it is asked again. The
  late answer of a node that was removed ends the thread (line 92).
- `NodeEJB.findNode` matches the address in any gateway (`ejb/NodeEJB.java:80`),
  though it takes both. A new node is answered OK because of another gateway's,
  which its caller documents as "True if the node already existed" (line 109), and
  gets no row: the theorem `ForeignRowAnswers`.
- The level that a node reports is written to its row whatever job the node has
  (`processing/NodePowerLevelRegistrationProcess.java:65`): a reading taken before
  a level is set, and registered after its acknowledgment, leaves the row with a
  level that the node no longer has. Nothing asks again, and nothing repairs it.
- The counters of the ids start from 0 after a restart, over tables that stay
  (`rest/NodeResource.java:22`). The counter of the jobs moves before the
  insertion (`rest/JobResource.java:42`), and its insertions fail until it has
  passed the ids in use; that of the nodes moves only when the insertion succeeds
  (line 99), and a new node is refused until the row that has the next id is gone.
- `increasePowerLevel` lowers the level once more
  (`processing/NetworkGraphMinimizationProcess.java:234`), where its caller's
  message says that it is restored.
- The length of a refused frame is counted from signed bytes
  (`gateway/XBeeGateway.java:112`), and a sound frame that is too short stays at
  the head of the buffer (`packets/xbee/XBeePacketToNode.java:159`).
- The end of a connection by its peer may not be noticed, because `available()`
  is then 0; in `Gateways`, `Disconnect` is possible and nothing makes it happen.
- The SIPRO gateway registers a sensor with its presence, and its location
  without: the first change may be taken for none.
- `OccupancySensingRegistrationProcess` compares with the state of the location:
  with several sensors in one, each undoes what the others report. The
  property is stated of locations with one.

## 6. Not modelled

- The routing table and endpoint mapping of a gateway: they are kept and nothing
  reads them any more (`gateway/XBeeGateway.java:52-65`).
- The frames that a gateway writes, and the serialisation of native packets:
  conversions without state, byte for byte.
- The polling of SIPRO sensors and its commands to actuators (XML documents of
  another server), and the timeouts of the states of devices.
- Persistent information, locations, functionalities, pairings: tables that users
  fill, one operation at a time. The one that touches a row of Node does it
  without `nodesLock`, and is listed as a hazard.
- `NativeGateway` (the hub refuses its protocol), the JSF pages, the mock network
  (a test double of the radio, which is an environment here).
- The JavaScript of the web applications: jQuery, jQuery UI, jCarousel and
  ICEpush are libraries, kept as their authors publish them, and what is the
  repository's own beside them, in the pages, in `carousel-addition.js` and in
  `counter-addition.js`, is the presentation of a carousel and of a counter. The
  logic of the system is in Java, and so are the lines that the map names.
- Removals of whole tables by a user, log levels.
