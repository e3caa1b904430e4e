# A TLA+ development for auto-consensus

auto-consensus is a Go library that turns a set of processes into a Raft cluster
without manual configuration. Nodes find each other (static list, DNS SRV, mDNS),
gossip with hashicorp/memberlist, decide who founds the cluster, start
hashicorp/raft, and keep the Raft configuration in step with gossip. This
directory holds TLA+ models of that machinery, TLC configurations that check
them on small instances, and TLAPS proofs for every instance.

Source paths below are relative to `src/internal/` unless they start with `src/`.

## 1. Inventory

| Component | State it keeps | Operations | Module |
|---|---|---|---|
| Bootstrap protocol (`bootstrap/bootstrapper.go`, `run` on every node) | loop position, retry counter, `didBootstrap`, the node's gossip view | discover, join, slot wait, recheck, found, retry, fail | `ClusterBootstrap`, abstractly `SingleFounder` |
| Bootstrapper object (same file) | `state`, `stopCh`, `stoppedCh`, `gossip`, one goroutine per Start | `Start`, `Stop`, the goroutine's steps | `Bootstrapper` |
| raft.Node (`raft/`) | `raft`, `running`, `stopCh`, storages, reconciliation goroutines | `OnBootstrap`, `OnJoin` (acceptance check, storage reset), `Shutdown` | `RaftNode` |
| node.Node and consensus.Node (`node/node.go`, `consensus/node.go`) | `running`, `stopCh`, the `waitForBootstrap` goroutine | `Start`, `Stop`, `waitForBootstrap`, `onBootstrapComplete` | `NodeLifecycle` |
| Membership (`raft/callbacks.go`, `raft/reconcile.go`) | gossip view, Raft configuration, handler goroutines, a reconciliation round | `handlePeerJoin`, `handlePeerLeave`, `reconcileMembers` | `Membership` |
| Gossip (`gossip/`) | memberlist, metadata, `bootstrapped` flag | `Start`, `Stop`, `Join`, `Members`, the four setters, `NodeMeta`, `nodeToInfo` | `GossipMeta`; views inside `ClusterBootstrap`, `Membership` |
| Discovery (`discovery/`, `node/discovery.go`) | configuration only | `Discover` | as an answer in `ClusterBootstrap` |
| mDNS advertiser (`bootstrap/mdns_advertiser.go`) | server, flag | start, stop, re-announce | `MDNSAdvertiser` |
| gRPC forwarding (`grpc/`, `Apply` in `node/node.go`) | server, the call in progress | `Apply`, `forwardWithHops`, `ForwardCommand`, `Stop` | `Forward`, abstractly `CommandService` |
| State subscription (`bootstrapper.go`, `node/node.go`) | subscriber channels | `transitionTo`, `broadcast`, `Subscribe`, `WaitForReady` | `Subscription` |
| The node as others see it | the four above over one life | `setBootstrapped`, `setGRPCAddrWhenReady`, `SetAppMetadata`, `SetRaftAddr` | `NodeObservers` |
| Test node, facade, logging, generated protobuf | - | - | not modelled |

How they interact. `node.Start` calls `consensus.Start`, which starts the
Bootstrapper's run goroutine and `waitForBootstrap`. The latter polls the
Bootstrapper's state every 50 ms and, in `StateRunning`, calls `OnBootstrap` or
`OnJoin` of raft.Node on its own goroutine. `node.Stop` first calls
`raftNode.Shutdown`, then `consensus.Stop`, which closes a channel and calls
`Bootstrapper.Stop`, which waits for the run goroutine and stops gossip. Gossip
events go through consensus.Node to raft.Node, one goroutine each. `node.Apply`
goes to the local Raft or, over gRPC, to the leader's node. Between nodes there is
gossip, mDNS, Raft and that call. The run goroutine, the callback, the goroutine
that waits to publish the gRPC address and the application all write the node's
gossip metadata.

What is hard. Several nodes decide at the same moment on views that differ; a
founder may die before anybody hears of it; discovery itself changes what the
decision looks at. In one process four kinds of goroutine share fields and
channels, are started by one call and not awaited by the other, and re-read
channels that have been replaced. Membership decisions are taken on snapshots
and applied by operations that take time, fail, and overtake one another. A
command's caller may be gone, and its leader deposed, before the command is executed.

What makes each component correct:

- bootstrap: no two founders at a time when discovery works; nobody joins a
  cluster that does not exist; a started node ends up in the cluster; the retry
  limit is exact;
- lifecycle: a Stop is final, returns, closes nothing twice; one Raft instance on
  the storages; Raft state is wiped only for the reason the code gives;
- membership: the configuration ends up being what gossip says, and stays so;
- forwarding: a command is executed at most once, a success or a definite refusal
  is true, calls return, a server that is stopped drains;
- what others see: states in order and without gaps, metadata a peer can read
  whatever the application adds, no address without the flag, no false mDNS record.

The hazards behind these properties are listed with their lines in
`PROJECT.json`, with the property that would catch each, or the reason why none
does.

## 2. Modules

**SingleFounder** is the abstract specification: nodes are out, founder or
member; a member needs a cluster to exist, a founder (if `Exclusive`) needs that
none exists.

**ClusterBootstrap** models `Bootstrapper.run` on every node plus memberlist.
`pc[n]` is the place of n's goroutine, finer than `State` where other nodes can
act in between: `todo[n]` and `hit[n]` are a `gossip.Join` in progress, dialled
address by address (`Dial`), so that views change while a discovery runs.
`members[n]` and `known[n]` are n's own view of who is there and whose metadata
says `bootstrapped`. `BeginDiscovery`/`EndDiscovery` are `runDiscovery` and the
branches after it, `EndJoin` is `joinCluster`, `SlotReached`/`EndRecheck` are
`waitForBootstrapSlot` and `shouldBootstrap`, `Found` and `Announce` the
assignments that follow, `Retry` the tail of the loop. `Gossip` and `Suspect`
are memberlist (external): entries spread one at a time, a failure detector
removes them, wrongly if `Reliable` is FALSE. `Halt` kills a process; all its
state is memory. The slot's hash and the back-off durations are abstracted to "at
any later time", so what holds does not depend on them.

**Bootstrapper** is one object with the goroutines of all its Starts. The g-th
Start makes the channels numbered g; a goroutine reads `b.stopCh` afresh at each
select (so `Head` looks at `gen`, not `g`), and the channel its deferred close
will close is the one the field held when the goroutine first ran (`Enter`).
What a round finds out is nondeterministic here; `role[g]` remembers it.

**RaftNode** is one raft.Node. Sections under `Node.mu` are one action.
`OnJoin`, `CheckState`, `WaitForAcceptance`, `BeginReset` and `EndReset` are the
steps of the join callback: `resetAndRestart` lets go of the lock while it
waits. `verdict` remembers why a reset is under way, `seeded` which callbacks made a
new cluster. What Raft decides is nondeterministic.

**NodeLifecycle** composes the two with node.Node and consensus.Node (`B ==
INSTANCE Bootstrapper`, `R == INSTANCE RaftNode`): one caller that starts and
stops, `waitForBootstrap` for each Start (`WaiterStops`, `WaiterTicks`),
`AskDidBootstrap`, the question to the Bootstrapper, and `OnBootstrapComplete`, the
call of the callback it picks; a Stop may come in between. `quiet` is history: every
Stop so far was called when no goroutine was under way.

**Membership** is one node whose Raft may be leader, with the other nodes as
gossip events. Each event spawns a goroutine (`task[i]`) that runs
`handlePeerJoin` (`JoinStart`, `JoinCompare`, `JoinRemove`, `JoinAdd`) or
`HandlePeerLeave` with the address of its event; reconciliation takes its two
snapshots (`TakeMembers`, then `BeginRound`), and `ReplaceStale`, `AddMissing`
and `Prune` carry the plan out, peer by peer. `Succeeds` and `Fails` are
hashicorp/raft: a failed operation may have taken effect; a configuration never
has two servers at one address; reading it may fail too (`ConfigurationFails`), and
then the handler adds the peer unseen and the round is over; `ChangeLeader` may bring any legal configuration.

**CommandService** is what `Apply` promises: `times` a command was executed and the
`answer` its caller got. At most one execution; "ok" only of an executed command;
"refused" (no leader, too many redirects, not running) only of one that never will
be; "unknown" (any other error) promises nothing.

**Forward** models `Apply` on one node, `forwardWithHops` and the handler
`ForwardCommand` on another. `place[c]` is the caller's goroutine, `handler[c]` the
one on `target[c]`; a caller that gives up leaves its handler running (`GiveUp`).
Looking whether the node leads (`CheckLeader`, `HandleCheck`), naming the leader
(`Lookup`, `HandleRedirect`) and proposing (`Propose`) are steps of their own, so that
leadership changes in between. `StopServer` and `ShutdownNode` are the first two
lines of `node.Stop`. Raft is external: leaders come and go, an old one lingers, a
follower believes in any node that leads or in none, an entry proposed by a deposed
leader may be committed or lost (`entry` has one per hop). `calm[c]` is history:
nothing has gone wrong since the call began.

**Subscription** is the way of one application goroutine that calls `WaitForReady`
or `Subscribe`: state change, broadcast, buffer, receipt. **MDNSAdvertiser** is the
record a browser gets. **GossipMeta** is the metadata: `fields` of the delegate,
`encoded[u]` of an `UpdateNode` under way on goroutine u, `published` what peers have.
`Kept`, `ReadAddr`, `ReadBoot` and `ReadApp` are `NodeMeta` and `nodeToInfo` on
lengths: what is left of each part after the cut at the limit, and what a peer makes
of it.

**NodeObservers** composes the three with `NodeLifecycle`, every step of which it
takes: `ORun` adds the transition to a run step and the servers it starts, `TellMDNS`
and `TellGossip` are `setBootstrapped`, `CallbackStep` the `SetRaftAddr` at the end of
`startRaft`, `Poll` is `setGRPCAddrWhenReady`. The three observers do not influence
each other or the node, so a behaviour follows one of them (`follow`): state spaces
are added and not multiplied. A setter holds gossip's lock for reading, so
`OStopFinish` waits for it, and raft.Node's lock is held through `SetRaftAddr`, so
`OStopRaft` does. `OStopFinish` stops gossip, then mDNS, then sets the state, in one
step: `Stop` has not returned before the last, and a Start in between is refused.

**MCClusterBootstrap, MCNodeLifecycle, MCMembership, MCForward, MCNodeObservers** give
the instances for TLC;
**ClusterBootstrapProofs, MembershipProofs, ForwardProofs, NodeLifecycleProofs,
NodeObserversProofs** hold the theorems. Operators whose
comment says "Mutant of" are variants of the definition that follows, with a bug
somebody could make; no specification uses them. Each property has one that
breaks it.

## 3. Runs

Passing:

- `cluster_safety` (`ClusterSafety.cfg`): three nodes, full mesh, all may
  bootstrap, reliable environment, one crash with restart. `AtMostOneFounder`, and
  the two facts it rests on: `PeersMeet` (of two nodes with gossip up one sees
  the other or will dial it) and `FounderIsVisible`. Three nodes are the fewest
  with a third party that spreads stale entries about a crashed one. Nodes are
  symmetric in this deployment and no temporal property is checked, so symmetry
  is sound.
- `cluster_lossy`: the topology of `src/test-cluster.sh` with discovery, dialling
  and failure detection that may err, and a limit of 2 retries. Two founders are
  possible in this environment; what still holds is that nobody joins a cluster
  without a founder (`ImplementsSingleFounder` with `Exclusive` FALSE), and
  `RetryBudget`. Here a limit of 2 separates "at", "before" and "after".
- `cluster_live`: three nodes, one of which may not bootstrap, fair. The
  refinement with `Exclusive` TRUE, `JoinerSeesFounder`, and liveness:
  `StartedNodesJoin`, `LoneNodeFounds`.
- `lifecycle_restart`: two Starts, any number of Stops at any moment, one
  cancelled context, failing starts and resets. `QuietStopIsFinal`,
  `QuietStopIsSafe`, `OneRaftOnStorage`, `StopIsAwaited`, `WipedOnlyWhenUnaccepted`.
  `ReconcilerServesRaft`: Stop does not wait for the reconciliation goroutine, yet at
  any moment each of them belongs to the Raft that runs now or is bound to end, because
  both the channel it watches and the field it would read next are closed. Making a new
  `stopCh` in Shutdown, the obvious repair of `lifecycle_second_stop` below, breaks it.
  And `ClustersAreFounded`: although `didBootstrap` is never
  reset, and a life that joined may run the founder's callback of an earlier one, no
  cluster arises that no life decided to found, and quiet Stops never lead to a second
  one. Without `quiet` the second half would be false, but only from the fourth life on:
  a storage reset that a Stop did not wait for wipes, in a later life, what the
  founder's callback had written, and the next life, with `didBootstrap` still set,
  founds again. Two Starts are enough for two generations of goroutines on the same
  fields, which is where all other properties are decided; for any number of Starts
  all of them are proved.
- `node_observers`: one Start, any number of Stops, a Leave that may fail, fair. To
  the application: `ReadyIsAnnounced`, `SubscriberIsInformed`, `ReadyIsNoticed`; to a
  browser: `MDNSIsTruthful`; to peers: `AddressComesWithFlag`, `PeersReadWhatWasMeant`,
  `PeersLearn`; and of the node itself `StopReturns`, `ReconcilersEnd`. The buffer
  holds 2 instead of 16, so that older changes may be ahead of the one waited for and
  it still fills up within a few steps. `ReadyIsNoticed` is about a `WaitForReady` that
  subscribed before the change to Running is sent, and has room for it: it returns,
  whatever it has missed before. 330 bytes of
  application metadata (440 in base64) with addresses of 21 bytes fit into memberlist's
  512 until the gRPC address is there; then the application's part, the last, is cut. One cancelled context is
  tried in the behaviours that follow the browser, the smallest.
- `forward`: three nodes, one call, the code's hop limit of 2, at most two nodes that
  think they lead, any number of elections, one node stopped; the gRPC address of
  the calling node may be missing from gossip. `ImplementsService` (the refinement of
  `CommandService`), `CalmCallSucceeds`, `ApplyReturns`, `ServerDrains`. Three nodes
  give a caller, a former leader and a leader, which is what a redirect needs; calls
  share nothing but Raft, so one call sees all there is. The run also tells why the
  limit is needed: in Raft beliefs do not form a circle that stands still, but
  without a count a call may chase leaders for ever.
- `membership`: two peers, two events, one failure, leadership won, lost and won
  again: `Converges`. Two peers are what one address for two needs; two events
  are a join and a leave, or two addresses, of one peer, or one of each.

Violations, each a disagreement between the code and what the repository says of
it (quoted in `PROJECT.json`, findings):

- `cluster_livelock`: two nodes that start together refuse to found a cluster for
  ever. `runDiscovery` itself joins the peers' gossip, so `NumMembers() > 1` is
  true on both, and neither is bootstrapped. No failure is needed. Deployments
  get away with it when one node is alone for a while.
- `lifecycle_callback`: a first tick of `waitForBootstrap` that finds `StateInit`
  gives up, and the node reaches `StateRunning` without a Raft callback.
- `lifecycle_raft_after_stop`: Stop before the callback has run shuts down
  nothing; the callback then starts a Raft instance that outlives Stop.
- `lifecycle_second_stop`: Start, Stop, Start, Stop, each called on a node at rest,
  panics: `Shutdown` closes `stopCh`, which only `New` and a storage reset make.
  A Stop during the acceptance check comes to the same close by another way: it is
  taken for a refusal, and the reset closes the channel again. The panic is in the
  model, and all that keeps the reset from wiping the storages (`WipedOnlyWhenUnaccepted`).
- `membership_placeholder`: a peer's flag is gossiped before its Raft address,
  and the guard against an empty address does not recognise `host:0`, so the
  leader makes that address a voter.

The lifecycle properties that pass say `quiet` or bound the Starts because of
these: they mark exactly how far the guarantees go.

Deadlock checking is off in all runs: a cluster that runs, a node that stays
stopped and gossip that has settled are legitimate ends.

### Fairness

- `ClusterBootstrap`: weak fairness of each node's run goroutine. The Go scheduler
  runs goroutines, sleeps end, dials time out. Nothing obliges an operator to
  start a node, or gossip to spread; `StartedNodesJoin` holds because the loop
  dials again.
- `NodeLifecycle`: weak fairness of each goroutine, and of a Stop once called.
  Nothing obliges a caller to call, a round to succeed or Raft to persist.
- `NodeObservers`: the same, and weak fairness of a setter that has begun
  (`UpdateNode` waits a second at most), of the poll for gossip, and of
  `WaitForReady`'s loop. Nothing obliges an application to call, or a subscriber to
  read.
- `Forward`: weak fairness of the caller's and the handler's goroutine and of a stop
  that has begun; Raft commits an accepted entry or the leader steps down
  (hashicorp/raft's leader lease). No assumption that there is a leader, that
  beliefs agree or that a deadline fires.
- `Membership`: weak fairness of each handler goroutine and of the reconciliation
  goroutine: the ticker ticks and Raft operations return. No assumption that an
  operation succeeds; `Converges` holds because rounds are repeated.

### Bounds

`MaxHalts`, `MaxStarts`, `MaxCancels`, `MaxEvents`, `MaxFaults`, `MaxTurns`,
`MaxLeaders` and `MaxStops` bound what the environment does, never what the code does. `MaxRetries` is the code's own
parameter (0: no limit, which is what node.New configures). With no limit the model
does not count attempts: the code only reads the counter when there is one, apart
from the length of the back-off.

## 4. Proofs

For every value of the constants that satisfies the named assumptions.

`ClusterBootstrapProofs`

- `TypeCorrect == Spec => []TypeOK`.
- `SingleFounderSafety`, `PeersDoMeet`, `FounderIsSeen`: given `Reliable` and `FullMesh`,
  `Spec => []AtMostOneFounder`, `[]PeersMeet` and `[]FounderIsVisible`, for any number of nodes, crashes and restarts. `AtMostOneFounder` is not inductive:
  two nodes at the end of their recheck could both be alone as far as the
  invariant knows. The inductive invariant `IndInv` adds three facts. `FounderPC`: a
  founder is past its first discovery, with nothing left to try. `PeersMeet`: a node
  brings gossip up before it dials, so of two nodes the later one must find the
  earlier one; between two live nodes one sees the other or has it to dial.
  `FounderIsVisible`: at the moment n finds itself alone, `PeersMeet` gives that every
  other live m sees n or will dial it before it decides; nothing takes that
  away while n lives, since a reliable failure detector only removes the dead, and a
  restarted node begins with n to dial. So a second node that has come to its
  recheck sees n, is not `Alone`, and does not found.
- `BootstrapImplementsSingleFounder`: given `MaxHalts = 0` and `Reliable => FullMesh`,
  `Spec => Abstract!Spec`. The step that matters is `Announce` of a joiner, which must
  map to a step with a cluster in existence: `JoinInv` says that who is
  believed to be bootstrapped is (`KnownIsTrue`), that while a node is joining some
  node is (`JoinerHasCluster`), and that then some node founded (`ClusterHasFounder`). Crashes are excluded because a member that outlives its
  founder is one the abstract specification does not have.
- `JoinerSees`: given `Reliable`, `FullMesh` and `MaxHalts = 0`,
  `Spec => []JoinerSeesFounder`. A joiner may have learnt of the cluster from a node that
  is not its founder. `ClusterHasFounder` gives a founder, `FounderIsVisible` that the
  joiner meets it, and with nothing left to dial it sees it; a founder is in its
  own view (`SelfMember`).
- `BudgetIsKept == Spec => []RetryBudget`, in any environment.

`MembershipProofs`

- `TypeCorrect`: beyond types, no sequence of handlers, rounds, failures and
  elections leaves an illegal configuration, and a round never prunes a peer it is
  adding and always has an address for what it removes as stale (`PlanOK`).

`ForwardProofs`

- `TypeCorrect == Spec => []TypeOK`, for any number of calls in progress at once.
- `ForwardImplementsService == Spec => ImplementsService`. What `CommandService`
  says of a call's answer cannot be derived from the answer: a client may have
  given up while its handler still proposes the command. The inductive invariant `IInv`
  is `TypeOK` and, for each call, `CallInv`: a log entry exists only at the last hop,
  since a redirect proposes nothing; while Apply or the handler has not reached
  `raftNode.Apply` (`Unproposed`) there is neither entry nor future; a future that
  succeeded has its committed entry; a response or an answer of success has such a
  future; and a refused call has no handler at work. So the commit of an entry is the
  first execution of its command and never that of a refused one, which is the
  abstract `Execute`; an answer is the abstract `Return`; all else stutters.
- `CalmCallsSucceed`: given `maxRedirectHops > 1`, `Spec => []CalmCallSucceeds`.
  `CalmInv` adds how far an undisturbed call has got (`Undisturbed`): the first request
  went to the node the caller names, the second to the leader (`OnTrack`), no
  future of it has failed, and a redirect it got names the leader. The last needs
  `SelfBelief`, that only a leader names itself: the node the caller names is not the
  caller, hence one of those that know the leader. With a limit of one the theorem is false.

`NodeLifecycleProofs`, for any number of Starts, Stops and cancelled contexts

- `TypeCorrect`, `StopAwaited`, `WipeIsDeserved` and the first half of `ClustersFounded`
  hold whenever Stop is called. Their invariant is `Inv`: `TypeOK` and four parts.
  `LoopInv`: a run goroutine has yet to start exactly if its number is above `gen`, its
  deferred close is of a channel no older than itself, and somebody has closed or will
  close the present one (`Awaited`). The last is the point of `StopIsAwaited`, which
  only speaks of the moment Stop waits: it must hold of every state, because a later
  Start may have replaced the channel under a goroutine that has not run yet.
  `CallerInv`: who is in a callback came from `waitForBootstrap`, and reconciliation runs
  only after the callback. `ChannelInv`: all former stop channels are closed, and a
  reset that a Shutdown caused is still before its close, on a closed channel, so it
  panics there instead of wiping the storages; that is `WipeIsDeserved`. `FounderInv`: who
  goes for the founder's callback has the flag.
- `RaftIsAlone`, `StopIsFinal`, `StopIsSafe`, `ReconcilerServes` and the second half of
  `ClustersFounded` hold as long as every Stop was a quiet one. `QuietInv` says what that
  buys: `OneLife`, only goroutines of the present life are under way, and only while
  it lasts; `OneRaft`, the instance `n.raft` names is the only one, and there is none
  between lives or while a reset waits; `OneLoop`, a reconciliation goroutine of an
  earlier life watches a closed channel, and `n.stopCh` is open only while the present
  life's Raft runs, or nobody has a loop; `OneCluster`, a node that decided to found neither is in nor
  goes for the callback that could wipe its storages, so what it seeded stays;
  `FirstStop`, the channel that the first Stop closes is open. None is
  inductive alone: that a second Raft cannot start needs that no second callback is
  under way, which needs that a quiet Stop leaves no waiter behind.

`NodeObserversProofs`, for one life, channels of any capacity and metadata of any length

- `ObserversWatchOnly == OSpec => Spec`: each step is one of `NodeLifecycle` or leaves the
  node alone (`StepProjects`), so `Inv` holds here as well.
- `ReadyComesAfterAnnouncement`, `MDNSTellsTheTruth`, `SubscriberCanFollow`, `OTypeCorrect`,
  and, given `AddressesFit` (three addresses and the flag, `3 * AddrSize + 25`, are within the
  limit; 512 bytes leave 162 for an address), `FlagComesWithAddress` and `PeersRead`. `OInv`
  connects what an observer has to where the goroutine is: `RoleInv`, whom
  it has told and that it has a part in a cluster by then; `ReadyInv`, a change to Running
  that is being broadcast, queued or received was made after everybody had been told,
  and so was the decision of `waitForBootstrap` to call back; `MetaInv`, the fields and
  every encoding of them, published or under way, have the flag with the address of a
  Raft that runs, which follows from `ReadyInv` and the flag never being taken back;
  `BrowserInv`, the record and the flag of the advertiser; `AccountInv`, the
  changes in the queue join end to end, from the last one received to the one being
  broadcast (`Linked`), which is kept when a change is appended or taken away.
  `PartsAreKept` is the arithmetic of the cut.

Only model-checked: liveness (`StartedNodesJoin`, `LoneNodeFounds`, `StopReturns`,
`ReconcilersEnd`, `Converges`, `ApplyReturns`, `ServerDrains`, `ReadyIsNoticed`,
`PeersLearn`), which is out of the prover's reach, as is `ENABLED`. Every invariant and
action property of the passing runs is proved.

## 5. Not modelled

- memberlist and hashicorp/raft themselves: modelled as far as the code relies on
  them. Incarnation numbers are left out, so an entry about a third node may spread
  after that node is gone: more behaviours than memberlist has.
- The quorum a configuration change needs: `Membership` has changes that succeed or
  fail at will. That a voter at `host:0` can cost a one-node cluster its leader is
  therefore a listed hazard and not a property.
- The discoverer that returns peers with flags (`BootstrapDiscoverer`): node.New's
  adapter hides it, no caller reaches that branch of `runDiscovery`.
- Application messages (`Broadcast`, `OnBroadcast`): queued in memberlist and handed to
  a function, with no state of the repository's own in between.
- The discovery cascade and the filtering of mDNS records: the protocol is modelled
  for any answer a discoverer gives, so the order of the cascade cannot matter to it.
- Who asks for the state, finds another, and subscribes after the broadcast
  (`WaitForReady`), or whose buffer is full, is not told. Nothing in the repository
  promises more, so these are listed hazards and neither a property nor a finding.
- A second life of the gossip metadata: `NodeObservers` follows one Start. That
  `setGRPCAddrWhenReady` may find the object of the previous life is a listed hazard.
- The application's own join and leave callbacks, the test node, logging, generated
  code, sockets, files and time.

## 6. Plan

Every safety property of the passing runs has its theorem. What would say more:

1. `Membership`: safety in between, such as what a reconciliation round may do to a
   peer that a handler has just added, which no run states yet.
2. The quorum of a configuration change in `Membership`.
3. Two lives in `NodeObservers`, which need a smaller lifecycle underneath.
