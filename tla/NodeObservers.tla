--------------------------- MODULE NodeObservers ---------------------------
(***************************************************************************)
(* One life of a node, and what others see of it: the application that     *)
(* waits for the node or follows its state, the peers that read its gossip *)
(* metadata, and who browses mDNS.  NodeLifecycle with the steps that run, *)
(* setBootstrapped, setGRPCAddrWhenReady and startRaft take towards them.  *)
(*                                                                         *)
(* What the three of them see does not influence the others, and their     *)
(* steps do not decide what the node does: no guard of one reads the state *)
(* of another.  A behaviour therefore follows one of them, chosen at the   *)
(* start, and leaves the others at rest.                                   *)
(***************************************************************************)
EXTENDS NodeLifecycle, Sequences

CONSTANTS
    Capacity, MetaMaxSize, AddrSize,    \* see Subscription, GossipMeta
    AppSizes                            \* lengths of application metadata tried

VARIABLES
    change, app, queue, base,           \* see Subscription
    started, bootstrapped, shown,       \* see MDNSAdvertiser
    fields, encoded, published, raced,  \* see GossipMeta
    follow,     \* whom this behaviour follows
    told,       \* how far setBootstrapped has got
    poll        \* where setGRPCAddrWhenReady is

Updaters == {"loop", "grpc", "callback", "app"}

S == INSTANCE Subscription
A == INSTANCE MDNSAdvertiser
M == INSTANCE GossipMeta

ASSUME ObserversAssumption ==
    /\ MaxStarts = 1
    /\ Capacity \in Nat \ {0}
    /\ MetaMaxSize \in Nat /\ AddrSize \in Nat \ {0}
    /\ AppSizes \subseteq Nat

sVars == <<change, app, queue, base>>
aVars == <<started, bootstrapped, shown>>
mVars == <<fields, encoded, published, raced>>
oVars == <<sVars, aVars, mVars, follow, told, poll>>
allVars == <<vars, oVars>>

OTypeOK ==
    /\ TypeOK
    /\ S!STypeOK(B!States)
    /\ A!ATypeOK
    /\ M!MTypeOK
    /\ told \in {"nobody", "mdns", "gossip", "all"}
    /\ follow \in {"application", "browser", "peers"}
    /\ poll \in {"none", "polling", "setting", "done"}
    /\ published # <<>> => lists # {}

OInit ==
    /\ Init
    /\ S!SInit
    /\ A!AInit
    /\ M!MInit
    /\ told = "nobody"
    /\ poll = "none"
    /\ follow \in {"application", "browser", "peers"}

---------------------------------------------------------------------------
(* The run goroutine *)

\* Mutant of Announced: the node is Running before it has told anybody.
AnnouncedOrNot(g) == TRUE

\* run calls setBootstrapped(true) before it goes to StateRunning.
Announced(g) == at[g] = "announce" => told = "all"

\* What a step of run does to the mDNS server and to memberlist.
Servers ==
    /\ IF follow = "browser" /\ state' = "MDNSAdvertiserUp" /\ state' # state
         THEN A!AStart ELSE UNCHANGED aVars
    /\ IF follow = "peers" /\ lists' # lists THEN M!MStart ELSE UNCHANGED mVars

ORun(g) ==
    /\ Announced(g)
    /\ RunLoop(g)
    /\ IF follow = "application" THEN S!TransitionTo ELSE UNCHANGED sVars
    /\ Servers
    /\ UNCHANGED <<follow, told, poll>>

OBroadcast ==
    /\ ~Panicked
    /\ S!Broadcast
    /\ UNCHANGED <<vars, aVars, mVars, follow, told, poll>>

\* setBootstrapped: the advertiser first, then gossip.
TellMDNS(g) ==
    /\ ~Panicked
    /\ at[g] = "announce" /\ told = "nobody" /\ change = <<>>
    /\ IF follow = "browser" THEN A!SetBootstrapped ELSE UNCHANGED aVars
    /\ told' = "mdns"
    /\ UNCHANGED <<vars, sVars, mVars, follow, poll>>

TellGossip(g) ==
    /\ ~Panicked
    /\ at[g] = "announce"
    /\ \/ /\ told = "mdns" /\ follow # "peers"
          /\ told' = "all"
          /\ UNCHANGED mVars
       \/ /\ told = "mdns" /\ follow = "peers"
          /\ M!Set("loop", [fields EXCEPT !.boot = TRUE])
          /\ told' = "gossip"
       \/ /\ told = "gossip"
          /\ M!Publish("loop")
          /\ told' = "all"
    /\ UNCHANGED <<vars, sVars, aVars, follow, poll>>

RunGoroutine(g) == ORun(g) \/ OBroadcast \/ TellMDNS(g) \/ TellGossip(g)

---------------------------------------------------------------------------
(* The other goroutines *)

OStart ==
    /\ Start
    /\ poll' = IF up' /\ follow = "peers" THEN "polling" ELSE poll
    /\ UNCHANGED <<sVars, aVars, mVars, follow, told>>

\* setGRPCAddrWhenReady: every 50 ms, for as long as there is no gossip.
Poll ==
    /\ ~Panicked
    /\ \/ /\ poll = "polling" /\ gossip # 0
          /\ M!Set("grpc", [fields EXCEPT !.grpc = TRUE])
          /\ poll' = "setting"
       \/ /\ poll = "setting"
          /\ M!Publish("grpc")
          /\ poll' = "done"
    /\ UNCHANGED <<vars, sVars, aVars, follow, told>>

\* node.SetAppMetadata
SetAppMetadata ==
    /\ ~Panicked /\ follow = "peers"
    /\ gossip # 0
    /\ \E n \in AppSizes \ {fields.app} : M!Set("app", [fields EXCEPT !.app = n])
    /\ UNCHANGED <<vars, sVars, aVars, follow, told, poll>>

AppMetadataSet ==
    /\ ~Panicked
    /\ M!Publish("app")
    /\ UNCHANGED <<vars, sVars, aVars, follow, told, poll>>

\* startRaft ends with SetRaftAddr, and the callback goes on when it is done.
CallbackStep(step) ==
    /\ encoded["callback"] = <<>>
    /\ step
    /\ IF raft' \notin {0, raft} /\ gossip # 0 /\ follow = "peers"
         THEN M!Set("callback", [fields EXCEPT !.raft = "real"])
         ELSE UNCHANGED mVars
    /\ UNCHANGED <<sVars, aVars, follow, told, poll>>

SetRaftAddr ==
    /\ ~Panicked
    /\ M!Publish("callback")
    /\ UNCHANGED <<vars, sVars, aVars, follow, told, poll>>

OWaiter(g) ==
    \/ /\ WaiterStops(g) \/ WaiterTicks(g) \/ AskDidBootstrap(g)
       /\ UNCHANGED oVars
    \/ CallbackStep(OnBootstrapComplete(g))

OCallback(g) == CallbackStep(Callback(g)) \/ SetRaftAddr

\* raftNode.Shutdown takes the lock a callback holds until SetRaftAddr is done.
OStopRaft ==
    /\ encoded["callback"] = <<>>
    /\ StopRaft
    /\ UNCHANGED oVars

\* gossip.Stop waits for the setters, which hold its lock for reading.  It, the
\* advertiser's Stop and StateInit are one step: Stop has not returned before the
\* last of them, and a Start in between is refused.
OStopFinish ==
    /\ M!Idle
    /\ StopFinish
    /\ A!AStop
    /\ IF lists' # lists THEN M!MStop ELSE UNCHANGED mVars
    /\ UNCHANGED <<sVars, follow, told, poll>>

OStop == StopConsensus /\ UNCHANGED oVars

\* The application calls WaitForReady or Subscribe, receives, gives up.
Application ==
    /\ ~Panicked /\ follow = "application"
    /\ S!Application
    /\ UNCHANGED <<vars, aVars, mVars, follow, told, poll>>

Waiting ==
    /\ ~Panicked
    /\ S!Waiting
    /\ UNCHANGED <<vars, aVars, mVars, follow, told, poll>>

\* To an application or a peer a cancelled context is one more way to Failed; it
\* is left to the behaviours that follow neither.
Environment ==
    \/ CancelContext /\ follow = "browser" /\ UNCHANGED oVars
    \/ Persist /\ UNCHANGED oVars
    \/ Application
    \/ SetAppMetadata

ONext ==
    \/ Environment \/ OStart \/ OStopRaft \/ OStop \/ OStopFinish \/ Poll
    \/ AppMetadataSet \/ Waiting
    \/ \E g \in Gens : \/ RunGoroutine(g) \/ OWaiter(g) \/ OCallback(g)
                       \/ (Reconcile(g) /\ UNCHANGED oVars)

OSpec == OInit /\ [][ONext]_allVars

\* As in NodeLifecycle; a setter that has begun ends (UpdateNode waits a second at
\* most), the poll goes on and WaitForReady receives.
OFairness ==
    /\ WF_allVars(OStop \/ OStopFinish)
    /\ WF_allVars(Poll)
    /\ WF_allVars(AppMetadataSet \/ Waiting)
    /\ \A g \in Gens :
          /\ WF_allVars(RunGoroutine(g))
          /\ WF_allVars(OWaiter(g) \/ OCallback(g))
          /\ WF_allVars(Reconcile(g) /\ UNCHANGED oVars)

FairOSpec == OSpec /\ OFairness

---------------------------------------------------------------------------
(* Properties *)

\* WaitForReady returns nil only when the node has found or founded a cluster and
\* has told its peers and whoever browses mDNS (bootstrapper.go:128, 139).
ReadyIsAnnounced ==
    app = "ready" => role[1] # "none" /\ told = "all"

\* A caller of WaitForReady who has subscribed before the change to StateRunning
\* is broadcast, and whose buffer has room, returns: the broadcast comes after the
\* unlock, and older changes are ahead of it (node.go:250-263, bootstrapper.go:407-430).
ReadyIsNoticed ==
    (app = "selecting" /\ change # <<>> /\ change[2] = "Running" /\ Len(queue) < Capacity)
        ~> (app # "selecting" \/ Panicked)

\* The changes that are on their way to a subscriber.
Underway == IF change = <<>> THEN queue ELSE Append(queue, change)

\* As long as no buffer was full, what a subscriber gets is an unbroken account
\* that ends in the present state (bootstrapper.go:407-430, node.go:266-281); only
\* Stop goes back to StateInit without a word.
SubscriberIsInformed ==
    app = "subscribed" /\ (up \/ cGen = 0) =>
        LET path == <<<<base, base>>>> \o Underway IN
        /\ \A i \in 1..(Len(path) - 1) : path[i][2] = path[i + 1][1]
        /\ path[Len(path)][2] = state

\* mDNS never contradicts the node: no flag before it has a cluster, no record
\* without the flag once it is set, nothing after Stop (mdns_advertiser.go:72-103).
MDNSIsTruthful ==
    /\ shown = "bootstrapped=1" => role[1] # "none"
    /\ told # "nobody" => shown # "bootstrapped=0"
    /\ Stopped /\ 1 \in stopClosed => shown = "nothing"

\* A peer that is shown the address of a Raft that runs is shown the flag with it,
\* however the updates overlap: the leader adds nobody who has not announced
\* himself (raft/callbacks.go:175, raft/reconcile.go:66).
AddressComesWithFlag ==
    published # <<>> /\ published.raft = "real" => M!ReadBoot(published)

\* Metadata of any length given by the application costs a peer none of the other
\* fields, and is read in full if all of it fits (delegate.go:65-86, 171-195).
PeersReadWhatWasMeant ==
    published # <<>> =>
        /\ M!ReadAddr(published, "raft") = "whole"
        /\ published.grpc => M!ReadAddr(published, "grpc") = "whole"
        /\ published.boot => M!ReadBoot(published)
        /\ M!Offset(published, 6) <= MetaMaxSize /\ published.app > 0 =>
              M!ReadApp(published) = "whole"

\* Peers come to know that a running node has a cluster, and where its gRPC server
\* is, unless two updates overlapped and one undid the other (gossip.go:142-192).
PeersLearn ==
    (state = "Running" /\ up /\ follow = "peers")
        ~> \/ published # <<>> /\ published.boot /\ published.grpc
           \/ raced \/ caller # "idle" \/ Panicked
===========================================================================
