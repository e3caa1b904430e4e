------------------------------ MODULE Forward ------------------------------
(***************************************************************************)
(* Node.Apply: a command is applied by the local Raft node if it leads,    *)
(* else sent by gRPC to the leader this node knows of, whose server        *)
(* applies it or answers with the leader it knows of (internal/node,       *)
(* internal/grpc).  A handler runs to its end even if its client has given *)
(* up.                                                                     *)
(*                                                                         *)
(* hashicorp/raft is external: who leads, what each node believes, and     *)
(* what becomes of a proposed entry.  A node that lost leadership does not *)
(* know whether the entries it proposed will be committed.                 *)
(***************************************************************************)
EXTENDS Naturals, FiniteSets

CONSTANTS
    Nodes,
    NoNode,             \* the empty leader ID or address
    Calls,              \* calls of Apply
    maxRedirectHops,    \* 2 in the code
    origin,             \* origin[c]: the node call c is made on
    Listed,             \* nodes whose gRPC address is in every gossip view
    MaxLeaders,         \* bound: nodes that think they lead at the same time
    MaxStops            \* bound: nodes that are stopped

ASSUME ForwardAssumption ==
    /\ NoNode \notin Nodes
    /\ maxRedirectHops \in Nat \ {0}
    /\ origin \in [Calls -> Nodes]
    /\ Listed \subseteq Nodes
    /\ MaxLeaders \in Nat /\ MaxStops \in Nat

VARIABLES
    leads,      \* the nodes whose Raft is in state Leader; an old one may linger
    believes,   \* believes[n]: LeaderWithID on n
    server,     \* server[n]: node n's gRPC server, and Raft with it
    place,      \* place[c]: where Apply is
    target,     \* target[c]: leaderAddr of forwardWithHops
    hops,       \* hops[c]
    handler,    \* handler[c]: where ForwardCommand on target[c] is
    reply,      \* reply[c]: its response, and ...
    hint,       \* ... hint[c]: the LeaderAddr in it
    future,     \* future[c]: of the last ra.Apply made for c
    entry,      \* entry[c][h]: the log entry proposed at hop h
    answer,     \* answer[c]: what Apply returned
    calm        \* calm[c]: nothing in the environment stood in c's way (history)

raftVars == <<leads, believes>>
clientVars == <<place, target, hops, answer>>
serverVars == <<handler, reply, hint>>
logVars == <<future, entry>>
vars == <<raftVars, server, clientVars, serverVars, logVars, calm>>

Hops == 0..(maxRedirectHops - 1)

TypeOK ==
    /\ leads \subseteq Nodes
    /\ believes \in [Nodes -> Nodes \cup {NoNode}]
    /\ server \in [Nodes -> {"up", "draining", "down"}]
    /\ place \in [Calls -> {"idle", "check", "apply", "waiting", "lookup", "call",
                            "sent", "done"}]
    /\ target \in [Calls -> Nodes \cup {NoNode}]
    /\ hops \in [Calls -> 0..maxRedirectHops]
    /\ handler \in [Calls -> {"none", "check", "lookup", "apply", "waiting",
                              "replied"}]
    /\ reply \in [Calls -> {"none", "success", "failure", "redirect"}]
    /\ hint \in [Calls -> Nodes \cup {NoNode}]
    /\ future \in [Calls -> {"none", "pending", "ok", "failed"}]
    /\ entry \in [Calls -> [Hops -> {"none", "pending", "committed", "lost"}]]
    /\ answer \in [Calls -> {"none", "ok", "refused", "unknown"}]
    /\ calm \in [Calls -> BOOLEAN]
    /\ \A c \in Calls : place[c] \in {"call", "sent"} => target[c] \in Nodes
    /\ \A c \in Calls : handler[c] # "none" => target[c] \in Nodes
    /\ \A c \in Calls : place[c] = "sent" => handler[c] # "none" /\ hops[c] \in Hops

Init ==
    /\ leads = {}
    /\ believes = [n \in Nodes |-> NoNode]
    /\ server = [n \in Nodes |-> "up"]
    /\ place = [c \in Calls |-> "idle"]
    /\ target = [c \in Calls |-> NoNode]
    /\ hops = [c \in Calls |-> 0]
    /\ handler = [c \in Calls |-> "none"]
    /\ reply = [c \in Calls |-> "none"]
    /\ hint = [c \in Calls |-> NoNode]
    /\ future = [c \in Calls |-> "none"]
    /\ entry = [c \in Calls |-> [h \in Hops |-> "none"]]
    /\ answer = [c \in Calls |-> "none"]
    /\ calm = [c \in Calls |-> FALSE]

---------------------------------------------------------------------------
(* What both sides call *)

\* raftNode.IsLeader
IsLeader(n) == n \in leads

\* getLeaderGRPCAddr on n: the leader Raft names, if gossip has its address.
LeaderGRPCAddr(n) ==
    IF believes[n] \in Listed THEN {believes[n]} ELSE {believes[n], NoNode}

\* raftNode.Apply on n for call c.  ra.Apply gives a future that has failed
\* already when n no longer leads or the entry cannot be queued in time.
Propose(n, c) ==
    \/ /\ n \in leads
       /\ future' = [future EXCEPT ![c] = "pending"]
       /\ entry' = [entry EXCEPT ![c][hops[c]] = "pending"]
       /\ UNCHANGED calm
    \/ /\ future' = [future EXCEPT ![c] = "failed"]
       /\ calm' = [calm EXCEPT ![c] = FALSE]
       /\ UNCHANGED entry

---------------------------------------------------------------------------
(* Apply *)

Answer(c, a) ==
    /\ place' = [place EXCEPT ![c] = "done"]
    /\ answer' = [answer EXCEPT ![c] = a]

Goto(c, l) == place' = [place EXCEPT ![c] = l] /\ UNCHANGED answer

\* One node leads and can be reached, all others know it, and the node Apply is
\* called on knows it or some other node to ask.
Settled(n) ==
    \E l \in Nodes :
        /\ leads = {l}
        /\ l \in Listed /\ server[l] = "up"
        /\ \A m \in Nodes \ {n} : believes[m] = l
        /\ n # l => believes[n] \in Listed /\ server[believes[n]] = "up"

Call(c) ==
    /\ place[c] = "idle"
    /\ Goto(c, "check")
    /\ calm' = [calm EXCEPT ![c] = Settled(origin[c])]
    /\ UNCHANGED <<raftVars, server, target, hops, serverVars, logVars>>

CheckLeader(c) ==
    /\ place[c] = "check"
    /\ Goto(c, IF IsLeader(origin[c]) THEN "apply" ELSE "lookup")
    /\ UNCHANGED <<raftVars, server, target, hops, serverVars,
                   logVars, calm>>

\* ErrNotRunning after a Shutdown.
ApplyLocally(c) ==
    /\ place[c] = "apply"
    /\ \/ /\ server[origin[c]] # "down"
          /\ Propose(origin[c], c)
          /\ Goto(c, "waiting")
       \/ /\ server[origin[c]] = "down"
          /\ Answer(c, "refused")
          /\ UNCHANGED <<logVars, calm>>
    /\ UNCHANGED <<raftVars, server, target, hops, serverVars>>

\* future.Error() on the local future.
AwaitFuture(c) ==
    /\ place[c] = "waiting"
    /\ \/ future[c] = "ok" /\ Answer(c, "ok")
       \/ future[c] = "failed" /\ Answer(c, "unknown")
    /\ UNCHANGED <<raftVars, server, target, hops, serverVars,
                   logVars, calm>>

\* ErrNoLeader, or the first call of forwardWithHops.
Lookup(c) ==
    /\ place[c] = "lookup"
    /\ \E a \in LeaderGRPCAddr(origin[c]) :
          \/ a = NoNode /\ Answer(c, "refused") /\ UNCHANGED target
          \/ a # NoNode /\ Goto(c, "call") /\ target' = [target EXCEPT ![c] = a]
    /\ UNCHANGED <<raftVars, server, hops, serverVars, logVars, calm>>

\* Mutants of TooManyHops: the limit is reached one redirect early, or late.
TooManyHopsEarly(c) == hops[c] + 1 >= maxRedirectHops
TooManyHopsLate(c) == hops[c] > maxRedirectHops

\* ErrMaxHopsExceeded
TooManyHops(c) == hops[c] >= maxRedirectHops

\* forwardWithHops up to the call.  A server that is up takes the request; the
\* connection may fail all the same.
ForwardWithHops(c) ==
    /\ place[c] = "call"
    /\ \/ TooManyHops(c) /\ Answer(c, "refused") /\ UNCHANGED <<serverVars, calm>>
       \/ /\ ~TooManyHops(c)
          /\ server[target[c]] = "up"
          /\ Goto(c, "sent")
          /\ handler' = [handler EXCEPT ![c] = "check"]
          /\ reply' = [reply EXCEPT ![c] = "none"]
          /\ hint' = [hint EXCEPT ![c] = NoNode]
          /\ UNCHANGED calm
       \/ /\ ~TooManyHops(c)
          /\ Answer(c, "unknown")
          /\ calm' = [calm EXCEPT ![c] = FALSE]
          /\ UNCHANGED serverVars
    /\ UNCHANGED <<raftVars, server, target, hops, logVars>>

\* Mutants of Receive: a failed command is sent to the same server again; a
\* redirect does not count.
ReceiveRetries(c) ==
    /\ place[c] = "sent" /\ handler[c] = "replied"
    /\ \/ reply[c] = "success" /\ Answer(c, "ok") /\ UNCHANGED <<target, hops>>
       \/ /\ reply[c] = "failure" \/ hint[c] # NoNode
          /\ Goto(c, "call")
          /\ target' = [target EXCEPT ![c] = IF hint[c] # NoNode THEN hint[c] ELSE @]
          /\ hops' = [hops EXCEPT ![c] = @ + 1]
       \/ /\ reply[c] = "redirect" /\ hint[c] = NoNode
          /\ Answer(c, "refused")
          /\ UNCHANGED <<target, hops>>
    /\ UNCHANGED <<raftVars, server, serverVars, logVars, calm>>

ReceiveUncounted(c) ==
    /\ place[c] = "sent" /\ handler[c] = "replied"
    /\ \/ reply[c] = "success" /\ Answer(c, "ok") /\ UNCHANGED target
       \/ reply[c] = "failure" /\ Answer(c, "unknown") /\ UNCHANGED target
       \/ /\ reply[c] = "redirect" /\ hint[c] # NoNode
          /\ Goto(c, "call")
          /\ target' = [target EXCEPT ![c] = hint[c]]
       \/ /\ reply[c] = "redirect" /\ hint[c] = NoNode
          /\ Answer(c, "refused")
          /\ UNCHANGED target
    /\ UNCHANGED <<raftVars, server, hops, serverVars, logVars, calm>>

\* The rest of forwardWithHops: a result, the leader's error as text, a redirect,
\* or ErrForwardFailed.
Receive(c) ==
    /\ place[c] = "sent" /\ handler[c] = "replied"
    /\ \/ reply[c] = "success" /\ Answer(c, "ok") /\ UNCHANGED <<target, hops>>
       \/ reply[c] = "failure" /\ Answer(c, "unknown") /\ UNCHANGED <<target, hops>>
       \/ /\ reply[c] = "redirect" /\ hint[c] # NoNode
          /\ Goto(c, "call")
          /\ target' = [target EXCEPT ![c] = hint[c]]
          /\ hops' = [hops EXCEPT ![c] = @ + 1]
       \/ /\ reply[c] = "redirect" /\ hint[c] = NoNode
          /\ Answer(c, "refused")
          /\ UNCHANGED <<target, hops>>
    /\ UNCHANGED <<raftVars, server, serverVars, logVars, calm>>

\* The deadline of the call, or a broken connection; the handler goes on.
GiveUp(c) ==
    /\ place[c] = "sent"
    /\ Answer(c, "unknown")
    /\ calm' = [calm EXCEPT ![c] = FALSE]
    /\ UNCHANGED <<raftVars, server, target, hops, serverVars, logVars>>

Client(c) ==
    \/ CheckLeader(c) \/ ApplyLocally(c) \/ AwaitFuture(c) \/ Lookup(c)
    \/ ForwardWithHops(c) \/ Receive(c)

---------------------------------------------------------------------------
(* ForwardCommand on target[c] *)

HandlerGoto(c, l) ==
    /\ handler' = [handler EXCEPT ![c] = l]
    /\ UNCHANGED <<reply, hint>>

Respond(c, r, a) ==
    /\ handler' = [handler EXCEPT ![c] = "replied"]
    /\ reply' = [reply EXCEPT ![c] = r]
    /\ hint' = [hint EXCEPT ![c] = a]

HandleCheck(c) ==
    /\ handler[c] = "check"
    /\ HandlerGoto(c, IF IsLeader(target[c]) THEN "apply" ELSE "lookup")
    /\ UNCHANGED <<raftVars, server, clientVars, logVars, calm>>

HandleRedirect(c) ==
    /\ handler[c] = "lookup"
    /\ \E a \in LeaderGRPCAddr(target[c]) : Respond(c, "redirect", a)
    /\ UNCHANGED <<raftVars, server, clientVars, logVars, calm>>

HandleApply(c) ==
    /\ handler[c] = "apply"
    /\ \/ /\ server[target[c]] # "down"
          /\ Propose(target[c], c)
          /\ HandlerGoto(c, "waiting")
       \/ /\ server[target[c]] = "down"
          /\ Respond(c, "failure", NoNode)
          /\ UNCHANGED <<logVars, calm>>
    /\ UNCHANGED <<raftVars, server, clientVars>>

\* Mutant of HandleFuture: the handler only looks for a result.
HandleFutureOk(c) ==
    /\ handler[c] = "waiting"
    /\ future[c] = "ok" /\ Respond(c, "success", NoNode)
    /\ UNCHANGED <<raftVars, server, clientVars, logVars, calm>>

\* A result that json cannot encode is an error although the command was executed.
HandleFuture(c) ==
    /\ handler[c] = "waiting"
    /\ \/ future[c] = "ok" /\ Respond(c, "success", NoNode) /\ UNCHANGED calm
       \/ future[c] = "failed" /\ Respond(c, "failure", NoNode) /\ UNCHANGED calm
       \/ /\ future[c] = "ok"
          /\ Respond(c, "failure", NoNode)
          /\ calm' = [calm EXCEPT ![c] = FALSE]
    /\ UNCHANGED <<raftVars, server, clientVars, logVars>>

Handler(c) == HandleCheck(c) \/ HandleRedirect(c) \/ HandleApply(c) \/ HandleFuture(c)

---------------------------------------------------------------------------
(* Raft, gossip and the operators of the nodes *)

Disturbed == calm' = [c \in Calls |-> FALSE]

\* The node that c's future lives on.
Site(c) == IF place[c] = "waiting" THEN origin[c] ELSE target[c]

\* The futures of the entries n proposed fail, and nothing more is known of them.
FailFutures(n) ==
    future' = [c \in Calls |->
        IF future[c] = "pending" /\ Site(c) = n THEN "failed" ELSE future[c]]

BecomeLeader(n) ==
    /\ n \notin leads /\ server[n] # "down"
    /\ Cardinality(leads) < MaxLeaders
    /\ leads' = leads \cup {n}
    /\ believes' = [believes EXCEPT ![n] = n]
    /\ Disturbed
    /\ UNCHANGED <<server, clientVars, serverVars, logVars>>

StepDown(n) ==
    /\ n \in leads
    /\ leads' = leads \ {n}
    /\ believes' = [believes EXCEPT ![n] = NoNode]
    /\ FailFutures(n)
    /\ Disturbed
    /\ UNCHANGED <<server, clientVars, serverVars, entry>>

\* n hears from a leader, or from none for too long.
Learn(n) ==
    /\ n \notin leads /\ server[n] # "down"
    /\ \E l \in (leads \cup {NoNode}) \ {believes[n]} :
          believes' = [believes EXCEPT ![n] = l]
    /\ Disturbed
    /\ UNCHANGED <<leads, server, clientVars, serverVars, logVars>>

Commit(c) ==
    /\ \E h \in Hops :
          /\ entry[c][h] = "pending"
          /\ entry' = [entry EXCEPT ![c][h] = "committed"]
          /\ future' = IF h = hops[c] /\ future[c] = "pending"
                         THEN [future EXCEPT ![c] = "ok"] ELSE future
    /\ UNCHANGED <<raftVars, server, clientVars, serverVars, calm>>

\* A new leader overwrites an entry.
Lose(c) ==
    /\ future[c] = "failed"
    /\ \E h \in Hops :
          /\ entry[c][h] = "pending"
          /\ entry' = [entry EXCEPT ![c][h] = "lost"]
    /\ UNCHANGED <<raftVars, server, clientVars, serverVars, future, calm>>

\* node.Stop on n: GracefulStop takes no more requests ...
StopServer(n) ==
    /\ server[n] = "up"
    /\ Cardinality({m \in Nodes : server[m] # "up"}) < MaxStops
    /\ server' = [server EXCEPT ![n] = "draining"]
    /\ Disturbed
    /\ UNCHANGED <<raftVars, clientVars, serverVars, logVars>>

\* ... and waits for its handlers, and raftNode.Shutdown follows.
ShutdownNode(n) ==
    /\ server[n] = "draining"
    /\ \A c \in Calls : target[c] = n => handler[c] \in {"none", "replied"}
    /\ server' = [server EXCEPT ![n] = "down"]
    /\ leads' = leads \ {n}
    /\ believes' = [believes EXCEPT ![n] = NoNode]
    /\ FailFutures(n)
    /\ Disturbed
    /\ UNCHANGED <<clientVars, serverVars, entry>>

Environment ==
    \/ \E n \in Nodes : BecomeLeader(n) \/ StepDown(n) \/ Learn(n)
                        \/ StopServer(n) \/ ShutdownNode(n)
    \/ \E c \in Calls : Commit(c) \/ Lose(c)

Next ==
    \/ \E c \in Calls : Call(c) \/ Client(c) \/ Handler(c) \/ GiveUp(c)
    \/ Environment

Spec == Init /\ [][Next]_vars

\* A leader commits an entry or, cut off, gives up leadership.
Resolve(c) == Commit(c) \/ (future[c] = "pending" /\ StepDown(Site(c)))

\* Apply and the handlers go on, Raft resolves what it has accepted and a Stop
\* that has begun proceeds.  Nothing obliges Raft to have a leader, gossip to
\* spread or a deadline to fire.
Fairness ==
    /\ \A c \in Calls : WF_vars(Client(c)) /\ WF_vars(Handler(c)) /\ WF_vars(Resolve(c))
    /\ \A n \in Nodes : WF_vars(ShutdownNode(n))

FairSpec == Spec /\ Fairness

---------------------------------------------------------------------------
(* Properties *)

\* How often the command of c was executed, on all nodes together.
Executions(c) == Cardinality({h \in Hops : entry[c][h] = "committed"})

Service == INSTANCE CommandService WITH
    times <- [c \in Calls |-> Executions(c)]

\* Apply keeps its promise through elections, redirects, lost responses and
\* stopped nodes (node.go:151, server.go:130, forward.go:40).
ImplementsService == Service!Spec

\* A call that nothing stands in the way of succeeds, even if the node it is made
\* on names a former leader: one redirect is within the limit (forward.go:15).
CalmCallSucceeds ==
    \A c \in Calls : calm[c] /\ answer[c] # "none" => answer[c] = "ok"

\* Apply returns without the help of its deadline, whatever the nodes believe:
\* redirects in a circle end (forward.go:41).
ApplyReturns == \A c \in Calls : (place[c] # "idle") ~> (place[c] = "done")

\* Stop gets past GracefulStop: a handler that waits for Raft is answered although
\* Raft is shut down only afterwards (node.go:146, server.go:88).
ServerDrains == \A n \in Nodes : (server[n] = "draining") ~> (server[n] = "down")
===========================================================================
