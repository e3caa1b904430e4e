--------------------------- MODULE ForwardProofs ---------------------------
(***************************************************************************)
(* Proofs about Forward for every set of nodes and calls, any number of    *)
(* elections and stopped nodes: Apply implements CommandService, and a     *)
(* call that nothing stands in the way of succeeds.                        *)
(***************************************************************************)
EXTENDS Forward, FiniteSetTheorems, TLAPS

---------------------------------------------------------------------------
(* The inductive invariants *)

NoProposal(c) ==
    /\ future[c] = "none"
    /\ \A h \in Hops : entry[c][h] = "none"

\* Where nothing can have been proposed for c.
Unproposed(c) ==
    \/ place[c] \in {"idle", "check", "apply", "lookup", "call"}
    \/ handler[c] \in {"check", "lookup", "apply"}
    \/ handler[c] = "replied" /\ reply[c] = "redirect"
    \/ answer[c] = "refused"

\* A command is proposed at one hop only, the last; what c is told follows from it.
CallInv(c) ==
    /\ \A h \in Hops : entry[c][h] # "none" => h = hops[c]
    /\ place[c] \in {"idle", "check", "apply", "waiting", "lookup"} =>
          handler[c] = "none" /\ hops[c] = 0
    /\ place[c] = "call" => handler[c] \in {"none", "replied"}
    /\ handler[c] \in {"check", "lookup", "apply", "waiting"} =>
          place[c] \in {"sent", "done"} /\ hops[c] \in Hops
    /\ Unproposed(c) => NoProposal(c)
    /\ future[c] = "ok" => \E h \in Hops : entry[c][h] = "committed"
    /\ reply[c] = "success" => future[c] = "ok"
    /\ answer[c] = "refused" => handler[c] \in {"none", "replied"}
    /\ answer[c] = "ok" => future[c] = "ok"
    /\ answer[c] = "none" <=> place[c] # "done"

IInv == TypeOK /\ \A c \in Calls : CallInv(c)

\* A node that names itself the leader leads.
SelfBelief == \A n \in Nodes : believes[n] = n => n \in leads

\* The first request goes to the node the caller knows, the second to the leader.
OnTrack(c) ==
    \/ hops[c] = 0 /\ target[c] = believes[origin[c]] /\ origin[c] \notin leads
    \/ hops[c] = 1 /\ target[c] \in leads

\* How far a call has got that nothing stands in the way of.
Undisturbed(c) ==
    /\ place[c] # "idle"
    /\ Settled(origin[c])
    /\ place[c] = "lookup" => origin[c] \notin leads
    /\ place[c] = "apply" => origin[c] \in leads
    /\ place[c] = "waiting" => future[c] \in {"pending", "ok"}
    /\ place[c] \in {"call", "sent"} => OnTrack(c)
    /\ place[c] = "sent" =>
          /\ handler[c] = "lookup" => hops[c] = 0 /\ target[c] \notin leads
          /\ handler[c] = "apply" => target[c] \in leads
          /\ handler[c] = "waiting" => future[c] \in {"pending", "ok"}
          /\ handler[c] = "replied" =>
                \/ reply[c] = "success"
                \/ reply[c] = "redirect" /\ hint[c] \in leads /\ hops[c] = 0
    /\ answer[c] \in {"none", "ok"}

CalmInv == SelfBelief /\ \A c \in Calls : calm[c] => Undisturbed(c)

---------------------------------------------------------------------------
(* Type correctness and the calls' invariant *)

LEMMA HopsFacts == 0 \in Hops /\ Hops \subseteq 0..maxRedirectHops /\ Hops \subseteq Nat
  BY ForwardAssumption DEF Hops

LEMMA InitIInv == Init => IInv
<1> SUFFICES ASSUME Init PROVE IInv
  OBVIOUS
<1>1. TypeOK
  BY ForwardAssumption DEF Init, TypeOK
<1>2. ASSUME NEW c \in Calls PROVE CallInv(c)
  BY HopsFacts DEF Init, CallInv, Unproposed, NoProposal
<1> QED BY <1>1, <1>2 DEF IInv

\* Nothing of d changes.
Same(d) ==
    /\ place'[d] = place[d] /\ hops'[d] = hops[d] /\ answer'[d] = answer[d]
    /\ handler'[d] = handler[d] /\ reply'[d] = reply[d]
    /\ future'[d] = future[d] /\ entry'[d] = entry[d]

LEMMA SameKeepsInv ==
  ASSUME NEW d \in Calls, CallInv(d), Same(d)
  PROVE  CallInv(d)'
  BY DEF CallInv, Unproposed, NoProposal, Same

\* A step of the goroutine of one call leaves the others alone.
LEMMA OneCall ==
  ASSUME IInv, NEW c \in Calls, TypeOK', CallInv(c)',
         \A d \in Calls \ {c} : Same(d)
  PROVE  IInv'
  BY SameKeepsInv DEF IInv

\* What raftNode.Apply does to the future and the entries of c.
LEMMA ProposeEffect ==
  ASSUME TypeOK, NEW n, NEW c \in Calls, hops[c] \in Hops, NoProposal(c), Propose(n, c)
  PROVE  /\ future' \in [Calls -> {"none", "pending", "ok", "failed"}]
         /\ entry' \in [Calls -> [Hops -> {"none", "pending", "committed", "lost"}]]
         /\ calm' \in [Calls -> BOOLEAN]
         /\ future'[c] \in {"pending", "failed"}
         /\ \A h \in Hops : entry'[c][h] # "none" => h = hops[c]
         /\ \A d \in Calls \ {c} : future'[d] = future[d] /\ entry'[d] = entry[d]
<1>1. CASE /\ future' = [future EXCEPT ![c] = "failed"]
           /\ calm' = [calm EXCEPT ![c] = FALSE]
           /\ UNCHANGED entry
  BY <1>1 DEF TypeOK, NoProposal
<1>2. CASE /\ future' = [future EXCEPT ![c] = "pending"]
           /\ entry' = [entry EXCEPT ![c][hops[c]] = "pending"]
           /\ UNCHANGED calm
  BY <1>2 DEF TypeOK, NoProposal
<1> QED BY <1>1, <1>2 DEF Propose

\* The end of a call: Apply has returned, and the rest is as it was.
LEMMA AnswerType ==
  ASSUME TypeOK, NEW c \in Calls, NEW a \in {"ok", "refused", "unknown"}, Answer(c, a),
         UNCHANGED <<raftVars, server, target, hops, serverVars, logVars>>,
         calm' \in [Calls -> BOOLEAN]
  PROVE  TypeOK'
  BY DEF TypeOK, Answer, raftVars, serverVars, logVars

LEMMA AnswerCall ==
  ASSUME TypeOK, NEW c \in Calls, CallInv(c), NEW a \in {"ok", "refused", "unknown"},
         Answer(c, a),
         a = "ok" => future[c] = "ok",
         a = "refused" => NoProposal(c) /\ handler[c] \in {"none", "replied"},
         handler[c] = "none" \/ place[c] \in {"call", "sent"},
         UNCHANGED <<hops, serverVars, logVars>>
  PROVE  CallInv(c)'
<1>1. /\ place'[c] = "done" /\ answer'[c] = a
      /\ handler'[c] = handler[c] /\ reply'[c] = reply[c] /\ hops'[c] = hops[c]
      /\ future'[c] = future[c] /\ entry'[c] = entry[c]
  BY DEF TypeOK, Answer, serverVars, logVars
<1> QED BY <1>1 DEF CallInv, Unproposed, NoProposal

LEMMA AnswerStep ==
  ASSUME IInv, NEW c \in Calls, NEW a \in {"ok", "refused", "unknown"}, Answer(c, a),
         a = "ok" => future[c] = "ok",
         a = "refused" => NoProposal(c) /\ handler[c] \in {"none", "replied"},
         handler[c] = "none" \/ place[c] \in {"call", "sent"},
         UNCHANGED <<raftVars, server, target, hops, serverVars, logVars>>,
         calm' \in [Calls -> BOOLEAN]
  PROVE  IInv'
<1>1. TypeOK'
  BY AnswerType DEF IInv
<1>2. CallInv(c)'
  BY AnswerCall DEF IInv
<1>3. \A d \in Calls \ {c} : Same(d)
  BY DEF IInv, TypeOK, Answer, Same, serverVars, logVars
<1> QED BY <1>1, <1>2, <1>3, OneCall

---------------------------------------------------------------------------
(* Apply *)

LEMMA CallStep ==
  ASSUME IInv, NEW c \in Calls, Call(c)
  PROVE  IInv'
<1> USE DEF Call, Goto, raftVars, serverVars, logVars
<1>1. TypeOK'
  BY DEF IInv, TypeOK, Settled
<1>2. CallInv(c)'
  BY DEF IInv, TypeOK, CallInv, Unproposed, NoProposal
<1>3. \A d \in Calls \ {c} : Same(d)
  BY DEF IInv, TypeOK, Same
<1> QED BY <1>1, <1>2, <1>3, OneCall

LEMMA CheckLeaderStep ==
  ASSUME IInv, NEW c \in Calls, CheckLeader(c)
  PROVE  IInv'
<1> USE DEF CheckLeader, Goto, raftVars, serverVars, logVars
<1>1. TypeOK'
  BY DEF IInv, TypeOK
<1>2. CallInv(c)'
  BY DEF IInv, TypeOK, CallInv, Unproposed, NoProposal
<1>3. \A d \in Calls \ {c} : Same(d)
  BY DEF IInv, TypeOK, Same
<1> QED BY <1>1, <1>2, <1>3, OneCall

LEMMA ApplyLocallyStep ==
  ASSUME IInv, NEW c \in Calls, ApplyLocally(c)
  PROVE  IInv'
<1>1. CallInv(c) /\ NoProposal(c) /\ handler[c] = "none" /\ hops[c] = 0
  BY DEF IInv, CallInv, Unproposed, ApplyLocally
<1>2. CASE Answer(c, "refused") /\ UNCHANGED <<logVars, calm>>
  BY <1>1, <1>2, AnswerStep DEF IInv, TypeOK, ApplyLocally
<1>3. CASE Propose(origin[c], c) /\ Goto(c, "waiting")
  <2> DEFINE n == origin[c]
  <2>1. hops[c] \in Hops /\ TypeOK
    BY <1>1, HopsFacts DEF IInv
  <2>2. /\ future' \in [Calls -> {"none", "pending", "ok", "failed"}]
        /\ entry' \in [Calls -> [Hops -> {"none", "pending", "committed", "lost"}]]
        /\ calm' \in [Calls -> BOOLEAN]
        /\ future'[c] \in {"pending", "failed"}
        /\ \A h \in Hops : entry'[c][h] # "none" => h = hops[c]
        /\ \A d \in Calls \ {c} : future'[d] = future[d] /\ entry'[d] = entry[d]
    BY <1>1, <1>3, <2>1, ProposeEffect
  <2>3. /\ UNCHANGED <<leads, believes, server, target, hops, handler, reply, hint, answer>>
        /\ place' = [place EXCEPT ![c] = "waiting"]
    BY <1>3 DEF ApplyLocally, Goto, raftVars, serverVars
  <2>4. TypeOK'
    BY <2>1, <2>2, <2>3 DEF TypeOK
  <2>5. CallInv(c)'
    <3>1. /\ place'[c] = "waiting" /\ answer'[c] = "none" /\ handler'[c] = "none"
          /\ hops'[c] = 0 /\ hops'[c] = hops[c] /\ reply'[c] # "success"
      BY <1>1, <2>1, <2>3 DEF TypeOK, CallInv, NoProposal, ApplyLocally
    <3> QED BY <2>2, <3>1 DEF CallInv, Unproposed
  <2>6. \A d \in Calls \ {c} : Same(d)
    BY <2>1, <2>2, <2>3 DEF TypeOK, Same
  <2> QED BY <2>4, <2>5, <2>6, OneCall
<1> QED BY <1>2, <1>3 DEF ApplyLocally

LEMMA AwaitFutureStep ==
  ASSUME IInv, NEW c \in Calls, AwaitFuture(c)
  PROVE  IInv'
<1>1. handler[c] = "none" /\ calm' \in [Calls -> BOOLEAN]
  BY DEF IInv, TypeOK, CallInv, AwaitFuture
<1> QED BY <1>1, AnswerStep DEF AwaitFuture

LEMMA LookupStep ==
  ASSUME IInv, NEW c \in Calls, Lookup(c)
  PROVE  IInv'
<1>1. NoProposal(c) /\ handler[c] = "none" /\ calm' \in [Calls -> BOOLEAN]
  BY DEF IInv, TypeOK, CallInv, Unproposed, Lookup
<1>2. CASE Answer(c, "refused") /\ UNCHANGED target
  BY <1>1, <1>2, AnswerStep DEF Lookup
<1>3. ASSUME NEW a \in LeaderGRPCAddr(origin[c]), a # NoNode, Goto(c, "call"),
             target' = [target EXCEPT ![c] = a]
      PROVE  IInv'
  <2>1. a \in Nodes
    <3>1. believes[origin[c]] \in Nodes \cup {NoNode}
      BY ForwardAssumption DEF IInv, TypeOK
    <3>2. a \in {believes[origin[c]], NoNode}
      BY <1>3 DEF LeaderGRPCAddr
    <3> QED BY <1>3, <3>1, <3>2
  <2> USE <1>3, <2>1 DEF Lookup, Goto, raftVars, serverVars, logVars
  <2>2. TypeOK'
    BY <1>1 DEF IInv, TypeOK
  <2>3. CallInv(c)'
    BY <1>1 DEF IInv, TypeOK, CallInv, Unproposed, NoProposal
  <2>4. \A d \in Calls \ {c} : Same(d)
    BY DEF IInv, TypeOK, Same
  <2> QED BY <2>2, <2>3, <2>4, OneCall
<1> QED BY <1>2, <1>3 DEF Lookup

LEMMA ForwardWithHopsStep ==
  ASSUME IInv, NEW c \in Calls, ForwardWithHops(c)
  PROVE  IInv'
<1>1. /\ TypeOK /\ CallInv(c) /\ NoProposal(c)
      /\ handler[c] \in {"none", "replied"} /\ place[c] = "call"
  BY DEF IInv, CallInv, Unproposed, ForwardWithHops
<1>2. CASE Answer(c, "refused") /\ UNCHANGED <<serverVars, calm>>
  BY <1>1, <1>2, AnswerStep DEF TypeOK, ForwardWithHops
<1>3. CASE Answer(c, "unknown") /\ calm' = [calm EXCEPT ![c] = FALSE] /\ UNCHANGED serverVars
  <2>1. calm' \in [Calls -> BOOLEAN]
    BY <1>1, <1>3 DEF TypeOK
  <2> QED BY <1>1, <1>3, <2>1, AnswerStep DEF ForwardWithHops
<1>4. CASE /\ ~TooManyHops(c) /\ Goto(c, "sent")
           /\ handler' = [handler EXCEPT ![c] = "check"]
           /\ reply' = [reply EXCEPT ![c] = "none"]
           /\ hint' = [hint EXCEPT ![c] = NoNode]
           /\ UNCHANGED calm
  <2>1. hops[c] \in Hops
    BY <1>1, <1>4, ForwardAssumption DEF TypeOK, Hops, TooManyHops
  <2> USE <1>1, <1>4, <2>1 DEF ForwardWithHops, Goto, raftVars, logVars
  <2>2. TypeOK'
    BY DEF TypeOK
  <2>3. CallInv(c)'
    <3>1. /\ place'[c] = "sent" /\ answer'[c] = "none" /\ handler'[c] = "check"
          /\ hops'[c] = hops[c] /\ reply'[c] = "none"
          /\ future'[c] = future[c] /\ entry'[c] = entry[c]
      BY DEF TypeOK, CallInv
    <3> QED BY <3>1 DEF CallInv, Unproposed, NoProposal
  <2>4. \A d \in Calls \ {c} : Same(d)
    BY DEF TypeOK, Same
  <2> QED BY <2>2, <2>3, <2>4, OneCall
<1> QED BY <1>2, <1>3, <1>4 DEF ForwardWithHops

LEMMA ReceiveStep ==
  ASSUME IInv, NEW c \in Calls, Receive(c)
  PROVE  IInv'
<1>1. /\ TypeOK /\ CallInv(c) /\ calm' \in [Calls -> BOOLEAN]
      /\ place[c] = "sent" /\ handler[c] = "replied"
      /\ reply[c] = "success" => future[c] = "ok"
      /\ reply[c] = "redirect" => NoProposal(c)
  BY DEF IInv, TypeOK, CallInv, Unproposed, Receive
<1>2. CASE reply[c] = "success" /\ Answer(c, "ok") /\ UNCHANGED <<target, hops>>
  BY <1>1, <1>2, AnswerStep DEF Receive
<1>3. CASE Answer(c, "unknown") /\ UNCHANGED <<target, hops>>
  BY <1>1, <1>3, AnswerStep DEF Receive
<1>4. CASE reply[c] = "redirect" /\ Answer(c, "refused") /\ UNCHANGED <<target, hops>>
  BY <1>1, <1>4, AnswerStep DEF Receive
<1>5. CASE /\ reply[c] = "redirect" /\ hint[c] # NoNode
           /\ Goto(c, "call")
           /\ target' = [target EXCEPT ![c] = hint[c]]
           /\ hops' = [hops EXCEPT ![c] = @ + 1]
  <2>1. hops[c] + 1 \in 0..maxRedirectHops /\ hint[c] \in Nodes
    BY <1>1, <1>5, ForwardAssumption DEF TypeOK, Hops
  <2> USE <1>1, <1>5, <2>1 DEF Receive, Goto, raftVars, serverVars, logVars
  <2>2. TypeOK'
    BY DEF TypeOK
  <2>3. CallInv(c)'
    <3>1. /\ place'[c] = "call" /\ answer'[c] = "none" /\ handler'[c] = "replied"
          /\ reply'[c] = "redirect"
          /\ future'[c] = future[c] /\ entry'[c] = entry[c]
      BY DEF TypeOK, CallInv
    <3> QED BY <3>1 DEF CallInv, Unproposed, NoProposal
  <2>4. \A d \in Calls \ {c} : Same(d)
    BY DEF TypeOK, Same
  <2> QED BY <2>2, <2>3, <2>4, OneCall
<1> QED BY <1>2, <1>3, <1>4, <1>5 DEF Receive

LEMMA GiveUpStep ==
  ASSUME IInv, NEW c \in Calls, GiveUp(c)
  PROVE  IInv'
<1>1. calm' \in [Calls -> BOOLEAN]
  BY DEF IInv, TypeOK, GiveUp
<1> QED BY <1>1, AnswerStep DEF GiveUp

LEMMA ClientStep ==
  ASSUME IInv, NEW c \in Calls, Client(c)
  PROVE  IInv'
  BY CheckLeaderStep, ApplyLocallyStep, AwaitFutureStep, LookupStep,
     ForwardWithHopsStep, ReceiveStep DEF Client

---------------------------------------------------------------------------
(* ForwardCommand *)

\* A handler that is at work at hop h works for a call that is not refused.
LEMMA HandlerFacts ==
  ASSUME IInv, NEW c \in Calls, handler[c] \in {"check", "lookup", "apply", "waiting"}
  PROVE  /\ TypeOK /\ CallInv(c)
         /\ place[c] \in {"sent", "done"} /\ hops[c] \in Hops
         /\ answer[c] # "refused" /\ target[c] \in Nodes
         /\ handler[c] # "waiting" => NoProposal(c)
  BY DEF IInv, TypeOK, CallInv, Unproposed

\* The handler answers.
LEMMA RespondStep ==
  ASSUME IInv, NEW c \in Calls, handler[c] \in {"check", "lookup", "apply", "waiting"},
         NEW r \in {"success", "failure", "redirect"}, NEW a \in Nodes \cup {NoNode},
         Respond(c, r, a),
         r = "success" => future[c] = "ok",
         r = "redirect" => NoProposal(c),
         UNCHANGED <<raftVars, server, clientVars, logVars>>,
         calm' \in [Calls -> BOOLEAN]
  PROVE  IInv'
<1> USE HandlerFacts DEF Respond, raftVars, clientVars, logVars
<1>1. TypeOK'
  BY DEF TypeOK
<1>2. CallInv(c)'
  <2>1. /\ place'[c] = place[c] /\ answer'[c] = answer[c] /\ handler'[c] = "replied"
        /\ hops'[c] = hops[c] /\ reply'[c] = r
        /\ future'[c] = future[c] /\ entry'[c] = entry[c]
    BY DEF TypeOK
  <2> QED BY <2>1 DEF CallInv, Unproposed, NoProposal
<1>3. \A d \in Calls \ {c} : Same(d)
  BY DEF TypeOK, Same
<1> QED BY <1>1, <1>2, <1>3, OneCall

LEMMA HandleCheckStep ==
  ASSUME IInv, NEW c \in Calls, HandleCheck(c)
  PROVE  IInv'
<1>1. handler[c] = "check"
  BY DEF HandleCheck
<1> USE <1>1, HandlerFacts DEF HandleCheck, HandlerGoto, raftVars, clientVars, logVars
<1>2. TypeOK'
  BY DEF TypeOK
<1>3. CallInv(c)'
  <2>1. /\ place'[c] = place[c] /\ answer'[c] = answer[c]
        /\ handler'[c] \in {"apply", "lookup"}
        /\ hops'[c] = hops[c] /\ reply'[c] = reply[c]
        /\ future'[c] = future[c] /\ entry'[c] = entry[c]
    BY DEF TypeOK
  <2> QED BY <2>1 DEF CallInv, Unproposed, NoProposal
<1>4. \A d \in Calls \ {c} : Same(d)
  BY DEF TypeOK, Same
<1> QED BY <1>2, <1>3, <1>4, OneCall

LEMMA HandleRedirectStep ==
  ASSUME IInv, NEW c \in Calls, HandleRedirect(c)
  PROVE  IInv'
<1>1. handler[c] = "lookup" /\ calm' \in [Calls -> BOOLEAN]
  BY DEF IInv, TypeOK, HandleRedirect
<1>2. PICK a \in LeaderGRPCAddr(target[c]) : Respond(c, "redirect", a)
  BY DEF HandleRedirect
<1>3. a \in Nodes \cup {NoNode}
  BY <1>1, HandlerFacts DEF TypeOK, LeaderGRPCAddr
<1> QED BY <1>1, <1>2, <1>3, HandlerFacts, RespondStep DEF HandleRedirect

LEMMA HandleApplyStep ==
  ASSUME IInv, NEW c \in Calls, HandleApply(c)
  PROVE  IInv'
<1>1. handler[c] = "apply"
  BY DEF HandleApply
<1>2. CASE Respond(c, "failure", NoNode) /\ UNCHANGED <<logVars, calm>>
  BY <1>1, <1>2, RespondStep DEF IInv, TypeOK, HandleApply
<1>3. CASE Propose(target[c], c) /\ HandlerGoto(c, "waiting")
  <2> USE <1>1, HandlerFacts
  <2>1. /\ future' \in [Calls -> {"none", "pending", "ok", "failed"}]
        /\ entry' \in [Calls -> [Hops -> {"none", "pending", "committed", "lost"}]]
        /\ calm' \in [Calls -> BOOLEAN]
        /\ future'[c] \in {"pending", "failed"}
        /\ \A h \in Hops : entry'[c][h] # "none" => h = hops[c]
        /\ \A d \in Calls \ {c} : future'[d] = future[d] /\ entry'[d] = entry[d]
    BY <1>3, ProposeEffect
  <2>2. /\ UNCHANGED <<leads, believes, server, place, target, hops, answer, reply, hint>>
        /\ handler' = [handler EXCEPT ![c] = "waiting"]
    BY <1>3 DEF HandleApply, HandlerGoto, raftVars, clientVars
  <2>3. TypeOK'
    BY <2>1, <2>2 DEF TypeOK
  <2>4. CallInv(c)'
    <3>1. /\ place'[c] = place[c] /\ answer'[c] = answer[c] /\ handler'[c] = "waiting"
          /\ hops'[c] = hops[c] /\ reply'[c] # "success" /\ answer[c] # "ok"
      BY <2>2 DEF TypeOK, CallInv, NoProposal
    <3> QED BY <2>1, <3>1 DEF CallInv, Unproposed
  <2>5. \A d \in Calls \ {c} : Same(d)
    BY <2>1, <2>2 DEF TypeOK, Same
  <2> QED BY <2>3, <2>4, <2>5, OneCall
<1> QED BY <1>2, <1>3 DEF HandleApply

LEMMA HandleFutureStep ==
  ASSUME IInv, NEW c \in Calls, HandleFuture(c)
  PROVE  IInv'
<1>1. handler[c] = "waiting" /\ calm' \in [Calls -> BOOLEAN]
  BY DEF IInv, TypeOK, HandleFuture
<1> QED BY <1>1, RespondStep DEF HandleFuture

LEMMA HandlerStep ==
  ASSUME IInv, NEW c \in Calls, Handler(c)
  PROVE  IInv'
  BY HandleCheckStep, HandleRedirectStep, HandleApplyStep, HandleFutureStep DEF Handler

---------------------------------------------------------------------------
(* Raft and the operators of the nodes *)

\* Futures that fail take nothing from what a call has been told.
LEMMA FutureStep ==
  ASSUME IInv, NEW n \in Nodes, FailFutures(n),
         UNCHANGED <<clientVars, serverVars, entry>>,
         leads' \subseteq Nodes, believes' \in [Nodes -> Nodes \cup {NoNode}],
         server' \in [Nodes -> {"up", "draining", "down"}], Disturbed
  PROVE  IInv'
<1> USE DEF clientVars, serverVars
<1>1. future' \in [Calls -> {"none", "pending", "ok", "failed"}]
  BY DEF IInv, TypeOK, FailFutures
<1>2. TypeOK'
  BY <1>1 DEF IInv, TypeOK, Disturbed
<1>3. ASSUME NEW c \in Calls PROVE CallInv(c)'
  <2>1. \/ future'[c] = future[c]
        \/ future[c] = "pending" /\ future'[c] = "failed"
    BY DEF FailFutures
  <2>2. /\ place'[c] = place[c] /\ answer'[c] = answer[c] /\ handler'[c] = handler[c]
        /\ hops'[c] = hops[c] /\ reply'[c] = reply[c] /\ entry'[c] = entry[c]
    OBVIOUS
  <2> QED BY <2>1, <2>2 DEF IInv, CallInv, Unproposed, NoProposal
<1> QED BY <1>2, <1>3 DEF IInv

\* What only concerns Raft and the servers leaves every call as it is.
LEMMA QuietStep ==
  ASSUME IInv, UNCHANGED <<clientVars, serverVars, logVars>>,
         leads' \subseteq Nodes, believes' \in [Nodes -> Nodes \cup {NoNode}],
         server' \in [Nodes -> {"up", "draining", "down"}],
         calm' \in [Calls -> BOOLEAN]
  PROVE  IInv'
<1> USE DEF clientVars, serverVars, logVars
<1>1. TypeOK'
  BY DEF IInv, TypeOK
<1>2. ASSUME NEW c \in Calls PROVE CallInv(c)'
  BY SameKeepsInv DEF IInv, Same
<1> QED BY <1>1, <1>2 DEF IInv

LEMMA CommitStep ==
  ASSUME IInv, NEW c \in Calls, Commit(c)
  PROVE  IInv'
<1>1. PICK h \in Hops :
         /\ entry[c][h] = "pending"
         /\ entry' = [entry EXCEPT ![c][h] = "committed"]
         /\ future' = IF h = hops[c] /\ future[c] = "pending"
                        THEN [future EXCEPT ![c] = "ok"] ELSE future
  BY DEF Commit
<1>2. UNCHANGED <<leads, believes, server, place, target, hops, answer, handler, reply,
                  hint, calm>>
  BY DEF Commit, raftVars, clientVars, serverVars
<1>3. /\ future' \in [Calls -> {"none", "pending", "ok", "failed"}]
      /\ entry' \in [Calls -> [Hops -> {"none", "pending", "committed", "lost"}]]
  BY <1>1 DEF IInv, TypeOK
<1>4. TypeOK'
  BY <1>2, <1>3 DEF IInv, TypeOK
<1>5. CallInv(c)'
  <2>1. ~Unproposed(c) /\ CallInv(c) /\ h = hops[c]
    BY <1>1 DEF IInv, CallInv, NoProposal
  <2>2. entry'[c] = [entry[c] EXCEPT ![h] = "committed"] /\ future'[c] \in {future[c], "ok"}
    BY <1>1 DEF IInv, TypeOK
  <2>3. entry'[c][h] = "committed" /\ \A k \in Hops \ {h} : entry'[c][k] = entry[c][k]
    BY <2>2 DEF IInv, TypeOK
  <2>4. /\ place'[c] = place[c] /\ answer'[c] = answer[c] /\ handler'[c] = handler[c]
        /\ hops'[c] = hops[c] /\ reply'[c] = reply[c]
    BY <1>2
  <2> QED BY <2>1, <2>2, <2>3, <2>4 DEF CallInv, Unproposed
<1>6. \A d \in Calls \ {c} : Same(d)
  BY <1>1, <1>2 DEF IInv, TypeOK, Same
<1> QED BY <1>4, <1>5, <1>6, OneCall

LEMMA LoseStep ==
  ASSUME IInv, NEW c \in Calls, Lose(c)
  PROVE  IInv'
<1>1. PICK h \in Hops :
         /\ entry[c][h] = "pending"
         /\ entry' = [entry EXCEPT ![c][h] = "lost"]
  BY DEF Lose
<1>2. UNCHANGED <<leads, believes, server, place, target, hops, answer, handler, reply,
                  hint, calm, future>>
  BY DEF Lose, raftVars, clientVars, serverVars
<1>3. entry' \in [Calls -> [Hops -> {"none", "pending", "committed", "lost"}]]
  BY <1>1 DEF IInv, TypeOK
<1>4. TypeOK'
  BY <1>2, <1>3 DEF IInv, TypeOK
<1>5. CallInv(c)'
  <2>1. ~Unproposed(c) /\ CallInv(c) /\ h = hops[c] /\ future[c] = "failed"
    BY <1>1 DEF IInv, CallInv, NoProposal, Lose
  <2>2. \A k \in Hops \ {h} : entry'[c][k] = entry[c][k]
    BY <1>1 DEF IInv, TypeOK
  <2>3. /\ place'[c] = place[c] /\ answer'[c] = answer[c] /\ handler'[c] = handler[c]
        /\ hops'[c] = hops[c] /\ reply'[c] = reply[c] /\ future'[c] = future[c]
    BY <1>2
  <2> QED BY <2>1, <2>2, <2>3 DEF CallInv, Unproposed
<1>6. \A d \in Calls \ {c} : Same(d)
  BY <1>1, <1>2 DEF IInv, TypeOK, Same
<1> QED BY <1>4, <1>5, <1>6, OneCall

LEMMA EnvironmentStep ==
  ASSUME IInv, Environment
  PROVE  IInv'
<1>1. CASE \E c \in Calls : Commit(c) \/ Lose(c)
  BY <1>1, CommitStep, LoseStep
<1>2. ASSUME NEW n \in Nodes, BecomeLeader(n) \/ Learn(n) \/ StopServer(n) PROVE IInv'
  <2> USE DEF IInv, TypeOK, raftVars
  <2>1. /\ leads' \subseteq Nodes
        /\ believes' \in [Nodes -> Nodes \cup {NoNode}]
        /\ server' \in [Nodes -> {"up", "draining", "down"}]
    <3>1. CASE BecomeLeader(n)
      BY <3>1 DEF BecomeLeader
    <3>2. CASE Learn(n)
      BY <3>2 DEF Learn
    <3>3. CASE StopServer(n)
      BY <3>3 DEF StopServer
    <3> QED BY <1>2, <3>1, <3>2, <3>3
  <2>2. calm' \in [Calls -> BOOLEAN] /\ UNCHANGED <<clientVars, serverVars, logVars>>
    <3>1. Disturbed /\ UNCHANGED <<clientVars, serverVars, logVars>>
      BY <1>2 DEF BecomeLeader, Learn, StopServer
    <3> QED BY <3>1 DEF Disturbed
  <2> QED BY <2>1, <2>2, QuietStep
<1>3. ASSUME NEW n \in Nodes, StepDown(n) \/ ShutdownNode(n) PROVE IInv'
  <2>1. /\ leads' \subseteq Nodes
        /\ believes' \in [Nodes -> Nodes \cup {NoNode}]
        /\ server' \in [Nodes -> {"up", "draining", "down"}]
    BY <1>3 DEF IInv, TypeOK, StepDown, ShutdownNode
  <2>2. FailFutures(n) /\ Disturbed /\ UNCHANGED <<clientVars, serverVars, entry>>
    BY <1>3 DEF StepDown, ShutdownNode
  <2> QED BY <2>1, <2>2, FutureStep
<1> QED BY <1>1, <1>2, <1>3 DEF Environment

LEMMA StepIInv == IInv /\ [Next]_vars => IInv'
<1> SUFFICES ASSUME IInv, [Next]_vars PROVE IInv'
  OBVIOUS
<1>1. CASE UNCHANGED vars
  BY <1>1, QuietStep DEF IInv, TypeOK, vars, raftVars
<1>2. ASSUME NEW c \in Calls, Call(c) \/ Client(c) \/ Handler(c) \/ GiveUp(c) PROVE IInv'
  BY <1>2, CallStep, ClientStep, HandlerStep, GiveUpStep
<1>3. CASE Environment
  BY <1>3, EnvironmentStep
<1> QED BY <1>1, <1>2, <1>3 DEF Next

LEMMA Invariance == Spec => []IInv
  BY InitIInv, StepIInv, PTL DEF Spec

\* Types hold for any number of calls, nodes and elections, and no call in progress
\* is beyond the hop limit of forwardWithHops (forward.go:41) or without a target.
THEOREM TypeCorrect == Spec => []TypeOK
<1>1. IInv => TypeOK
  BY DEF IInv
<1> QED BY <1>1, Invariance, PTL

---------------------------------------------------------------------------
(* Apply implements CommandService *)

\* The abstract specification's count of executions.
Times == [c \in Calls |-> Executions(c)]

LEMMA NeverExecuted ==
  ASSUME NEW c \in Calls, \A h \in Hops : entry[c][h] # "committed"
  PROVE  Times[c] = 0
<1>1. {h \in Hops : entry[c][h] = "committed"} = {}
  OBVIOUS
<1> QED BY <1>1, FS_EmptySet DEF Times, Executions

LEMMA ExecutedOnce ==
  ASSUME NEW c \in Calls, CallInv(c), NEW h \in Hops, entry[c][h] = "committed"
  PROVE  Times[c] = 1
<1>1. {k \in Hops : entry[c][k] = "committed"} = {h}
  BY DEF CallInv
<1> QED BY <1>1, FS_Singleton DEF Times, Executions

LEMMA SameExecutions ==
  ASSUME \A d \in Calls : \A h \in Hops :
            (entry'[d][h] = "committed") <=> (entry[d][h] = "committed")
  PROVE  Times' = Times
<1>1. ASSUME NEW d \in Calls PROVE Executions(d)' = Executions(d)
  <2>1. {h \in Hops : entry'[d][h] = "committed"} = {h \in Hops : entry[d][h] = "committed"}
    OBVIOUS
  <2> QED BY <2>1 DEF Executions
<1> QED BY <1>1 DEF Times

\* The step is invisible to the caller and to the state machine.
LEMMA Stutters ==
  ASSUME UNCHANGED answer,
         \A d \in Calls : \A h \in Hops :
            (entry'[d][h] = "committed") <=> (entry[d][h] = "committed")
  PROVE  UNCHANGED <<Times, answer>>
  BY SameExecutions

LEMMA AnswerRefines ==
  ASSUME IInv, NEW c \in Calls, NEW a \in {"ok", "refused", "unknown"}, Answer(c, a),
         place[c] # "done",
         a = "ok" => future[c] = "ok",
         a = "refused" => NoProposal(c),
         UNCHANGED logVars
  PROVE  Service!Next
<1>1. answer[c] = "none" /\ CallInv(c)
  BY DEF IInv, CallInv
<1>2. UNCHANGED Times
  BY SameExecutions DEF logVars
<1>3. a = "ok" => Times[c] = 1
  BY <1>1, ExecutedOnce DEF CallInv
<1>4. a = "refused" => Times[c] = 0
  BY NeverExecuted DEF NoProposal
<1>5. Service!Return(c, a)
  BY <1>1, <1>2, <1>3, <1>4 DEF Service!Return, Times, Answer
<1> QED BY <1>5 DEF Service!Next

LEMMA CommitRefines ==
  ASSUME IInv, NEW c \in Calls, Commit(c)
  PROVE  Service!Next
<1>1. PICK h \in Hops :
         entry[c][h] = "pending" /\ entry' = [entry EXCEPT ![c][h] = "committed"]
  BY DEF Commit
<1>2. CallInv(c) /\ h = hops[c] /\ answer[c] # "refused"
  BY <1>1 DEF IInv, CallInv, Unproposed, NoProposal
<1>3. Times[c] = 0
  <2>1. ASSUME NEW k \in Hops PROVE entry[c][k] # "committed"
    BY <1>1, <1>2 DEF CallInv
  <2> QED BY <2>1, NeverExecuted
<1>4. Times'[c] = 1
  <2>1. entry'[c] = [entry[c] EXCEPT ![h] = "committed"]
    BY <1>1 DEF IInv, TypeOK
  <2>2. entry'[c][h] = "committed" /\ \A k \in Hops \ {h} : entry'[c][k] = entry[c][k]
    BY <2>1 DEF IInv, TypeOK
  <2>3. ASSUME NEW k \in Hops \ {h} PROVE entry'[c][k] # "committed"
    BY <1>2, <2>2 DEF CallInv
  <2>4. {k \in Hops : entry'[c][k] = "committed"} = {h}
    BY <2>2, <2>3
  <2> QED BY <2>4, FS_Singleton DEF Times, Executions
<1>5. ASSUME NEW d \in Calls \ {c} PROVE Times'[d] = Times[d]
  <2>1. entry'[d] = entry[d]
    BY <1>1 DEF IInv, TypeOK
  <2> QED BY <2>1 DEF Times, Executions
<1>6. Times' = [Times EXCEPT ![c] = 1]
  BY <1>4, <1>5 DEF Times
<1>7. UNCHANGED answer
  BY DEF Commit, clientVars
<1>8. Service!Execute(c)
  BY <1>2, <1>3, <1>6, <1>7 DEF Service!Execute, Times
<1> QED BY <1>8 DEF Service!Next

\* Proposing a command, or losing an entry, executes nothing.
LEMMA NothingExecuted ==
  ASSUME TypeOK, NEW c \in Calls, UNCHANGED answer,
         \/ UNCHANGED entry
         \/ /\ hops[c] \in Hops /\ NoProposal(c)
            /\ entry' = [entry EXCEPT ![c][hops[c]] = "pending"]
         \/ \E h \in Hops : /\ entry[c][h] = "pending"
                             /\ entry' = [entry EXCEPT ![c][h] = "lost"]
  PROVE  UNCHANGED <<Times, answer>>
<1>1. CASE UNCHANGED entry
  BY <1>1, Stutters
<1>2. ASSUME NEW h \in Hops, NEW v \in {"pending", "lost"},
             entry[c][h] # "committed", entry' = [entry EXCEPT ![c][h] = v]
      PROVE  UNCHANGED <<Times, answer>>
  <2>1. ASSUME NEW d \in Calls, NEW k \in Hops
        PROVE  (entry'[d][k] = "committed") <=> (entry[d][k] = "committed")
    <3>1. CASE d = c /\ k = h
      BY <1>2, <3>1 DEF TypeOK
    <3>2. CASE d # c \/ k # h
      BY <1>2, <3>2 DEF TypeOK
    <3> QED BY <3>1, <3>2
  <2> QED BY <2>1, Stutters
<1> QED BY <1>1, <1>2 DEF NoProposal

LEMMA ClientRefines ==
  ASSUME IInv, NEW c \in Calls, Call(c) \/ Client(c) \/ GiveUp(c)
  PROVE  [Service!Next]_<<Times, answer>>
<1>1. CASE Call(c) \/ CheckLeader(c)
  BY <1>1, NothingExecuted DEF IInv, Call, CheckLeader, Goto, logVars
<1>2. CASE ApplyLocally(c)
  <2>1. NoProposal(c) /\ hops[c] \in Hops /\ place[c] = "apply" /\ TypeOK
    BY <1>2, HopsFacts DEF IInv, CallInv, Unproposed, ApplyLocally
  <2>2. CASE Answer(c, "refused") /\ UNCHANGED <<logVars, calm>>
    BY <2>1, <2>2, AnswerRefines
  <2>3. CASE Propose(origin[c], c) /\ Goto(c, "waiting")
    BY <2>1, <2>3, NothingExecuted DEF Propose, Goto
  <2> QED BY <1>2, <2>2, <2>3 DEF ApplyLocally
<1>3. CASE AwaitFuture(c)
  BY <1>3, AnswerRefines DEF AwaitFuture
<1>4. CASE Lookup(c)
  <2>1. NoProposal(c) /\ place[c] = "lookup" /\ TypeOK /\ UNCHANGED logVars
    BY <1>4 DEF IInv, CallInv, Unproposed, Lookup
  <2>2. CASE Answer(c, "refused")
    BY <2>1, <2>2, AnswerRefines
  <2>3. CASE Goto(c, "call")
    BY <2>1, <2>3, NothingExecuted DEF Goto, logVars
  <2> QED BY <1>4, <2>2, <2>3 DEF Lookup
<1>5. CASE ForwardWithHops(c)
  <2>1. NoProposal(c) /\ place[c] = "call" /\ TypeOK /\ UNCHANGED logVars
    BY <1>5 DEF IInv, CallInv, Unproposed, ForwardWithHops
  <2>2. CASE Answer(c, "refused") \/ Answer(c, "unknown")
    BY <2>1, <2>2, AnswerRefines
  <2>3. CASE Goto(c, "sent")
    BY <2>1, <2>3, NothingExecuted DEF Goto, logVars
  <2> QED BY <1>5, <2>2, <2>3 DEF ForwardWithHops
<1>6. CASE Receive(c)
  <2>1. /\ place[c] = "sent" /\ TypeOK /\ UNCHANGED logVars
        /\ reply[c] = "success" => future[c] = "ok"
        /\ reply[c] = "redirect" => NoProposal(c)
    BY <1>6 DEF IInv, CallInv, Unproposed, Receive
  <2>2. CASE reply[c] = "success" /\ Answer(c, "ok")
    BY <2>1, <2>2, AnswerRefines
  <2>3. CASE reply[c] = "redirect" /\ Answer(c, "refused")
    BY <2>1, <2>3, AnswerRefines
  <2>4. CASE Answer(c, "unknown")
    BY <2>1, <2>4, AnswerRefines
  <2>5. CASE Goto(c, "call")
    BY <2>1, <2>5, NothingExecuted DEF Goto, logVars
  <2> QED BY <1>6, <2>2, <2>3, <2>4, <2>5 DEF Receive
<1>7. CASE GiveUp(c)
  BY <1>7, AnswerRefines DEF GiveUp
<1> QED BY <1>1, <1>2, <1>3, <1>4, <1>5, <1>6, <1>7 DEF Client

LEMMA HandlerRefines ==
  ASSUME IInv, NEW c \in Calls, Handler(c)
  PROVE  UNCHANGED <<Times, answer>>
<1>1. CASE HandleApply(c)
  <2>1. handler[c] = "apply" /\ UNCHANGED answer
    BY <1>1 DEF HandleApply, clientVars
  <2>2. TypeOK /\ NoProposal(c) /\ hops[c] \in Hops
    BY <2>1, HandlerFacts
  <2>3. CASE UNCHANGED logVars
    BY <2>1, <2>2, <2>3, NothingExecuted DEF logVars
  <2>4. CASE Propose(target[c], c)
    BY <2>1, <2>2, <2>4, NothingExecuted DEF Propose
  <2> QED BY <1>1, <2>3, <2>4 DEF HandleApply
<1>2. CASE HandleCheck(c) \/ HandleRedirect(c) \/ HandleFuture(c)
  BY <1>2, NothingExecuted
     DEF IInv, HandleCheck, HandleRedirect, HandleFuture, clientVars, logVars
<1> QED BY <1>1, <1>2 DEF Handler

LEMMA EnvironmentRefines ==
  ASSUME IInv, Environment
  PROVE  [Service!Next]_<<Times, answer>>
<1>1. ASSUME NEW c \in Calls, Lose(c) PROVE UNCHANGED <<Times, answer>>
  BY <1>1, NothingExecuted DEF IInv, Lose, clientVars
<1>2. ASSUME NEW n \in Nodes, \/ BecomeLeader(n) \/ StepDown(n) \/ Learn(n)
                             \/ StopServer(n) \/ ShutdownNode(n)
      PROVE  UNCHANGED <<Times, answer>>
  <2>1. UNCHANGED <<answer, entry>>
    BY <1>2 DEF BecomeLeader, StepDown, Learn, StopServer, ShutdownNode, clientVars, logVars
  <2> QED BY <2>1, Stutters
<1> QED BY <1>1, <1>2, CommitRefines DEF Environment

LEMMA StepRefines == IInv /\ [Next]_vars => [Service!Next]_<<Times, answer>>
<1> SUFFICES ASSUME IInv, [Next]_vars PROVE [Service!Next]_<<Times, answer>>
  OBVIOUS
<1>1. CASE UNCHANGED vars
  BY <1>1, Stutters DEF vars, clientVars, logVars
<1>2. ASSUME NEW c \in Calls, Call(c) \/ Client(c) \/ Handler(c) \/ GiveUp(c)
      PROVE  [Service!Next]_<<Times, answer>>
  BY <1>2, ClientRefines, HandlerRefines
<1>3. CASE Environment
  BY <1>3, EnvironmentRefines
<1> QED BY <1>1, <1>2, <1>3 DEF Next

LEMMA InitRefines == Init => Service!Init
<1> SUFFICES ASSUME Init PROVE Service!Init
  OBVIOUS
<1>1. ASSUME NEW c \in Calls PROVE Times[c] = 0
  BY NeverExecuted DEF Init
<1> QED BY <1>1 DEF Init, Service!Init, Times

\* Node.Apply (node.go:151) keeps the promise of CommandService for every number of
\* nodes, calls, redirects, elections and stopped nodes: at most one execution, and
\* no success or definite refusal that is not true.
THEOREM ForwardImplementsService == Spec => ImplementsService
<1>1. Init => Service!Init
  BY InitRefines
<1>2. IInv /\ [Next]_vars => [Service!Next]_<<Times, answer>>
  BY StepRefines
<1> QED BY <1>1, <1>2, Invariance, PTL DEF Spec, ImplementsService, Service!Spec, Times

---------------------------------------------------------------------------
(* A calm call succeeds *)

\* The leader of a settled cluster, and who can be reached.
LEMMA SettledFacts ==
  ASSUME IInv, SelfBelief, NEW n \in Nodes, Settled(n)
  PROVE  \E l \in Nodes :
           /\ leads = {l} /\ l \in Listed /\ server[l] = "up"
           /\ \A m \in Nodes \ {n} : believes[m] = l
           /\ n \notin leads => /\ believes[n] \in Nodes \cap Listed
                                /\ believes[n] # n /\ server[believes[n]] = "up"
  BY ForwardAssumption DEF Settled, SelfBelief

\* Nothing that Undisturbed speaks of changes for d.
StillSame(d) ==
    /\ Same(d) /\ target'[d] = target[d] /\ hint'[d] = hint[d]
    /\ calm'[d] = calm[d]

LEMMA StillUndisturbed ==
  ASSUME NEW d \in Calls, Undisturbed(d), StillSame(d), UNCHANGED <<raftVars, server>>
  PROVE  Undisturbed(d)'
  BY DEF Undisturbed, OnTrack, Settled, StillSame, Same, raftVars

LEMMA CalmOneCall ==
  ASSUME CalmInv, UNCHANGED <<raftVars, server>>, NEW c \in Calls,
         \A d \in Calls \ {c} : StillSame(d),
         calm'[c] => Undisturbed(c)'
  PROVE  CalmInv'
<1>1. SelfBelief'
  BY DEF CalmInv, SelfBelief, raftVars
<1>2. ASSUME NEW d \in Calls \ {c}, calm'[d] PROVE Undisturbed(d)'
  BY <1>2, StillUndisturbed DEF CalmInv, StillSame
<1> QED BY <1>1, <1>2 DEF CalmInv

\* The steps of Apply and of its handler leave the other calls alone.
LEMMA OthersStillSame ==
  ASSUME IInv, NEW c \in Calls,
         Call(c) \/ Client(c) \/ Handler(c) \/ GiveUp(c) \/ Commit(c) \/ Lose(c)
  PROVE  UNCHANGED <<raftVars, server>> /\ \A d \in Calls \ {c} : StillSame(d)
<1> USE DEF IInv, TypeOK, StillSame, Same, clientVars, serverVars, logVars, Goto, Answer,
            HandlerGoto, Respond
<1>1. CASE Call(c)
  BY <1>1 DEF Call
<1>2. CASE CheckLeader(c)
  BY <1>2 DEF CheckLeader
<1>3. CASE ApplyLocally(c)
  BY <1>3 DEF ApplyLocally, Propose
<1>4. CASE AwaitFuture(c)
  BY <1>4 DEF AwaitFuture
<1>5. CASE Lookup(c)
  BY <1>5 DEF Lookup
<1>6. CASE ForwardWithHops(c)
  BY <1>6 DEF ForwardWithHops
<1>7. CASE Receive(c)
  BY <1>7 DEF Receive
<1>8. CASE GiveUp(c)
  BY <1>8 DEF GiveUp
<1>9. CASE HandleCheck(c)
  BY <1>9 DEF HandleCheck
<1>10. CASE HandleRedirect(c)
  BY <1>10 DEF HandleRedirect
<1>11. CASE HandleApply(c)
  BY <1>11 DEF HandleApply, Propose
<1>12. CASE HandleFuture(c)
  BY <1>12 DEF HandleFuture
<1>13. CASE Commit(c)
  BY <1>13 DEF Commit
<1>14. CASE Lose(c)
  BY <1>14 DEF Lose
<1> QED BY <1>1, <1>2, <1>3, <1>4, <1>5, <1>6, <1>7, <1>8, <1>9, <1>10, <1>11, <1>12,
           <1>13, <1>14 DEF Client, Handler

\* Where the first request for a calm call may be sent, and the second.
LEMMA OnTrackFacts ==
  ASSUME IInv, SelfBelief, NEW c \in Calls, Settled(origin[c]), OnTrack(c),
         target[c] \in Nodes
  PROVE  /\ server[target[c]] = "up" /\ hops[c] \in {0, 1}
         /\ target[c] \notin leads =>
               hops[c] = 0 /\ \A a \in LeaderGRPCAddr(target[c]) : a \in leads
<1>1. origin[c] \in Nodes
  BY ForwardAssumption
<1>2. PICK l \in Nodes :
           /\ leads = {l} /\ l \in Listed /\ server[l] = "up"
           /\ \A m \in Nodes \ {origin[c]} : believes[m] = l
           /\ origin[c] \notin leads =>
                 /\ believes[origin[c]] \in Nodes \cap Listed
                 /\ believes[origin[c]] # origin[c]
                 /\ server[believes[origin[c]]] = "up"
  BY <1>1, SettledFacts
<1>3. server[target[c]] = "up" /\ hops[c] \in {0, 1}
  BY <1>2 DEF OnTrack
<1>4. ASSUME target[c] \notin leads
      PROVE  hops[c] = 0 /\ \A a \in LeaderGRPCAddr(target[c]) : a \in leads
  <2>1. hops[c] = 0 /\ target[c] # origin[c]
    BY <1>2, <1>4 DEF OnTrack
  <2>2. believes[target[c]] = l
    BY <1>2, <2>1
  <2> QED BY <1>2, <2>1, <2>2 DEF LeaderGRPCAddr
<1> QED BY <1>3, <1>4

LEMMA CalmClient ==
  ASSUME maxRedirectHops > 1, IInv, CalmInv, NEW c \in Calls, Client(c), calm'[c]
  PROVE  Undisturbed(c)'
<1>1. /\ UNCHANGED <<leads, believes, server>> /\ TypeOK /\ CallInv(c) /\ SelfBelief
      /\ origin[c] \in Nodes
  BY OthersStillSame, ForwardAssumption DEF raftVars, IInv, CalmInv
<1>2. calm[c]
  BY <1>1 DEF Client, CheckLeader, ApplyLocally, Propose, AwaitFuture, Lookup,
              ForwardWithHops, Receive, TypeOK
<1>3. Undisturbed(c) /\ Settled(origin[c]) /\ Settled(origin[c])'
  BY <1>1, <1>2 DEF CalmInv, Undisturbed, Settled
<1>4. PICK l \in Nodes :
           /\ leads = {l} /\ l \in Listed /\ server[l] = "up"
           /\ \A m \in Nodes \ {origin[c]} : believes[m] = l
           /\ origin[c] \notin leads =>
                 /\ believes[origin[c]] \in Nodes \cap Listed
                 /\ believes[origin[c]] # origin[c]
                 /\ server[believes[origin[c]]] = "up"
  BY <1>1, <1>3, SettledFacts
<1>5. CASE CheckLeader(c)
  <2>1. /\ place'[c] = IF origin[c] \in leads THEN "apply" ELSE "lookup"
        /\ answer'[c] = "none"
    BY <1>1, <1>5 DEF CheckLeader, Goto, IsLeader, TypeOK, CallInv
  <2> QED BY <1>1, <1>3, <2>1 DEF Undisturbed
<1>6. CASE ApplyLocally(c)
  <2>1. origin[c] \in leads /\ server[origin[c]] = "up"
    BY <1>3, <1>4, <1>6 DEF Undisturbed, ApplyLocally
  <2>2. Propose(origin[c], c) /\ Goto(c, "waiting") /\ place[c] = "apply"
    BY <1>6, <2>1 DEF ApplyLocally
  <2>3. future'[c] = "pending" /\ place'[c] = "waiting" /\ answer'[c] = "none"
    BY <1>1, <2>2 DEF Propose, Goto, TypeOK, CallInv
  <2> QED BY <1>3, <2>3 DEF Undisturbed
<1>7. CASE AwaitFuture(c)
  <2>1. place'[c] = "done" /\ answer'[c] = "ok"
    BY <1>1, <1>3, <1>7 DEF AwaitFuture, Answer, Undisturbed, TypeOK
  <2> QED BY <1>3, <2>1 DEF Undisturbed
<1>8. CASE Lookup(c)
  <2>1. origin[c] \notin leads /\ hops[c] = 0 /\ place[c] = "lookup"
    BY <1>1, <1>3, <1>8 DEF Undisturbed, Lookup, CallInv
  <2>2. LeaderGRPCAddr(origin[c]) = {believes[origin[c]]} /\ believes[origin[c]] # NoNode
    BY <1>4, <2>1, ForwardAssumption DEF LeaderGRPCAddr
  <2>3. Goto(c, "call") /\ target' = [target EXCEPT ![c] = believes[origin[c]]]
        /\ UNCHANGED hops
    BY <1>8, <2>2 DEF Lookup
  <2>4. /\ place'[c] = "call" /\ answer'[c] = "none" /\ hops'[c] = 0
        /\ target'[c] = believes[origin[c]]
    BY <1>1, <2>1, <2>3 DEF Goto, TypeOK, CallInv
  <2>5. OnTrack(c)'
    BY <1>1, <2>1, <2>4 DEF OnTrack
  <2> QED BY <1>3, <2>4, <2>5 DEF Undisturbed
<1>9. CASE ForwardWithHops(c)
  <2>1. place[c] = "call" /\ OnTrack(c) /\ target[c] \in Nodes
    BY <1>1, <1>3, <1>9 DEF ForwardWithHops, Undisturbed, TypeOK
  <2>2. hops[c] \in {0, 1}
    BY <1>1, <1>3, <2>1, OnTrackFacts
  <2>3. ~TooManyHops(c)
    BY <2>2, ForwardAssumption DEF TooManyHops
  <2>4. /\ Goto(c, "sent") /\ handler' = [handler EXCEPT ![c] = "check"]
        /\ UNCHANGED <<target, hops>>
    BY <1>1, <1>9, <2>3 DEF ForwardWithHops, TypeOK
  <2>5. /\ place'[c] = "sent" /\ answer'[c] = "none" /\ handler'[c] = "check"
        /\ target'[c] = target[c] /\ hops'[c] = hops[c]
    BY <1>1, <2>1, <2>4 DEF Goto, TypeOK, CallInv
  <2>6. OnTrack(c)'
    BY <1>1, <2>1, <2>5 DEF OnTrack
  <2> QED BY <1>3, <2>5, <2>6 DEF Undisturbed
<1>10. CASE Receive(c)
  <2>1. /\ place[c] = "sent" /\ handler[c] = "replied"
        /\ \/ reply[c] = "success"
           \/ reply[c] = "redirect" /\ hint[c] \in leads /\ hops[c] = 0
    BY <1>3, <1>10 DEF Receive, Undisturbed
  <2>2. CASE reply[c] = "success"
    <3>1. place'[c] = "done" /\ answer'[c] = "ok"
      BY <1>1, <1>10, <2>2 DEF Receive, Answer, TypeOK
    <3> QED BY <1>3, <3>1 DEF Undisturbed
  <2>3. CASE reply[c] = "redirect" /\ hint[c] \in leads /\ hops[c] = 0
    <3>1. hint[c] # NoNode
      BY <1>1, <2>3, ForwardAssumption DEF TypeOK
    <3>2. /\ Goto(c, "call") /\ target' = [target EXCEPT ![c] = hint[c]]
          /\ hops' = [hops EXCEPT ![c] = @ + 1]
      BY <1>10, <2>3, <3>1 DEF Receive
    <3>3. /\ place'[c] = "call" /\ answer'[c] = "none" /\ target'[c] = hint[c]
          /\ hops'[c] = 1
      BY <1>1, <2>1, <2>3, <3>2 DEF Goto, TypeOK, CallInv
    <3>4. OnTrack(c)'
      BY <1>1, <2>3, <3>3 DEF OnTrack
    <3> QED BY <1>3, <3>3, <3>4 DEF Undisturbed
  <2> QED BY <2>1, <2>2, <2>3
<1> QED BY <1>5, <1>6, <1>7, <1>8, <1>9, <1>10 DEF Client

LEMMA CalmHandler ==
  ASSUME IInv, CalmInv, NEW c \in Calls, Handler(c), calm'[c]
  PROVE  Undisturbed(c)'
<1>1. /\ UNCHANGED <<leads, believes, server>> /\ TypeOK /\ SelfBelief
      /\ UNCHANGED clientVars
  BY OthersStillSame
     DEF raftVars, IInv, CalmInv, Handler, HandleCheck, HandleRedirect, HandleApply,
         HandleFuture
<1>2. calm[c]
  BY <1>1 DEF Handler, HandleCheck, HandleRedirect, HandleApply, HandleFuture, Propose, TypeOK
<1>3. Undisturbed(c) /\ Settled(origin[c]) /\ Settled(origin[c])'
  BY <1>1, <1>2 DEF CalmInv, Undisturbed, Settled
<1>4. /\ place'[c] = place[c] /\ answer'[c] = answer[c] /\ target'[c] = target[c]
      /\ hops'[c] = hops[c]
  BY <1>1 DEF clientVars
<1>5. place[c] \in {"sent", "done"}
  BY HandlerFacts DEF Handler, HandleCheck, HandleRedirect, HandleApply, HandleFuture
<1>6. CASE place[c] = "done"
  BY <1>3, <1>4, <1>6 DEF Undisturbed
<1>7. CASE place[c] = "sent"
  <2>1. OnTrack(c) /\ OnTrack(c)' /\ target[c] \in Nodes /\ c \in DOMAIN handler
    BY <1>1, <1>3, <1>4, <1>7 DEF Undisturbed, OnTrack, TypeOK
  <2>2. /\ server[target[c]] = "up"
        /\ target[c] \notin leads =>
              hops[c] = 0 /\ \A a \in LeaderGRPCAddr(target[c]) : a \in leads
    BY <1>1, <1>3, <2>1, OnTrackFacts
  <2> USE <1>1, <1>3, <1>4, <1>7, <2>1 DEF Undisturbed
  <2>3. CASE HandleCheck(c)
    <3>1. handler'[c] = IF target[c] \in leads THEN "apply" ELSE "lookup"
      BY <2>3 DEF HandleCheck, HandlerGoto, IsLeader, TypeOK
    <3> QED BY <2>2, <3>1
  <2>4. CASE HandleRedirect(c)
    <3>1. handler[c] = "lookup" /\ hops[c] = 0 /\ target[c] \notin leads
      BY <2>4 DEF HandleRedirect
    <3>2. PICK a \in LeaderGRPCAddr(target[c]) : Respond(c, "redirect", a)
      BY <2>4 DEF HandleRedirect
    <3>3. handler'[c] = "replied" /\ reply'[c] = "redirect" /\ hint'[c] \in leads
      BY <2>2, <3>1, <3>2 DEF Respond, TypeOK
    <3> QED BY <3>1, <3>3
  <2>5. CASE HandleApply(c)
    <3>1. target[c] \in leads /\ Propose(target[c], c) /\ HandlerGoto(c, "waiting")
      BY <2>2, <2>5 DEF HandleApply
    <3>2. future'[c] = "pending" /\ handler'[c] = "waiting"
      BY <3>1 DEF Propose, HandlerGoto, TypeOK
    <3> QED BY <3>2
  <2>6. CASE HandleFuture(c)
    <3>1. future[c] = "ok" /\ Respond(c, "success", NoNode)
      BY <2>6 DEF HandleFuture, TypeOK
    <3>2. handler'[c] = "replied" /\ reply'[c] = "success"
      BY <3>1 DEF Respond, TypeOK
    <3> QED BY <3>2
  <2> QED BY <2>3, <2>4, <2>5, <2>6 DEF Handler
<1> QED BY <1>5, <1>6, <1>7

\* Raft can only bring a pending future of a calm call to a good end.
LEMMA CalmRaft ==
  ASSUME IInv, CalmInv, NEW c \in Calls, Commit(c) \/ Lose(c), calm'[c]
  PROVE  Undisturbed(c)'
<1>1. UNCHANGED <<leads, believes, server, place, target, hops, answer, handler, reply,
                  hint, calm>>
  BY DEF Commit, Lose, raftVars, clientVars, serverVars
<1>2. future'[c] = future[c] \/ future'[c] = "ok"
  BY DEF IInv, TypeOK, Commit, Lose
<1>3. Undisturbed(c) /\ Settled(origin[c])'
  BY <1>1 DEF CalmInv, Undisturbed, Settled
<1>4. OnTrack(c) => OnTrack(c)'
  BY <1>1 DEF OnTrack
<1> QED BY <1>1, <1>2, <1>3, <1>4 DEF Undisturbed

\* Every other step of the environment disturbs all calls.
LEMMA CalmDisturbed ==
  ASSUME IInv, CalmInv, NEW n \in Nodes,
         BecomeLeader(n) \/ StepDown(n) \/ Learn(n) \/ StopServer(n) \/ ShutdownNode(n)
  PROVE  CalmInv'
<1>1. SelfBelief'
  <2> USE ForwardAssumption DEF CalmInv, SelfBelief, IInv, TypeOK, raftVars
  <2>1. CASE BecomeLeader(n)
    BY <2>1 DEF BecomeLeader
  <2>2. CASE StepDown(n)
    BY <2>2 DEF StepDown
  <2>3. CASE Learn(n)
    BY <2>3 DEF Learn
  <2>4. CASE StopServer(n)
    BY <2>4 DEF StopServer
  <2>5. CASE ShutdownNode(n)
    BY <2>5 DEF ShutdownNode
  <2> QED BY <2>1, <2>2, <2>3, <2>4, <2>5
<1>2. Disturbed
  BY DEF BecomeLeader, StepDown, Learn, StopServer, ShutdownNode
<1>3. \A c \in Calls : ~calm'[c]
  BY <1>2 DEF Disturbed
<1> QED BY <1>1, <1>3 DEF CalmInv

LEMMA StepCalm ==
  ASSUME maxRedirectHops > 1, IInv, CalmInv, [Next]_vars
  PROVE  CalmInv'
<1>1. CASE UNCHANGED vars
  BY <1>1 DEF vars, raftVars, clientVars, serverVars, logVars, CalmInv, SelfBelief,
              Undisturbed, OnTrack, Settled
<1>2. ASSUME NEW c \in Calls,
             Call(c) \/ Client(c) \/ Handler(c) \/ GiveUp(c) \/ Commit(c) \/ Lose(c)
      PROVE  CalmInv'
  <2>1. UNCHANGED <<raftVars, server>> /\ \A d \in Calls \ {c} : StillSame(d)
    BY <1>2, OthersStillSame
  <2>2. ASSUME Call(c), calm'[c] PROVE Undisturbed(c)'
    <3>1. place'[c] = "check" /\ answer'[c] = "none" /\ Settled(origin[c])
      BY <2>2 DEF Call, Goto, IInv, TypeOK, CallInv
    <3>2. Settled(origin[c])'
      BY <2>1, <3>1 DEF Settled, raftVars
    <3> QED BY <3>1, <3>2 DEF Undisturbed
  <2>3. ASSUME GiveUp(c) PROVE ~calm'[c]
    BY <2>3 DEF GiveUp, IInv, TypeOK
  <2>4. calm'[c] => Undisturbed(c)'
    BY <1>2, <2>2, <2>3, CalmClient, CalmHandler, CalmRaft
  <2> QED BY <2>1, <2>4, CalmOneCall
<1> QED BY <1>1, <1>2, CalmDisturbed DEF Next, Environment

\* Whatever the numbers of nodes and calls, one redirect is enough for a call made
\* while one reachable node leads: with a limit of at least two (forward.go:15) it
\* succeeds, even if its node names a former leader.
THEOREM CalmCallsSucceed ==
  ASSUME maxRedirectHops > 1
  PROVE  Spec => []CalmCallSucceeds
<1>1. Init => CalmInv
  BY ForwardAssumption DEF Init, CalmInv, SelfBelief
<1>2. IInv /\ CalmInv /\ [Next]_vars => CalmInv'
  BY StepCalm
<1>3. IInv /\ CalmInv => CalmCallSucceeds
  BY DEF CalmInv, Undisturbed, CalmCallSucceeds
<1> QED BY <1>1, <1>2, <1>3, Invariance, PTL DEF Spec
===========================================================================
