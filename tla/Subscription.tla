--------------------------- MODULE Subscription ---------------------------
(***************************************************************************)
(* State changes of one Bootstrapper as an application sees them           *)
(* (bootstrapper.go: transitionTo, broadcast, Subscribe; node.go:          *)
(* WaitForReady, Subscribe).  A change is a pair <<Old, New>>.             *)
(*                                                                         *)
(* One goroutine of the application makes one call, WaitForReady or        *)
(* Subscribe.  Between broadcast and the channel node.Subscribe returns    *)
(* there are two buffers and a goroutine that holds one change; they are   *)
(* one queue here, which may overflow as soon as it is longer than the     *)
(* first buffer, because the goroutine may be late.                        *)
(***************************************************************************)
EXTENDS Naturals, Sequences

CONSTANT Capacity   \* of a subscriber's channel: 16 in the code

VARIABLES
    state,      \* Bootstrapper.state
    change,     \* the change transitionTo has still to broadcast, or <<>>
    app,        \* where the application's call is
    queue,      \* the changes on their way to it
    base        \* New of the last change Subscribe's caller has received

sVars == <<change, app, queue, base>>

STypeOK(States) ==
    /\ change \in {<<>>} \cup (States \X States)
    /\ app \in {"idle", "read", "selecting", "ready", "failed", "cancelled",
                "subscribed", "gap"}
    /\ queue \in Seq(States \X States)
    /\ Len(queue) <= 2 * Capacity + 1
    /\ base \in States

SInit ==
    /\ change = <<>>
    /\ app = "idle"
    /\ queue = <<>>
    /\ base = state

---------------------------------------------------------------------------
(* The run goroutine *)

\* transitionTo, up to broadcast; setting a state anew is no change.
TransitionTo ==
    /\ change = <<>>
    /\ change' = IF state' = state THEN <<>> ELSE <<state, state'>>
    /\ UNCHANGED <<app, queue, base>>

\* Whether the change finds room: it must, it may, or it cannot.
Room ==
    CASE app = "selecting"  -> {Len(queue) < Capacity}
      [] app = "subscribed" -> {Len(queue) < Capacity, Len(queue) < 2 * Capacity + 1}
      [] OTHER              -> {FALSE}

\* The change is dropped.  From then on a subscriber's account has a gap, and he
\* is not followed any further.
Overlook ==
    /\ app' = IF app = "subscribed" THEN "gap" ELSE app
    /\ queue' = IF app = "subscribed" THEN <<>> ELSE queue
    /\ base' = IF app = "subscribed" THEN "Init" ELSE base

\* Mutant of Broadcast: every send is a goroutine of its own.
BroadcastAsync ==
    /\ change # <<>>
    /\ change' = <<>>
    /\ \E room \in Room :
          \/ /\ room
             /\ queue' \in {Append(queue, change), <<change>> \o queue}
             /\ UNCHANGED <<app, base>>
          \/ ~room /\ Overlook
    /\ UNCHANGED state

\* A full buffer is skipped, and so is who has not subscribed yet.
Broadcast ==
    /\ change # <<>>
    /\ change' = <<>>
    /\ \E room \in Room :
          \/ /\ room
             /\ queue' = Append(queue, change)
             /\ UNCHANGED <<app, base>>
          \/ ~room /\ Overlook
    /\ UNCHANGED state

---------------------------------------------------------------------------
(* The application *)

\* What WaitForReady makes of a state.
Outcome(s, otherwise) ==
    CASE s = "Running" -> "ready" [] s = "Failed" -> "failed" [] OTHER -> otherwise

\* WaitForReady reads the state ...
WaitForReady ==
    /\ app = "idle"
    /\ app' = Outcome(state, "read")
    /\ UNCHANGED <<state, change, queue, base>>

\* ... subscribes ...
SubscribeToWait ==
    /\ app = "read"
    /\ app' = "selecting"
    /\ UNCHANGED <<state, change, queue, base>>

\* Mutant of ReceiveChange: it looks at the state that was left.
ReceiveChangeOld ==
    /\ app = "selecting" /\ queue # <<>>
    /\ app' = Outcome(Head(queue)[1], "selecting")
    /\ queue' = IF app' = "selecting" THEN Tail(queue) ELSE <<>>
    /\ UNCHANGED <<state, change, base>>

\* ... and receives until it has an answer.  Its subscription is never taken
\* back; nobody reads that buffer any more, and it is left out.
ReceiveChange ==
    /\ app = "selecting" /\ queue # <<>>
    /\ app' = Outcome(Head(queue)[2], "selecting")
    /\ queue' = IF app' = "selecting" THEN Tail(queue) ELSE <<>>
    /\ UNCHANGED <<state, change, base>>

\* The context WaitForReady was given ends.
CancelWait ==
    /\ app = "selecting"
    /\ app' = "cancelled"
    /\ queue' = <<>>
    /\ UNCHANGED <<state, change, base>>

\* node.Subscribe; a change that is being broadcast still comes.
Subscribe ==
    /\ app = "idle"
    /\ app' = "subscribed"
    /\ base' = IF change = <<>> THEN state ELSE change[1]
    /\ UNCHANGED <<state, change, queue>>

Consume ==
    /\ app = "subscribed" /\ queue # <<>>
    /\ base' = Head(queue)[2]
    /\ queue' = Tail(queue)
    /\ UNCHANGED <<state, change, app>>

Waiting == SubscribeToWait \/ ReceiveChange
Application == WaitForReady \/ CancelWait \/ Subscribe \/ Consume
===========================================================================
