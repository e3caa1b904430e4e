-------------------------- MODULE MDNSAdvertiser --------------------------
(***************************************************************************)
(* One bootstrap.MDNSAdvertiser: what somebody who browses the network     *)
(* gets to see of this node (internal/bootstrap/mdns_advertiser.go).  Each *)
(* method holds the lock throughout.                                       *)
(***************************************************************************)
VARIABLES
    started,        \* MDNSAdvertiser.started
    bootstrapped,   \* MDNSAdvertiser.bootstrapped
    shown           \* the TXT record a browser gets, or "nothing"

aVars == <<started, bootstrapped, shown>>

ATypeOK ==
    /\ started \in BOOLEAN
    /\ bootstrapped \in BOOLEAN
    /\ shown \in {"nothing", "bootstrapped=0", "bootstrapped=1"}

AInit == started = FALSE /\ bootstrapped = FALSE /\ shown = "nothing"

TXTRecord(flag) == IF flag THEN "bootstrapped=1" ELSE "bootstrapped=0"

\* startServerLocked succeeds.
StartServer(flag) == shown' = TXTRecord(flag)

AStart ==
    /\ ~started
    /\ started' = TRUE
    /\ StartServer(bootstrapped)
    /\ UNCHANGED bootstrapped

AStop ==
    /\ started' = FALSE
    /\ shown' = "nothing"
    /\ UNCHANGED bootstrapped

\* Mutant of SetBootstrapped: the server goes on with its old records.
SetBootstrappedQuietly ==
    /\ bootstrapped' = TRUE
    /\ UNCHANGED <<started, shown>>

\* SetBootstrapped(true): a server publishes what it was made with, so a new one
\* takes its place; nobody looks at the error if it does not come up.
SetBootstrapped ==
    /\ bootstrapped' = TRUE
    /\ \/ /\ bootstrapped \/ ~started
          /\ UNCHANGED shown
       \/ /\ ~bootstrapped /\ started
          /\ StartServer(TRUE) \/ shown' = "nothing"
    /\ UNCHANGED started
===========================================================================
