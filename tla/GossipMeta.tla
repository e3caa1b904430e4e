---------------------------- MODULE GossipMeta ----------------------------
(***************************************************************************)
(* The metadata a node gossips about itself: the delegate's fields, their  *)
(* encoding, and the calls of memberlist.UpdateNode that publish them      *)
(* (internal/gossip).                                                      *)
(*                                                                         *)
(* A setter changes one field and publishes all of them.  UpdateNode       *)
(* (external) encodes the fields first and takes its incarnation number    *)
(* afterwards: of two updates that overlap the one published last wins,    *)
(* and it may have been encoded before the other one's field was set.      *)
(* Setting and encoding are one step here; apart they could only give      *)
(* encodings that miss less.                                               *)
(***************************************************************************)
EXTENDS Naturals, Sequences

CONSTANTS
    Updaters,       \* goroutines that call a setter
    MetaMaxSize,    \* memberlist's limit: 512
    AddrSize        \* the length of an address of this node

VARIABLES
    fields,         \* the delegate's fields; app is the length of appMeta
    encoded,        \* encoded[u]: what u's UpdateNode has encoded, or <<>>
    published,      \* what peers get, or <<>> unless memberlist is up
    raced           \* two updates overlapped (history)

mVars == <<fields, encoded, published, raced>>

Fields == [raft : {"placeholder", "real"}, grpc : BOOLEAN, boot : BOOLEAN, app : Nat]

MTypeOK ==
    /\ fields \in Fields
    /\ \A u \in Updaters : encoded[u] # <<>> => encoded[u] \in Fields
    /\ published # <<>> => published \in Fields
    /\ raced \in BOOLEAN

MInit ==
    /\ fields = [raft |-> "placeholder", grpc |-> FALSE, boot |-> FALSE, app |-> 0]
    /\ encoded = [u \in Updaters |-> <<>>]
    /\ published = <<>>
    /\ raced = FALSE

---------------------------------------------------------------------------
(* NodeMeta and nodeToInfo *)

\* Mutant of Order: the application's part comes before the flag.
OrderAppFirst == <<"addr", "raft", "grpc", "app", "boot">>

\* The order in which NodeMeta appends its parts.
Order == <<"addr", "raft", "grpc", "boot", "app">>

\* The separator and the key.
KeySize(k) ==
    CASE k = "addr" -> 0 [] k \in {"raft", "grpc"} -> 6 [] k = "boot" -> 13
      [] k = "app" -> 5

\* Base64 with padding.
EncodedSize(n) == 4 * ((n + 2) \div 3)

ValueSize(f, k) ==
    CASE k \in {"addr", "raft", "grpc"} -> AddrSize [] k = "boot" -> 0
      [] k = "app" -> EncodedSize(f.app)

\* Empty fields have no part; a node made by node.New has a Raft address.
Appears(f, k) ==
    CASE k = "grpc" -> f.grpc [] k = "boot" -> f.boot [] k = "app" -> f.app > 0
      [] OTHER -> TRUE

Size(f, i) ==
    IF Appears(f, Order[i]) THEN KeySize(Order[i]) + ValueSize(f, Order[i]) ELSE 0

\* Where part i begins, and Offset(f, 6) where the text ends.
Offset(f, i) ==
    LET Before(j) == IF j < i THEN Size(f, j) ELSE 0
    IN  Before(1) + Before(2) + Before(3) + Before(4) + Before(5)

\* How much of part i is left when NodeMeta has cut at the limit.
Kept(f, i) ==
    IF Offset(f, i) + Size(f, i) <= MetaMaxSize THEN Size(f, i)
    ELSE IF Offset(f, i) < MetaMaxSize THEN MetaMaxSize - Offset(f, i) ELSE 0

Index(k) == CHOOSE i \in 1..Len(Order) : Order[i] = k

\* nodeToInfo: half an address is taken for one, half a flag for none; half a
\* base64 text is decoded if it happens to end after a group of four.
ReadAddr(f, k) ==
    LET kept == Kept(f, Index(k)) IN
    IF kept <= KeySize(k) THEN "none"
    ELSE IF kept = Size(f, Index(k)) THEN "whole" ELSE "half"

ReadBoot(f) == f.boot /\ Kept(f, Index("boot")) = KeySize("boot")

ReadApp(f) ==
    LET text == Kept(f, Index("app")) - KeySize("app") IN
    IF f.app = 0 \/ Kept(f, Index("app")) <= KeySize("app") THEN "none"
    ELSE IF text = EncodedSize(f.app) THEN "whole"
    ELSE IF text % 4 = 0 THEN "half" ELSE "none"

---------------------------------------------------------------------------
(* The setters *)

\* memberlist.Create
MStart ==
    /\ published' = fields
    /\ UNCHANGED <<fields, encoded, raced>>

\* Mutant of MStop: the node does not leave.
MStopStays == UNCHANGED <<fields, encoded, published, raced>>

\* Leave and Shutdown
MStop ==
    /\ published' = <<>>
    /\ UNCHANGED <<fields, encoded, raced>>

Idle == \A u \in Updaters : encoded[u] = <<>>

\* A setter, up to the encoding.
Set(u, f) ==
    /\ encoded[u] = <<>>
    /\ fields' = f
    /\ encoded' = [encoded EXCEPT ![u] = f]
    /\ raced' = (raced \/ ~Idle)
    /\ UNCHANGED published

\* Mutant of Publish: the setters do not call UpdateNode.
PublishNothing(u) ==
    /\ encoded[u] # <<>>
    /\ encoded' = [encoded EXCEPT ![u] = <<>>]
    /\ UNCHANGED <<fields, published, raced>>

\* The rest of UpdateNode; the setter returns.  Of a memberlist that has been shut
\* down nobody hears.
Publish(u) ==
    /\ encoded[u] # <<>>
    /\ published' = IF published = <<>> THEN <<>> ELSE encoded[u]
    /\ encoded' = [encoded EXCEPT ![u] = <<>>]
    /\ UNCHANGED <<fields, raced>>
===========================================================================
