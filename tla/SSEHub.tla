------------------------------- MODULE SSEHub -------------------------------
(***************************************************************************)
(* The hub of server-sent events, internal/web/sse.go: browsers come and   *)
(* go, and whoever has something to say sends it to all of them, holding   *)
(* the mutex of the hub.  The channel of a client has no buffer: a message *)
(* is taken only by a client that waits in its select, and lost for one    *)
(* that is writing.  What the messages say is left out.                    *)
(***************************************************************************)
EXTENDS Naturals

CONSTANTS Clients, NoSender

VARIABLES
    client,      \* "away", "select", "writing", "leaving" or "closing"
    registered,  \* keys of SSEServer.clients
    closed,      \* clients whose channel is closed
    holder,      \* the broadcaster that holds SSEServer.mu, or NoSender
    todo         \* clients its loop has not come to

hubVars == <<client, registered, closed, holder, todo>>

HubTypeOK(senders) ==
    /\ client \in [Clients -> {"away", "select", "writing", "leaving", "closing"}]
    /\ registered \in SUBSET Clients
    /\ closed \in SUBSET Clients
    /\ holder \in senders \cup {NoSender}
    /\ todo \in SUBSET registered

HubInit ==
    /\ client = [c \in Clients |-> "away"]
    /\ registered = {}
    /\ closed = Clients
    /\ holder = NoSender
    /\ todo = {}

Becomes(c, before, after) ==
    /\ client[c] \in before
    /\ client' = [client EXCEPT ![c] = after]

-----------------------------------------------------------------------------
(* HandleSSE. *)
Connect(c) ==
    /\ Becomes(c, {"away"}, "select")
    /\ holder = NoSender
    /\ registered' = registered \cup {c}
    /\ closed' = closed \ {c}
    /\ UNCHANGED <<holder, todo>>

(* The keepalive every 30 seconds. *)
Ping(c) ==
    /\ Becomes(c, {"select"}, "writing")
    /\ UNCHANGED <<registered, closed, holder, todo>>

(* The message or the ping has gone out; a slow network may never let it. *)
Written(c) ==
    /\ Becomes(c, {"writing"}, "select")
    /\ UNCHANGED <<registered, closed, holder, todo>>

(* The context of the request is done. *)
Leave(c) ==
    /\ Becomes(c, {"select"}, "leaving")
    /\ UNCHANGED <<registered, closed, holder, todo>>

(* Mutant: the deferred calls in the other order. *)
CloseFirst(c) ==
    /\ Becomes(c, {"leaving"}, "closing")
    /\ closed' = closed \cup {c}
    /\ UNCHANGED <<registered, holder, todo>>

(* Mutant: the map is changed without the mutex. *)
UnregisterUnlocked(c) ==
    /\ Becomes(c, {"leaving"}, "closing")
    /\ registered' = registered \ {c}
    /\ UNCHANGED <<closed, holder, todo>>

(* The deferred function: delete under the mutex, then close. *)
Unregister(c) ==
    /\ Becomes(c, {"leaving"}, "closing")
    /\ holder = NoSender
    /\ registered' = registered \ {c}
    /\ UNCHANGED <<closed, holder, todo>>

CloseChannel(c) ==
    /\ Becomes(c, {"closing"}, "away")
    /\ closed' = closed \cup {c}
    /\ UNCHANGED <<registered, holder, todo>>

-----------------------------------------------------------------------------
(* Broadcast. *)
TakeHub(s) ==
    /\ holder = NoSender
    /\ holder' = s
    /\ todo' = registered
    /\ UNCHANGED <<client, registered, closed>>

(* Mutant: the select has no default. *)
SendBlocks(c) ==
    /\ c \in todo
    /\ Becomes(c, {"select"}, "writing")
    /\ todo' = todo \ {c}
    /\ UNCHANGED <<registered, closed, holder>>

SendTo(c) ==
    /\ c \in todo
    /\ client' = [client EXCEPT ![c] = IF @ = "select" THEN "writing" ELSE @]
    /\ todo' = todo \ {c}
    /\ UNCHANGED <<registered, closed, holder>>

FreeHub(s) ==
    /\ holder = s
    /\ todo = {}
    /\ holder' = NoSender
    /\ UNCHANGED <<client, registered, closed, todo>>

ClientStep(c) ==
    \/ Connect(c) \/ Ping(c) \/ Written(c) \/ Leave(c) \/ Unregister(c) \/ CloseChannel(c)

-----------------------------------------------------------------------------
(* A send on a closed channel would end the process. *)
NoSendOnClosed == todo \cap closed = {}
=============================================================================
