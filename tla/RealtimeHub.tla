----------------------------- MODULE RealtimeHub ------------------------------
(***************************************************************************)
(* How the facts of an Event reach the open pages of browsers              *)
(* (backend/internal/realtimeapi: hub.go, handler.go, listener.go).        *)
(*                                                                         *)
(* The listener of the process publishes one fact after another into the   *)
(* channel of each stream of the Event; each stream's handler writes what  *)
(* its channel holds, at the pace of its reader.  Publish never waits: a   *)
(* full channel loses its oldest message and the new fact, and gets a      *)
(* resync in their place.  The three attempts on a channel are separate,   *)
(* and the reader may come between them.                                   *)
(*                                                                         *)
(* A message makes the page ask again for what it shows.  What is          *)
(* committed while the listener reconnects is never published; pages poll  *)
(* for it.  Streams of other Events are skipped by Publish, and a scanner  *)
(* is not told of facts of inventory.                                      *)
(***************************************************************************)
EXTENDS Naturals, Sequences

CONSTANTS
    Streams,    \* streams of the Event
    QueueSize,  \* capacity of a channel
    MaxFacts,   \* bound: facts heard
    NoStream    \* no stream

ASSUME HubAssumption ==
    QueueSize \in Nat \ {0} /\ MaxFacts \in Nat /\ NoStream \notin Streams

VARIABLES
    heard,      \* facts the listener has taken from its connection
    publish,    \* streams Publish has still to serve, the one it is at, and how far
    stream,     \* what each stream is doing
    queue,      \* its channel
    told,       \* facts its page knows of: it asked again after them
    owed        \* something was taken from its channel unread, and no resync
                \* has been written since

hubVars == <<heard, publish, stream, queue, told, owed>>

Quiet == [todo |-> {}, at |-> NoStream, step |-> "SEND"]

HubInit ==
    /\ heard = 0 /\ publish = Quiet
    /\ stream = [s \in Streams |-> "CLOSED"]
    /\ queue = [s \in Streams |-> <<>>]
    /\ told = [s \in Streams |-> 0]
    /\ owed = [s \in Streams |-> FALSE]

\* at counts the facts a message stands for.
Message(resync) == [resync |-> resync, at |-> heard]

HasRoom(s) == Len(queue[s]) < QueueSize
Put(s, m) == queue' = [queue EXCEPT ![s] = Append(@, m)]

-----------------------------------------------------------------------------
(* The handler of a stream. *)

\* The hub's lock waits for a Publish.
Subscribe(s) ==
    /\ stream[s] = "CLOSED" /\ publish = Quiet
    /\ stream' = [stream EXCEPT ![s] = "SUBSCRIBED"]
    /\ queue' = [queue EXCEPT ![s] = <<>>]
    /\ owed' = [owed EXCEPT ![s] = FALSE]
    /\ UNCHANGED <<heard, publish, told>>

\* "resync", because connected.
WriteConnected(s) ==
    /\ stream[s] = "SUBSCRIBED"
    /\ stream' = [stream EXCEPT ![s] = "OPEN"]
    /\ told' = [told EXCEPT ![s] = heard]
    /\ owed' = [owed EXCEPT ![s] = FALSE]
    /\ UNCHANGED <<heard, publish, queue>>

WriteNext(s) ==
    /\ stream[s] = "OPEN" /\ queue[s] # <<>>
    /\ LET m == Head(queue[s]) IN
       /\ told' = [told EXCEPT ![s] = IF m.at > @ THEN m.at ELSE @]
       /\ owed' = [owed EXCEPT ![s] = @ /\ ~m.resync]
    /\ queue' = [queue EXCEPT ![s] = Tail(@)]
    /\ UNCHANGED <<heard, publish, stream>>

\* The browser is gone; unsubscribe waits for a Publish.
Leave(s) ==
    /\ stream[s] # "CLOSED" /\ publish = Quiet
    /\ stream' = [stream EXCEPT ![s] = "CLOSED"]
    /\ UNCHANGED <<heard, publish, queue, told, owed>>

-----------------------------------------------------------------------------
(* The listener, and Publish in its goroutine. *)

Hear ==
    /\ publish = Quiet /\ heard < MaxFacts
    /\ heard' = heard + 1
    /\ publish' = [Quiet EXCEPT !.todo = {s \in Streams : stream[s] # "CLOSED"}]
    /\ UNCHANGED <<stream, queue, told, owed>>

At(s, step) == publish.at = s /\ publish.step = step
GoTo(s, step) == publish' = [publish EXCEPT !.at = s, !.step = step]
Served(s) == publish' = [Quiet EXCEPT !.todo = publish.todo \ {s}]

\* The streams are served in the order of a map's iteration: any.
Send(s) ==
    /\ publish.at = NoStream /\ s \in publish.todo
    /\ IF HasRoom(s) THEN Put(s, Message(FALSE)) /\ Served(s)
                     ELSE UNCHANGED queue /\ GoTo(s, "DROP")
    /\ UNCHANGED <<heard, stream, told, owed>>

\* The fact that is published is lost too, whatever the channel still holds.
DropOldest(s) ==
    /\ At(s, "DROP")
    /\ queue' = [queue EXCEPT ![s] = IF @ = <<>> THEN @ ELSE Tail(@)]
    /\ owed' = [owed EXCEPT ![s] = TRUE]
    /\ GoTo(s, "PUSH")
    /\ UNCHANGED <<heard, stream, told>>

\* Mutant: the fact itself takes the room that was made.
PushFact(s) ==
    /\ At(s, "PUSH")
    /\ IF HasRoom(s) THEN Put(s, Message(FALSE)) ELSE UNCHANGED queue
    /\ Served(s)
    /\ UNCHANGED <<heard, stream, told, owed>>

PushResync(s) ==
    /\ At(s, "PUSH")
    /\ IF HasRoom(s) THEN Put(s, Message(TRUE)) ELSE UNCHANGED queue
    /\ Served(s)
    /\ UNCHANGED <<heard, stream, told, owed>>

HubNext ==
    \/ \E s \in Streams :
         \/ Subscribe(s) \/ WriteConnected(s) \/ WriteNext(s) \/ Leave(s)
         \/ Send(s) \/ DropOldest(s) \/ PushResync(s)
    \/ Hear

HubSpec == HubInit /\ [][HubNext]_hubVars

-----------------------------------------------------------------------------
Announced(s) == \E i \in DOMAIN queue[s] : queue[s][i].resync

\* A page that reads slowly is never left behind for good: as soon as Publish
\* is done with its stream, the channel's last message, or what the page was
\* told before, covers the newest fact; and whatever the channel lost is
\* covered by a resync still in it.
LossIsAnnounced ==
    \A s \in Streams : stream[s] = "OPEN" /\ s \notin publish.todo =>
        /\ owed[s] => Announced(s)
        /\ heard = IF queue[s] = <<>> THEN told[s]
                                      ELSE queue[s][Len(queue[s])].at
===============================================================================
