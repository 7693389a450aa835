------------------------------ MODULE EventBus ------------------------------
(***************************************************************************)
(* The event bus of api/handlers.go and the event streams it feeds.  Every *)
(* stream has a buffered channel, registered under a job's id or under the *)
(* wildcard.  Publish holds the read lock while it goes through the        *)
(* channels one by one, so two publishers may be at it at the same time    *)
(* and reach the channels in different orders; Subscribe and Unsubscribe   *)
(* take the write lock and so wait until no publisher is inside.           *)
(***************************************************************************)
EXTENDS Jobs, Sequences, Functions

CONSTANTS Stream,      \* requests to /api/v1/events
          TopicOf,     \* the job_id each of them asks for, or Wildcard
          Publisher,   \* requests that publish
          Capacity     \* of a stream's channel (100 in the code)

Wildcard == NoID
Topic == JobID \cup {Wildcard}

ASSUME BusAssumption ==
    /\ Capacity \in Nat \ {0}
    /\ TopicOf \in [Stream -> Topic]

Event == [kind : {"created", "cancelled", "retried", "deleted"}, job : JobID, by : Publisher]

VARIABLES subscribers,  \* topic -> the channels registered under it
          channel,      \* stream -> what its channel holds
          stream,       \* stream -> "new", "open" or "closed"
          sending,      \* publisher -> the event and the channels still to be served
          owed          \* history: events published while the stream was subscribed
                        \* that did not get to its channel yet, full or not

busVars == <<subscribers, channel, stream, sending, owed>>

NoEvent == [kind |-> "none"]

NotSending == [event |-> NoEvent, rest |-> <<>>]

BusTypeOK ==
    /\ subscribers \in [Topic -> Seq(Stream)]
    /\ channel \in [Stream -> Seq(Event)]
    /\ stream \in [Stream -> {"new", "open", "closed"}]
    /\ sending \in [Publisher -> [event : Event \cup {NoEvent}, rest : Seq(Stream)]]
    /\ owed \in [Stream -> SUBSET Event]

BusInit ==
    /\ subscribers = [t \in Topic |-> <<>>]
    /\ channel = [s \in Stream |-> <<>>]
    /\ stream = [s \in Stream |-> "new"]
    /\ sending = [p \in Publisher |-> NotSending]
    /\ owed = [s \in Stream |-> {}]

\* No publisher holds the read lock.
Unlocked == \A p \in Publisher : sending[p].rest = <<>>

-----------------------------------------------------------------------------
(* handleEvents.                                                           *)

Subscribe(s) ==
    /\ stream[s] = "new"
    /\ Unlocked
    /\ subscribers' = [subscribers EXCEPT ![TopicOf[s]] = Append(@, s)]
    /\ stream' = [stream EXCEPT ![s] = "open"]
    /\ UNCHANGED <<channel, sending, owed>>

StreamReceive(s) ==
    /\ stream[s] = "open"
    /\ channel[s] # <<>>
    /\ channel' = [channel EXCEPT ![s] = Tail(@)]
    /\ UNCHANGED <<subscribers, stream, sending, owed>>

\* The sequence without its i-th element.
Without(seq, i) == SubSeq(seq, 1, i - 1) \o SubSeq(seq, i + 1, Len(seq))

\* Mutant: the channel is closed without taking the lock.
UnsubscribeUnlocked(s) ==
    /\ stream[s] = "open"
    /\ \E i \in DOMAIN subscribers[TopicOf[s]] :
          /\ subscribers[TopicOf[s]][i] = s
          /\ subscribers' = [subscribers EXCEPT ![TopicOf[s]] = Without(@, i)]
    /\ stream' = [stream EXCEPT ![s] = "closed"]
    /\ channel' = [channel EXCEPT ![s] = <<>>]
    /\ UNCHANGED <<sending, owed>>

\* The client has gone: the channel is taken out of the list and closed, and
\* what it still holds is lost.
Unsubscribe(s) ==
    /\ stream[s] = "open"
    /\ Unlocked
    /\ \E i \in DOMAIN subscribers[TopicOf[s]] :
          /\ subscribers[TopicOf[s]][i] = s
          /\ subscribers' = [subscribers EXCEPT ![TopicOf[s]] = Without(@, i)]
    /\ stream' = [stream EXCEPT ![s] = "closed"]
    /\ channel' = [channel EXCEPT ![s] = <<>>]
    /\ UNCHANGED <<sending, owed>>

-----------------------------------------------------------------------------
(* Publish.                                                                *)

\* Mutant: subscribers to the job hide the wildcard ones.
TargetsFirstMatch(j) ==
    IF subscribers[j] # <<>> THEN subscribers[j] ELSE subscribers[Wildcard]

Targets(j) == subscribers[j] \o subscribers[Wildcard]

\* Takes the read lock.
PublishBegin(p, e) ==
    /\ sending[p] = NotSending
    /\ sending' = [sending EXCEPT ![p] = [event |-> e, rest |-> Targets(e.job)]]
    /\ owed' = [s \in Stream |->
                  IF stream[s] = "open" /\ TopicOf[s] \in {e.job, Wildcard}
                  THEN owed[s] \cup {e} ELSE owed[s]]
    /\ UNCHANGED <<subscribers, channel, stream>>

\* Mutant: the send waits for room in the channel.
PublishSendBlocking(p) ==
    /\ sending[p].rest # <<>>
    /\ LET s == Head(sending[p].rest)
       IN  /\ Len(channel[s]) < Capacity
           /\ channel' = [channel EXCEPT ![s] = Append(@, sending[p].event)]
           /\ owed' = [owed EXCEPT ![s] = @ \ {sending[p].event}]
    /\ sending' = [sending EXCEPT ![p].rest = Tail(@)]
    /\ UNCHANGED <<subscribers, stream>>

\* One channel: an event that finds it full is skipped.
PublishSend(p) ==
    /\ sending[p].rest # <<>>
    /\ LET s == Head(sending[p].rest)
       IN  /\ channel' = IF Len(channel[s]) >= Capacity THEN channel
                         ELSE [channel EXCEPT ![s] = Append(@, sending[p].event)]
           /\ owed' = [owed EXCEPT ![s] = @ \ {sending[p].event}]
    /\ sending' = [sending EXCEPT ![p].rest = Tail(@)]
    /\ UNCHANGED <<subscribers, stream>>

PublishEnd(p) ==
    /\ sending[p] # NotSending
    /\ sending[p].rest = <<>>
    /\ sending' = [sending EXCEPT ![p] = NotSending]
    /\ UNCHANGED <<subscribers, channel, stream, owed>>

-----------------------------------------------------------------------------
(* Properties.                                                             *)

\* A publisher never has a closed channel ahead of it: sending on one would
\* panic.  The lock must keep the close out of every Publish in progress.
NoSendOnClosed ==
    \A p \in Publisher : \A s \in Range(sending[p].rest) : stream[s] = "open"

\* Whoever subscribes, leaves or publishes meanwhile, a stream is offered
\* every event it subscribed to, exactly once: what an open stream is still
\* owed is what publishers at work have it ahead of them for, and each has it
\* ahead once.  (Only a full channel makes an offered event be skipped.)
OfferedOnce ==
    \A s \in Stream : stream[s] = "open" =>
        /\ owed[s] = {sending[p].event : p \in {q \in Publisher : s \in Range(sending[q].rest)}}
        /\ \A p \in Publisher : IsInjective(sending[p].rest)

\* What makes the two inductive: a topic's list holds the open streams that
\* asked for it, each once; ...
ListsExact ==
    \A t \in Topic :
        /\ IsInjective(subscribers[t])
        /\ Range(subscribers[t]) = {s \in Stream : stream[s] = "open" /\ TopicOf[s] = t}

\* ... a publisher's event is its own; ...
OwnEvents ==
    \A p \in Publisher : sending[p].rest # <<>> =>
        sending[p].event \in Event /\ sending[p].event.by = p

\* ... and a stream is owed nothing before it subscribes.
NothingOwedYet == \A s \in Stream : stream[s] = "new" => owed[s] = {}

BusInv == ListsExact /\ OwnEvents /\ NothingOwedYet /\ NoSendOnClosed /\ OfferedOnce
=============================================================================
