------------------------------- MODULE Broker -------------------------------
(***************************************************************************)
(* The broker every component and the console speak through: roles whose   *)
(* rules are checked on every publication and subscription, one queue      *)
(* drained by whoever finds it idle, and handlers called one by one, each  *)
(* free to publish, subscribe, unsubscribe, disconnect or throw while the  *)
(* drain is under way (broker.ts).                                         *)
(*                                                                         *)
(* The other modules take a drain as a sequence of whole deliveries; here  *)
(* each handler's call, and each call a handler makes, is a step.  A topic *)
(* and a filter are the sequences of their parts; payloads are left out.   *)
(***************************************************************************)
EXTENDS Naturals, Sequences

CONSTANTS
    Clients,            \* handles connect() returns, each used by one holder
    MayPublish(_),      \* the filters a client's role lists under publish
    MaySubscribe(_),    \* and under subscribe
    Topics,             \* topics code publishes on
    Filters,            \* filters code subscribes with
    None,
    MaxPublished,       \* bound: messages
    MaxSubscriptions    \* bound: subscriptions

Words == Seq(STRING)

Messages == [topic : Topics, by : Clients]

ASSUME BrokerAssumption ==
    /\ Topics \subseteq Words /\ Filters \subseteq Words
    /\ \A c \in Clients : MayPublish(c) \subseteq Words /\ MaySubscribe(c) \subseteq Words
    /\ MaxPublished \in Nat /\ MaxSubscriptions \in Nat
    /\ None \notin Nat \cup Messages

-----------------------------------------------------------------------------
(* Filters.                                                                *)

\* "#" matches the remainder, even an empty one; "+" matches one part.
topicMatches(filter, topic) ==
    LET Fits(j) == filter[j] = "+" \/ filter[j] = topic[j] IN
    \/ \E i \in DOMAIN filter :
          filter[i] = "#" /\ i <= Len(topic) + 1 /\ \A j \in 1..i-1 : Fits(j)
    \/ Len(filter) = Len(topic) /\ \A j \in DOMAIN filter : Fits(j)

\* Fault: the question the wrong way round.
filterCoversBack(allowed, requested) == topicMatches(requested, allowed)

\* Whether a role's filter allows a requested one, part by part.
filterCovers(allowed, requested) ==
    LET Covers(j) == /\ requested[j] # "#"
                     /\ \/ allowed[j] = "+"
                        \/ requested[j] # "+" /\ allowed[j] = requested[j]
    IN
    \/ \E i \in DOMAIN allowed :
          allowed[i] = "#" /\ i <= Len(requested) + 1 /\ \A j \in 1..i-1 : Covers(j)
    \/ Len(allowed) = Len(requested) /\ \A j \in DOMAIN allowed : Covers(j)

-----------------------------------------------------------------------------
VARIABLES
    connected,      \* clients whose handle still works
    subscriptions,  \* in the order they were made; none is ever removed
    active,         \* those that have not been ended
    queue,
    draining,
    message,        \* the message being delivered
    audience,       \* the subscriptions it was found to be for, not yet called
    running,        \* the subscription whose handler is under way
    published,      \* history: every message accepted, in order
    heard,          \* history: what each subscription's handler was called with
    joined,         \* history: messages delivered before each subscription
    left            \* history: calls had when each subscription ended

state == <<connected, subscriptions, active, queue, draining, message, audience,
           running>>
vars == <<state, published, heard, joined, left>>

\* Code runs between drains, or as the handler under way.
MayCall == ~draining \/ running # None

\* Messages whose delivery has begun.
Begun == Len(published) - Len(queue)

\* The first publication of a task drains; one made in a drain only queues.  Refused
\* publications throw to the caller and change nothing.
Publish(c, t) ==
    /\ MayCall /\ Len(published) < MaxPublished
    /\ c \in connected /\ \E allowed \in MayPublish(c) : topicMatches(allowed, t)
    /\ LET m == [topic |-> t, by |-> c] IN
       queue' = Append(queue, m) /\ published' = Append(published, m)
    /\ draining' = TRUE
    /\ UNCHANGED <<connected, subscriptions, active, message, audience, running,
                   heard, joined, left>>

Subscribe(c, f) ==
    /\ MayCall /\ Len(subscriptions) < MaxSubscriptions
    /\ c \in connected /\ \E allowed \in MaySubscribe(c) : filterCovers(allowed, f)
    /\ subscriptions' = Append(subscriptions, [client |-> c, filter |-> f])
    /\ active' = active \cup {Len(subscriptions) + 1}
    /\ heard' = Append(heard, <<>>)
    /\ joined' = Append(joined, Begun) /\ left' = Append(left, 0)
    /\ UNCHANGED <<connected, queue, draining, message, audience, running,
                   published>>

Deactivate(ended) ==
    /\ active' = active \ ended
    /\ left' = [s \in DOMAIN left |->
                   IF s \in ended \cap active THEN Len(heard[s]) ELSE left[s]]

\* The function subscribe returns.
Unsubscribe(s) ==
    /\ MayCall /\ s \in active /\ Deactivate({s})
    /\ UNCHANGED <<connected, subscriptions, queue, draining, message, audience, running,
                   published, heard, joined>>

\* What the stop verb does to a component, perhaps from within its own handler.
Disconnect(c) ==
    /\ MayCall /\ c \in connected
    /\ Deactivate({s \in active : subscriptions[s].client = c})
    /\ connected' = connected \ {c}
    /\ UNCHANGED <<subscriptions, queue, draining, message, audience, running,
                   published, heard, joined>>

\* The audience is settled when a message's turn comes, not when it was published.
Take ==
    /\ draining /\ running = None /\ audience = {} /\ queue # <<>>
    /\ message' = Head(queue) /\ queue' = Tail(queue)
    /\ audience' = {s \in active :
                    topicMatches(subscriptions[s].filter, Head(queue).topic)}
    /\ UNCHANGED <<connected, subscriptions, active, draining, running,
                   published, heard, joined, left>>

ComesNext(s) == s \in audience /\ \A r \in audience : s <= r

\* Fault: a subscription an earlier handler ended is called all the same.
CallRegardless(s) ==
    /\ draining /\ running = None /\ ComesNext(s)
    /\ audience' = audience \ {s}
    /\ running' = s /\ heard' = [heard EXCEPT ![s] = Append(@, message)]
    /\ UNCHANGED <<connected, subscriptions, active, queue, draining, message,
                   published, joined, left>>

\* Subscriptions are called in the order they were made, an ended one passed over.
Call(s) ==
    /\ draining /\ running = None /\ ComesNext(s)
    /\ audience' = audience \ {s}
    /\ \/ /\ s \in active
          /\ running' = s /\ heard' = [heard EXCEPT ![s] = Append(@, message)]
       \/ s \notin active /\ UNCHANGED <<running, heard>>
    /\ UNCHANGED <<connected, subscriptions, active, queue, draining, message,
                   published, joined, left>>

\* The handler returns, or throws: that is counted, and the next is called either way.
Finish ==
    /\ running # None /\ running' = None
    /\ UNCHANGED <<connected, subscriptions, active, queue, draining, message, audience,
                   published, heard, joined, left>>

Idle ==
    /\ draining /\ running = None /\ audience = {} /\ queue = <<>>
    /\ draining' = FALSE
    /\ UNCHANGED <<connected, subscriptions, active, queue, message, audience, running,
                   published, heard, joined, left>>

Init ==
    /\ connected = Clients /\ subscriptions = <<>> /\ active = {}
    /\ queue = <<>> /\ draining = FALSE
    /\ message = None /\ audience = {} /\ running = None
    /\ published = <<>> /\ heard = <<>> /\ joined = <<>> /\ left = <<>>

Next ==
    \/ \E c \in Clients :
        \/ \E t \in Topics : Publish(c, t)
        \/ \E f \in Filters : Subscribe(c, f)
        \/ Disconnect(c)
    \/ \E s \in DOMAIN subscriptions : Unsubscribe(s) \/ Call(s)
    \/ Take \/ Finish \/ Idle

Spec == Init /\ [][Next]_vars

-----------------------------------------------------------------------------
\* The types of the broker's fields (broker.ts:38-43); a message waits, and a handler
\* runs, only in a drain.
BrokerTypeOK ==
    /\ connected \subseteq Clients
    /\ subscriptions \in Seq([client : Clients, filter : Filters])
    /\ active \subseteq DOMAIN subscriptions
    /\ queue \in Seq(Messages) /\ draining \in BOOLEAN
    /\ message \in Messages \cup {None}
    /\ audience \subseteq DOMAIN subscriptions
    /\ running \in DOMAIN subscriptions \cup {None}
    /\ published \in Seq(Messages)
    /\ heard \in Seq(Seq(Messages)) /\ Len(heard) = Len(subscriptions)
    /\ joined \in Seq(Nat) /\ Len(joined) = Len(subscriptions)
    /\ left \in Seq(Nat) /\ Len(left) = Len(subscriptions)
    /\ running # None \/ audience # {} => message # None
    /\ queue # <<>> \/ running # None \/ audience # {} => draining

\* Where what a subscription owes its handler stands among what was published: every
\* matching message whose turn came since.
Owed(s) == {p \in joined[s] + 1..Begun :
               topicMatches(subscriptions[s].filter, published[p].topic)}

\* at[n] is where the n-th message heard was published: before it, of what is owed,
\* stand just those heard before it.
HeardAt(s, at) ==
    \A n \in DOMAIN heard[s] :
        /\ heard[s][n] = published[at[n]]
        /\ \A p \in Owed(s) : p < at[n] <=> \E m \in 1..n-1 : at[m] = p

\* Whatever handlers publish, subscribe, end or throw in the middle of a drain, each
\* subscription hears the messages it matches once each, in the order they were
\* published: all of them while it stands, and none after it was ended, though the
\* message was already being delivered to others (broker.ts:88-113).
HeardInOrder ==
    \A s \in DOMAIN subscriptions :
        /\ \E at \in [DOMAIN heard[s] -> Owed(s)] :
              /\ HeardAt(s, at)
              /\ s \in active /\ ~draining =>
                    \A p \in Owed(s) : \E n \in DOMAIN heard[s] : at[n] = p
        /\ s \notin active => Len(heard[s]) = left[s]

\* Default deny, end to end: nothing is heard under a role whose rules do not match
\* its topic, however wide the filter it was subscribed with, nor was it published
\* under one (broker.ts:66-75, 120-133).
RulesAreKept ==
    \A s \in DOMAIN subscriptions : \A n \in DOMAIN heard[s] :
        LET m == heard[s][n] IN
        /\ \E allowed \in MaySubscribe(subscriptions[s].client) :
              topicMatches(allowed, m.topic)
        /\ \E allowed \in MayPublish(m.by) : topicMatches(allowed, m.topic)
=============================================================================
