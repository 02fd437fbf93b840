---------------------------- MODULE BrokerProofs ----------------------------
(***************************************************************************)
(* That the broker's rules are kept, and every subscription served in      *)
(* order, whatever the roles, filters and topics are, and whatever         *)
(* handlers do in the middle of a drain.  The rules: one that covers a     *)
(* filter matches every topic the filter does, and nothing enters the      *)
(* queue, an audience or the list of subscriptions but through them.  The  *)
(* order: each subscription has heard, where it was published, everything  *)
(* it matches whose turn has come, but for the message being delivered     *)
(* while it waits in the audience.                                         *)
(***************************************************************************)
EXTENDS Broker, SequenceTheorems, TLAPS

\* A rule that covers a requested filter allows every topic the filter matches, so the
\* check made once, at subscription, stands for every delivery (broker.ts:120-133).
THEOREM CoveringIsSound ==
    ASSUME NEW allowed \in Words, NEW requested \in Words, NEW topic \in Words,
           filterCovers(allowed, requested), topicMatches(requested, topic)
    PROVE  topicMatches(allowed, topic)
<1> DEFINE Covers(j) == /\ requested[j] # "#"
                        /\ \/ allowed[j] = "+"
                           \/ requested[j] # "+" /\ allowed[j] = requested[j]
           Asks(j) == requested[j] = "+" \/ requested[j] = topic[j]
           Fits(j) == allowed[j] = "+" \/ allowed[j] = topic[j]
<1>1. \A j : Covers(j) /\ Asks(j) => Fits(j)
  OBVIOUS
<1>2. CASE \E i \in DOMAIN allowed : /\ allowed[i] = "#" /\ i <= Len(requested) + 1
                                     /\ \A j \in 1..i-1 : Covers(j)
  <2>1. PICK i \in DOMAIN allowed : /\ allowed[i] = "#" /\ i <= Len(requested) + 1
                                    /\ \A j \in 1..i-1 : Covers(j)
    BY <1>2
  <2>2. i \in Nat /\ Len(requested) \in Nat /\ Len(topic) \in Nat
    BY DEF Words
  <2>3. i <= Len(topic) + 1 /\ \A j \in 1..i-1 : Asks(j)
    <3>1. CASE \E k \in DOMAIN requested :
                  requested[k] = "#" /\ k <= Len(topic) + 1 /\ \A j \in 1..k-1 : Asks(j)
      <4>1. PICK k \in DOMAIN requested :
                  requested[k] = "#" /\ k <= Len(topic) + 1 /\ \A j \in 1..k-1 : Asks(j)
        BY <3>1
      <4>2. k \in Nat /\ k >= 1
        BY DEF Words
      <4>3. ~ k <= i - 1
        BY <4>1, <4>2, <2>1, <2>2
      <4> QED
        BY <4>1, <4>2, <4>3, <2>2
    <3>2. CASE Len(requested) = Len(topic) /\ \A j \in DOMAIN requested : Asks(j)
      BY <3>2, <2>1, <2>2 DEF Words
    <3> QED
      BY <3>1, <3>2 DEF topicMatches
  <2>4. \A j \in 1..i-1 : Fits(j)
    BY <2>1, <2>3, <1>1
  <2> QED
    BY <2>1, <2>3, <2>4 DEF topicMatches
<1>3. CASE Len(allowed) = Len(requested) /\ \A j \in DOMAIN allowed : Covers(j)
  <2>1. DOMAIN allowed = DOMAIN requested
    BY <1>3 DEF Words
  <2>2. ~ \E k \in DOMAIN requested : requested[k] = "#"
    BY <1>3, <2>1
  <2>3. Len(requested) = Len(topic) /\ \A j \in DOMAIN requested : Asks(j)
    BY <2>2 DEF topicMatches
  <2>4. \A j \in DOMAIN allowed : Fits(j)
    BY <2>1, <2>3, <1>1, <1>3
  <2> QED
    BY <1>3, <2>3, <2>4 DEF topicMatches
<1> QED
  BY <1>2, <1>3 DEF filterCovers

-----------------------------------------------------------------------------
\* What the rules have let in, between being checked and being heard.
Permitted(m) == \E allowed \in MayPublish(m.by) : topicMatches(allowed, m.topic)

Covered == \A s \in DOMAIN subscriptions :
    \E allowed \in MaySubscribe(subscriptions[s].client) :
        filterCovers(allowed, subscriptions[s].filter)

PermittedOnly == /\ \A n \in DOMAIN queue : Permitted(queue[n])
                 /\ message # None => Permitted(message)

AudienceMatches ==
    \A s \in audience : topicMatches(subscriptions[s].filter, message.topic)

\* What joined counts from is a number.
WaitingWasPublished == Len(queue) <= Len(published)

IInv == BrokerTypeOK /\ WaitingWasPublished /\ Covered /\ PermittedOnly
        /\ AudienceMatches /\ RulesAreKept

\* Ending subscriptions loses no delivery that is under way.
LEMMA DeactivateKeeps ==
    ASSUME BrokerTypeOK, NEW ended, Deactivate(ended)
    PROVE  /\ active' \subseteq DOMAIN subscriptions
           /\ left' \in Seq(Nat) /\ Len(left') = Len(left)
<1>1. /\ Len(left) \in Nat /\ DOMAIN left = 1..Len(left)
      /\ Len(heard) = Len(left) /\ active \subseteq DOMAIN subscriptions
      /\ \A s \in 1..Len(left) : left[s] \in Nat /\ Len(heard[s]) \in Nat
  <2>1. /\ left \in Seq(Nat) /\ heard \in Seq(Seq(Messages))
        /\ Len(heard) = Len(left) /\ active \subseteq DOMAIN subscriptions
    BY DEF BrokerTypeOK
  <2>2. \A s \in 1..Len(left) : heard[s] \in Seq(Messages)
    BY <2>1, ElementOfSeq
  <2>3. \A s \in 1..Len(left) : Len(heard[s]) \in Nat
    BY <2>2, LenProperties
  <2>4. \A s \in 1..Len(left) : left[s] \in Nat
    BY <2>1, ElementOfSeq
  <2> QED
    BY <2>1, <2>3, <2>4, LenProperties
<1> DEFINE e(s) == IF s \in ended \cap active THEN Len(heard[s]) ELSE left[s]
<1>2. left' = [s \in 1..Len(left) |-> e(s)]
  BY <1>1 DEF Deactivate
<1>3. \A s \in 1..Len(left) : e(s) \in Nat
  BY <1>1
<1> HIDE DEF e
<1>4. left' \in Seq(Nat)
  BY <1>1, <1>2, <1>3, IsASeq
<1>5. DOMAIN left' = 1..Len(left)
  BY <1>2
<1>6. Len(left') = Len(left)
  BY <1>1, <1>4, <1>5, LenProperties
<1> QED
  BY <1>1, <1>4, <1>6 DEF Deactivate

\* No client is connected to a broker that has just been made.
LEMMA InitIInv == Init => IInv
<1> SUFFICES ASSUME Init PROVE IInv
  OBVIOUS
<1>1. /\ subscriptions = <<>> /\ queue = <<>> /\ published = <<>> /\ heard = <<>>
      /\ joined = <<>> /\ left = <<>> /\ Len(<<>>) = 0 /\ DOMAIN <<>> = {}
      /\ active = {} /\ audience = {} /\ running = None /\ message = None
      /\ draining = FALSE /\ connected = Clients
  BY DEF Init
<1>2. /\ <<>> \in Seq([client : Clients, filter : Filters]) /\ <<>> \in Seq(Messages)
      /\ <<>> \in Seq(Seq(Messages)) /\ <<>> \in Seq(Nat)
  BY EmptySeq
<1>3. BrokerTypeOK
  BY <1>1, <1>2 DEF BrokerTypeOK
<1>4. Covered /\ PermittedOnly /\ AudienceMatches /\ RulesAreKept /\ WaitingWasPublished
  BY <1>1 DEF Covered, PermittedOnly, AudienceMatches, RulesAreKept, WaitingWasPublished
<1> QED
  BY <1>3, <1>4 DEF IInv

\* The parts of the invariant that no call of a handler's or of a task's breaks.
LEMMA CallsKeepIInv ==
    ASSUME IInv,
           \/ \E c \in Clients : \/ \E t \in Topics : Publish(c, t)
                                 \/ \E f \in Filters : Subscribe(c, f)
                                 \/ Disconnect(c)
           \/ \E s \in DOMAIN subscriptions : Unsubscribe(s)
    PROVE  IInv'
<1> USE DEF IInv
<1>1. ASSUME NEW c \in Clients, NEW t \in Topics, Publish(c, t) PROVE IInv'
  <2> DEFINE m == [topic |-> t, by |-> c]
  <2>1. m \in Messages /\ Permitted(m)
    BY <1>1 DEF Publish, Messages, Permitted
  <2>2. queue' = Append(queue, m) /\ published' = Append(published, m)
    BY <1>1 DEF Publish
  <2> HIDE DEF m
  <2>3. BrokerTypeOK'
    BY <1>1, <2>1, <2>2 DEF Publish, BrokerTypeOK
  <2>4. \A n \in DOMAIN queue' : Permitted(queue'[n])
    <3>1. queue \in Seq(Messages) /\ DOMAIN queue' = 1..Len(queue) + 1
      BY <2>1, <2>2 DEF BrokerTypeOK
    <3>2. /\ \A n \in 1..Len(queue) : queue'[n] = queue[n]
          /\ queue'[Len(queue) + 1] = m
      BY <2>1, <2>2, <3>1, AppendProperties
    <3>3. \A n \in 1..Len(queue) : Permitted(queue[n])
      BY <3>1 DEF PermittedOnly
    <3> QED
      BY <2>1, <3>1, <3>2, <3>3
  <2>5. PermittedOnly'
    BY <1>1, <2>4 DEF PermittedOnly, Publish, Permitted
  <2>6. Covered' /\ AudienceMatches' /\ RulesAreKept'
    BY <1>1 DEF Publish, Covered, AudienceMatches, RulesAreKept
  <2>7. WaitingWasPublished'
    BY <2>1, <2>2 DEF WaitingWasPublished, BrokerTypeOK
  <2> QED
    BY <2>3, <2>5, <2>6, <2>7
<1>2. ASSUME NEW c \in Clients, NEW f \in Filters, Subscribe(c, f) PROVE IInv'
  <2> DEFINE n == Len(subscriptions)
             s0 == [client |-> c, filter |-> f]
  <2>1. /\ n \in Nat /\ s0 \in [client : Clients, filter : Filters]
        /\ subscriptions \in Seq([client : Clients, filter : Filters])
        /\ heard \in Seq(Seq(Messages)) /\ Len(heard) = n
        /\ DOMAIN subscriptions = 1..n /\ DOMAIN heard = 1..n
    BY DEF BrokerTypeOK
  <2>2. /\ subscriptions' = Append(subscriptions, s0) /\ heard' = Append(heard, <<>>)
        /\ \E allowed \in MaySubscribe(c) : filterCovers(allowed, f)
    BY <1>2 DEF Subscribe
  <2>3. /\ DOMAIN subscriptions' = 1..n+1 /\ DOMAIN heard' = 1..n+1
        /\ \A s \in 1..n : subscriptions'[s] = subscriptions[s] /\ heard'[s] = heard[s]
        /\ subscriptions'[n+1] = s0 /\ heard'[n+1] = <<>>
        /\ Len(subscriptions') = n+1 /\ Len(heard') = n+1
        /\ subscriptions' \in Seq([client : Clients, filter : Filters])
        /\ heard' \in Seq(Seq(Messages))
    <3> HIDE DEF s0
    <3> QED BY <2>1, <2>2
  <2>4. Begun \in Nat
    BY DEF BrokerTypeOK, WaitingWasPublished, Begun
  <2>5. BrokerTypeOK'
    <3>1. /\ joined \in Seq(Nat) /\ left \in Seq(Nat) /\ Len(joined) = n /\ Len(left) = n
      BY DEF BrokerTypeOK
    <3>2. joined' = Append(joined, Begun) /\ left' = Append(left, 0)
      BY <1>2 DEF Subscribe
    <3>3. /\ joined' \in Seq(Nat) /\ left' \in Seq(Nat)
          /\ Len(joined') = n+1 /\ Len(left') = n+1
      BY <2>1, <2>4, <3>1, <3>2, AppendProperties
    <3>4. /\ UNCHANGED <<connected, queue, draining, message, audience, running,
                         published>>
          /\ active' = active \cup {n + 1}
      BY <1>2 DEF Subscribe
    <3>5. 1..n \subseteq 1..n+1 /\ n+1 \in 1..n+1
      BY <2>1
    <3>6. active' \subseteq DOMAIN subscriptions' /\ audience' \subseteq DOMAIN subscriptions'
          /\ running' \in DOMAIN subscriptions' \cup {None}
      BY <2>1, <2>3, <3>4, <3>5 DEF BrokerTypeOK
    <3> QED
      BY <2>3, <3>3, <3>4, <3>6 DEF BrokerTypeOK
  <2>6. Covered'
    <3> SUFFICES ASSUME NEW s \in 1..n+1
                 PROVE \E allowed \in MaySubscribe(subscriptions'[s].client) :
                         filterCovers(allowed, subscriptions'[s].filter)
      BY <2>3 DEF Covered, filterCovers
    <3>1. CASE s \in 1..n
      BY <2>1, <2>3, <3>1 DEF Covered
    <3>2. CASE s = n+1
      <4>1. subscriptions'[s].client = c /\ subscriptions'[s].filter = f
        BY <2>3, <3>2
      <4> QED
        BY <2>2, <4>1
    <3> QED
      BY <2>1, <3>1, <3>2
  <2>7. PermittedOnly' /\ AudienceMatches'
    BY <1>2, <2>1, <2>3 DEF Subscribe, PermittedOnly, Permitted, AudienceMatches, BrokerTypeOK
  <2>8. RulesAreKept'
    <3> SUFFICES ASSUME NEW s \in 1..n+1, NEW k \in DOMAIN heard'[s]
                 PROVE  /\ \E allowed \in MaySubscribe(subscriptions'[s].client) :
                              topicMatches(allowed, heard'[s][k].topic)
                        /\ \E allowed \in MayPublish(heard'[s][k].by) :
                              topicMatches(allowed, heard'[s][k].topic)
      BY <2>3 DEF RulesAreKept, topicMatches
    <3>1. CASE s \in 1..n
      BY <2>1, <2>3, <3>1 DEF RulesAreKept
    <3>2. CASE s = n+1
      BY <2>3, <3>2
    <3> QED
      BY <2>1, <3>1, <3>2
  <2>9. WaitingWasPublished'
    BY <1>2 DEF Subscribe, WaitingWasPublished
  <2> QED
    BY <2>5, <2>6, <2>7, <2>8, <2>9
<1>3. ASSUME NEW ended, Deactivate(ended), connected' \in SUBSET connected,
             UNCHANGED <<subscriptions, queue, draining, message, audience, running,
                         published, heard, joined>>
      PROVE  IInv'
  <2>1. BrokerTypeOK'
    BY <1>3, DeactivateKeeps DEF BrokerTypeOK
  <2> QED
    BY <1>3, <2>1 DEF Covered, PermittedOnly, Permitted, AudienceMatches, RulesAreKept,
                      WaitingWasPublished
<1>4. CASE \E c \in Clients : Disconnect(c)
  BY <1>3, <1>4 DEF Disconnect
<1>5. CASE \E s \in DOMAIN subscriptions : Unsubscribe(s)
  BY <1>3, <1>5 DEF Unsubscribe
<1> QED
  BY <1>1, <1>2, <1>4, <1>5

\* The drain's own steps.
LEMMA DrainKeepsIInv ==
    ASSUME IInv, \/ Take \/ Finish \/ Idle
                 \/ \E s \in DOMAIN subscriptions : Call(s)
    PROVE  IInv'
<1> USE DEF IInv
<1>1. CASE Take
  <2>1. /\ Head(queue) \in Messages /\ Tail(queue) \in Seq(Messages)
        /\ Len(Tail(queue)) = Len(queue) - 1 /\ Len(queue) \in Nat /\ Len(queue) # 0
        /\ DOMAIN queue = 1..Len(queue) /\ DOMAIN Tail(queue) = 1..Len(queue)-1
        /\ Head(queue) = queue[1]
        /\ \A n \in 1..Len(queue)-1 : Tail(queue)[n] = queue[n+1]
    BY <1>1, HeadTailProperties DEF Take, BrokerTypeOK
  <2>2. /\ message' = Head(queue) /\ queue' = Tail(queue) /\ audience' \subseteq active
        /\ \A s \in audience' : topicMatches(subscriptions[s].filter, Head(queue).topic)
        /\ UNCHANGED <<connected, subscriptions, active, draining, running, published,
                       heard, joined, left>>
        /\ draining
    BY <1>1 DEF Take
  <2>3. BrokerTypeOK'
    <3>1. Head(queue) # None
      BY <2>1, BrokerAssumption
    <3> QED
      BY <2>1, <2>2, <3>1 DEF BrokerTypeOK
  <2>4. PermittedOnly'
    <3>1. \A n \in 1..Len(queue) : Permitted(queue[n])
      BY <2>1 DEF PermittedOnly
    <3>2. Permitted(message') /\ \A n \in DOMAIN queue' : Permitted(queue'[n])
      BY <2>1, <2>2, <3>1
    <3> QED
      BY <3>2 DEF PermittedOnly, Permitted
  <2>5. AudienceMatches'
    BY <2>2 DEF AudienceMatches
  <2>6. Covered' /\ RulesAreKept'
    BY <2>2 DEF Covered, RulesAreKept
  <2>7. WaitingWasPublished'
    BY <2>1, <2>2 DEF WaitingWasPublished, BrokerTypeOK
  <2> QED
    BY <2>3, <2>4, <2>5, <2>6, <2>7
<1>2. ASSUME NEW s \in DOMAIN subscriptions, Call(s) PROVE IInv'
  <2>1. /\ audience' = audience \ {s} /\ s \in audience
        /\ UNCHANGED <<connected, subscriptions, active, queue, draining, message,
                       published, joined, left>>
        /\ draining
    BY <1>2 DEF Call, ComesNext
  <2>2. message \in Messages
    BY <2>1 DEF BrokerTypeOK
  <2>3. CASE UNCHANGED <<running, heard>>
    BY <2>1, <2>3 DEF BrokerTypeOK, Covered, PermittedOnly, Permitted,
                      AudienceMatches, RulesAreKept, WaitingWasPublished
  <2>4. CASE running' = s /\ heard' = [heard EXCEPT ![s] = Append(@, message)]
    <3>1. /\ heard \in Seq(Seq(Messages)) /\ s \in 1..Len(heard)
          /\ DOMAIN heard = 1..Len(heard) /\ heard[s] \in Seq(Messages)
          /\ DOMAIN subscriptions = DOMAIN heard
      BY DEF BrokerTypeOK
    <3> DEFINE longer == Append(heard[s], message)
    <3>2. /\ longer \in Seq(Messages) /\ DOMAIN longer = 1..Len(heard[s]) + 1
          /\ Len(heard[s]) \in Nat /\ DOMAIN heard[s] = 1..Len(heard[s])
          /\ \A n \in 1..Len(heard[s]) : longer[n] = heard[s][n]
          /\ longer[Len(heard[s]) + 1] = message
      BY <2>2, <3>1, AppendProperties
    <3>3. heard' = [heard EXCEPT ![s] = longer]
      BY <2>4
    <3> HIDE DEF longer
    <3>4. /\ heard' \in Seq(Seq(Messages)) /\ Len(heard') = Len(heard)
          /\ DOMAIN heard' = DOMAIN heard
          /\ heard'[s] = longer
          /\ \A r \in DOMAIN heard : r # s => heard'[r] = heard[r]
      BY <3>1, <3>2, <3>3, ExceptSeq
    <3>5. BrokerTypeOK'
      BY <2>1, <2>2, <2>4, <3>1, <3>4, BrokerAssumption DEF BrokerTypeOK
    <3>6. /\ \E allowed \in MaySubscribe(subscriptions[s].client) :
                topicMatches(allowed, message.topic)
          /\ \E allowed \in MayPublish(message.by) : topicMatches(allowed, message.topic)
      <4>1. /\ subscriptions[s].client \in Clients /\ subscriptions[s].filter \in Words
            /\ message.topic \in Words
        <5>1. subscriptions[s] \in [client : Clients, filter : Filters]
          <6>1. /\ subscriptions \in Seq([client : Clients, filter : Filters])
                /\ s \in DOMAIN subscriptions
            BY <1>2 DEF BrokerTypeOK
          <6> QED
            BY <6>1, LenProperties, ElementOfSeq
        <5>2. message.topic \in Topics
          BY <2>2 DEF Messages
        <5>3. Topics \subseteq Words /\ Filters \subseteq Words
          BY BrokerAssumption
        <5> QED
          BY <5>1, <5>2, <5>3
      <4>2. PICK allowed \in MaySubscribe(subscriptions[s].client) :
                    filterCovers(allowed, subscriptions[s].filter)
        BY DEF Covered
      <4>3. allowed \in Words
        BY <4>1, <4>2, BrokerAssumption
      <4>4. topicMatches(subscriptions[s].filter, message.topic)
        BY <2>1 DEF AudienceMatches
      <4>5. topicMatches(allowed, message.topic)
        BY <4>1, <4>2, <4>3, <4>4, CoveringIsSound
      <4>6. message # None
        BY <2>2, BrokerAssumption
      <4> QED
        BY <4>2, <4>5, <4>6 DEF PermittedOnly, Permitted
    <3>7. RulesAreKept'
      <4> SUFFICES ASSUME NEW r \in DOMAIN heard, NEW n \in DOMAIN heard'[r]
                   PROVE  /\ \E allowed \in MaySubscribe(subscriptions[r].client) :
                                topicMatches(allowed, heard'[r][n].topic)
                          /\ \E allowed \in MayPublish(heard'[r][n].by) :
                                topicMatches(allowed, heard'[r][n].topic)
        BY <2>1, <3>1, <3>4 DEF RulesAreKept, topicMatches
      <4>1. CASE r # s \/ n \in DOMAIN heard[s]
        BY <3>1, <3>2, <3>4, <4>1 DEF RulesAreKept
      <4>2. CASE r = s /\ n = Len(heard[s]) + 1
        BY <3>2, <3>4, <3>6, <4>2
      <4> QED
        BY <3>2, <3>4, <4>1, <4>2
    <3> QED
      BY <2>1, <3>5, <3>7 DEF Covered, PermittedOnly, Permitted, AudienceMatches,
                              WaitingWasPublished
  <2> QED
    BY <1>2, <2>3, <2>4 DEF Call
<1>3. CASE Finish \/ Idle
  BY <1>3 DEF Finish, Idle, BrokerTypeOK, Covered, PermittedOnly, Permitted,
              AudienceMatches, RulesAreKept, WaitingWasPublished
<1> QED
  BY <1>1, <1>2, <1>3

\* The inductive invariant: what waits, is delivered or has been heard passed the rules
\* (broker.ts:66-75).
THEOREM BrokerInvariance == Spec => []IInv
<1>1. IInv /\ [Next]_vars => IInv'
  <2>1. ASSUME IInv, Next PROVE IInv'
    <3>1. \/ \/ \E c \in Clients : \/ \E t \in Topics : Publish(c, t)
                                   \/ \E f \in Filters : Subscribe(c, f)
                                   \/ Disconnect(c)
             \/ \E s \in DOMAIN subscriptions : Unsubscribe(s)
          \/ \/ Take \/ Finish \/ Idle
             \/ \E s \in DOMAIN subscriptions : Call(s)
      BY <2>1 DEF Next
    <3>2. CASE \/ \E c \in Clients : \/ \E t \in Topics : Publish(c, t)
                                     \/ \E f \in Filters : Subscribe(c, f)
                                     \/ Disconnect(c)
               \/ \E s \in DOMAIN subscriptions : Unsubscribe(s)
      BY <2>1, <3>2, CallsKeepIInv
    <3>3. CASE \/ Take \/ Finish \/ Idle
               \/ \E s \in DOMAIN subscriptions : Call(s)
      BY <2>1, <3>3, DrainKeepsIInv
    <3> QED
      BY <3>1, <3>2, <3>3
  <2>2. ASSUME IInv, UNCHANGED vars PROVE IInv'
    BY <2>2 DEF vars, state, IInv, BrokerTypeOK, Covered, PermittedOnly, Permitted,
                AudienceMatches, RulesAreKept, WaitingWasPublished
  <2> QED
    BY <2>1, <2>2
<1> QED
  BY InitIInv, <1>1, PTL DEF Spec

\* The types of the broker's fields, for every set of clients, rules and topics
\* (broker.ts:38-43).
THEOREM BrokerTypeCorrect == Spec => []BrokerTypeOK
  BY BrokerInvariance, PTL DEF IInv

\* Default deny, for every table of rules (broker.ts:66-75, 120-133).
THEOREM RulesAlwaysKept == Spec => []RulesAreKept
  BY BrokerInvariance, PTL DEF IInv

-----------------------------------------------------------------------------
(* The order.  A turn is a place in what was published; the message being  *)
(* delivered has the last turn that has come, and what waits has the next. *)

Turns ==
    /\ \A n \in DOMAIN queue : queue[n] = published[Begun + n]
    /\ message # None => Begun >= 1 /\ message = published[Begun]
    /\ \A s \in DOMAIN subscriptions : joined[s] <= Begun
    /\ \A s \in audience : joined[s] < Begun

\* What a subscription that stands has not heard is the message under delivery, and
\* then it is still in its audience.
HeardSoFar(s, at) ==
    /\ HeardAt(s, at)
    /\ s \in active => \A p \in Owed(s) : \/ p = Begun /\ s \in audience
                                          \/ \E n \in DOMAIN heard[s] : at[n] = p
    /\ s \in audience => \A n \in DOMAIN heard[s] : at[n] # Begun

Delivered(s) ==
    /\ \E at \in [DOMAIN heard[s] -> Owed(s)] : HeardSoFar(s, at)
    /\ s \notin active => Len(heard[s]) = left[s]

OrderInv == IInv /\ Turns /\ \A s \in DOMAIN subscriptions : Delivered(s)

\* Numbers and domains.
LEMMA BrokerFacts ==
    ASSUME IInv
    PROVE  /\ Begun \in Nat /\ Len(queue) \in Nat /\ Len(published) \in Nat
           /\ Begun + Len(queue) = Len(published)
           /\ queue \in Seq(Messages) /\ published \in Seq(Messages)
           /\ DOMAIN subscriptions = 1..Len(subscriptions) /\ Len(subscriptions) \in Nat
           /\ DOMAIN heard = DOMAIN subscriptions /\ DOMAIN left = DOMAIN subscriptions
           /\ DOMAIN joined = DOMAIN subscriptions
           /\ Len(joined) = Len(subscriptions)
           /\ \A s \in DOMAIN subscriptions :
                 /\ joined[s] \in Nat /\ heard[s] \in Seq(Messages)
                 /\ Len(heard[s]) \in Nat /\ DOMAIN heard[s] = 1..Len(heard[s])
           /\ active \subseteq DOMAIN subscriptions
           /\ audience \subseteq DOMAIN subscriptions
<1>1. /\ subscriptions \in Seq([client : Clients, filter : Filters])
      /\ heard \in Seq(Seq(Messages)) /\ Len(heard) = Len(subscriptions)
      /\ joined \in Seq(Nat) /\ Len(joined) = Len(subscriptions)
      /\ left \in Seq(Nat) /\ Len(left) = Len(subscriptions)
      /\ queue \in Seq(Messages) /\ published \in Seq(Messages)
      /\ active \subseteq DOMAIN subscriptions /\ audience \subseteq DOMAIN subscriptions
  BY DEF IInv, BrokerTypeOK
<1>2. /\ Len(queue) \in Nat /\ Len(published) \in Nat /\ Len(queue) <= Len(published)
      /\ Len(subscriptions) \in Nat
  BY <1>1 DEF IInv, WaitingWasPublished
<1>3. Begun \in Nat /\ Begun + Len(queue) = Len(published)
  BY <1>2 DEF Begun
<1>4. /\ DOMAIN subscriptions = 1..Len(subscriptions)
      /\ DOMAIN heard = 1..Len(subscriptions) /\ DOMAIN left = 1..Len(subscriptions)
      /\ DOMAIN joined = 1..Len(subscriptions)
  BY <1>1, LenProperties
<1>5. \A s \in 1..Len(subscriptions) :
         joined[s] \in Nat /\ heard[s] \in Seq(Messages)
  BY <1>1, ElementOfSeq
<1>6. \A s \in 1..Len(subscriptions) :
         Len(heard[s]) \in Nat /\ DOMAIN heard[s] = 1..Len(heard[s])
  BY <1>5, LenProperties
<1> QED
  BY <1>1, <1>2, <1>3, <1>4, <1>5, <1>6

\* What is owed, with what it is read from named.
OwedOf(filter, from, to, log) ==
    {p \in from + 1..to : topicMatches(filter, log[p].topic)}

\* What a subscription is owed, so named, in this state and in the next.
LEMMA OwedReads ==
    /\ \A s : Owed(s) = OwedOf(subscriptions[s].filter, joined[s], Begun, published)
    /\ \A s : Owed(s)' = OwedOf(subscriptions'[s].filter, joined'[s], Begun', published')
  BY DEF Owed, OwedOf, topicMatches

\* A log that goes on owes what it owed.
LEMMA OwedStays ==
    ASSUME NEW f, NEW from \in Nat, NEW to \in Nat, NEW log, NEW longer,
           \A p \in 1..to : longer[p] = log[p]
    PROVE  OwedOf(f, from, to, longer) = OwedOf(f, from, to, log)
<1>1. \A p \in from + 1..to : p \in 1..to
  OBVIOUS
<1> QED
  BY <1>1 DEF OwedOf

\* A subscription that hears nothing goes on having heard what it is owed.
LEMMA StillDelivered ==
    ASSUME OrderInv, NEW s \in DOMAIN subscriptions,
           Begun' = Begun, Owed(s)' = Owed(s), heard'[s] = heard[s],
           \A p \in 1..Begun : published'[p] = published[p],
           s \in active' => s \in active, s \in audience' => s \in audience,
           s \in active' /\ s \in audience => s \in audience',
           s \notin active' => Len(heard[s]) = left'[s]
    PROVE  Delivered(s)'
<1>1. PICK at \in [DOMAIN heard[s] -> Owed(s)] : HeardSoFar(s, at)
  BY DEF OrderInv, Delivered
<1>2. \A n \in DOMAIN heard[s] : at[n] \in 1..Begun
  <2>1. joined[s] \in Nat /\ Begun \in Nat
    BY BrokerFacts DEF OrderInv
  <2>2. Owed(s) \subseteq 1..Begun
    BY <2>1 DEF Owed
  <2> QED
    BY <1>1, <2>2
<1>3. HeardAt(s, at)'
  BY <1>1, <1>2 DEF HeardSoFar, HeardAt
<1>4. s \in active' => \A p \in Owed(s)' : \/ p = Begun' /\ s \in audience'
                                           \/ \E n \in DOMAIN heard'[s] : at[n] = p
  BY <1>1 DEF HeardSoFar
<1>5. s \in audience' => \A n \in DOMAIN heard'[s] : at[n] # Begun'
  BY <1>1 DEF HeardSoFar
<1> QED
  BY <1>1, <1>3, <1>4, <1>5 DEF Delivered, HeardSoFar

\* What is published waits its turn.
LEMMA PublishOrdered ==
    ASSUME OrderInv, NEW c \in Clients, NEW t \in Topics, Publish(c, t)
    PROVE  Turns' /\ \A s \in DOMAIN subscriptions' : Delivered(s)'
<1> DEFINE m == [topic |-> t, by |-> c]
<1>1. /\ queue' = Append(queue, m) /\ published' = Append(published, m)
      /\ m \in Messages
      /\ UNCHANGED <<subscriptions, active, message, audience, heard, joined, left>>
  BY DEF Publish, Messages
<1> HIDE DEF m
<1>2. /\ Begun \in Nat /\ Len(queue) \in Nat /\ Len(published) \in Nat
      /\ Begun + Len(queue) = Len(published)
      /\ queue \in Seq(Messages) /\ published \in Seq(Messages)
      /\ \A s \in DOMAIN subscriptions : joined[s] \in Nat
  BY BrokerFacts DEF OrderInv
<1>3. /\ Len(queue') = Len(queue) + 1 /\ Len(published') = Len(published) + 1
      /\ DOMAIN queue' = 1..Len(queue) + 1 /\ DOMAIN queue = 1..Len(queue)
      /\ \A n \in 1..Len(queue) : queue'[n] = queue[n]
      /\ \A n \in 1..Len(published) : published'[n] = published[n]
      /\ queue'[Len(queue) + 1] = m /\ published'[Len(published) + 1] = m
  BY <1>1, <1>2, AppendProperties
<1>4. Begun' = Begun
  BY <1>2, <1>3 DEF Begun
<1>5. \A p \in 1..Begun : published'[p] = published[p]
  BY <1>2, <1>3
<1>6. Turns'
  <2>1. ASSUME NEW n \in DOMAIN queue' PROVE queue'[n] = published'[Begun + n]
    <3>1. CASE n \in 1..Len(queue)
      <4>1. queue[n] = published[Begun + n] /\ Begun + n \in 1..Len(published)
        BY <1>2, <1>3, <3>1 DEF OrderInv, Turns
      <4> QED
        BY <1>3, <3>1, <4>1
    <3>2. CASE n = Len(queue) + 1
      <4>1. Begun + n = Len(published) + 1
        BY <1>2, <3>2
      <4> QED
        BY <1>3, <3>2, <4>1
    <3> QED
      BY <1>2, <1>3, <3>1, <3>2
  <2>2. message # None => Begun >= 1 /\ message = published'[Begun]
    BY <1>2, <1>5 DEF OrderInv, Turns
  <2> QED
    BY <1>1, <1>4, <2>1, <2>2 DEF OrderInv, Turns
<1>7. ASSUME NEW s \in DOMAIN subscriptions PROVE Delivered(s)'
  <2>1. Owed(s)' = Owed(s)
    <3>1. /\ Owed(s) = OwedOf(subscriptions[s].filter, joined[s], Begun, published)
          /\ Owed(s)' = OwedOf(subscriptions[s].filter, joined[s], Begun, published')
      BY <1>1, <1>4, OwedReads
    <3>2. OwedOf(subscriptions[s].filter, joined[s], Begun, published')
             = OwedOf(subscriptions[s].filter, joined[s], Begun, published)
      BY <1>2, <1>5, OwedStays
    <3> QED
      BY <3>1, <3>2
  <2>2. s \notin active => Len(heard[s]) = left[s]
    BY DEF OrderInv, Delivered
  <2> QED
    BY <1>1, <1>4, <1>5, <2>1, <2>2, StillDelivered
<1> QED
  BY <1>1, <1>6, <1>7

\* A subscription starts with nothing heard and nothing owed.
LEMMA NewIsDelivered ==
    ASSUME NEW k, Begun' \in Nat, joined'[k] = Begun', heard'[k] = <<>>,
           k \in active', k \notin audience'
    PROVE  Delivered(k)'
<1>1. Owed(k)' = {}
  <2>1. Owed(k)' = OwedOf(subscriptions'[k].filter, Begun', Begun', published')
    BY OwedReads
  <2>2. ~ \E p \in (Begun' + 1)..Begun' : TRUE
    OBVIOUS
  <2> QED
    BY <2>1, <2>2 DEF OwedOf
<1>2. DOMAIN heard'[k] = {}
  OBVIOUS
<1> DEFINE at == [x \in {} |-> x]
<1>3. at \in [DOMAIN heard'[k] -> Owed(k)']
  BY <1>1, <1>2
<1> HIDE DEF at
<1>4. HeardSoFar(k, at)'
  BY <1>1, <1>2 DEF HeardSoFar, HeardAt
<1> QED
  BY <1>3, <1>4 DEF Delivered

\* A new subscription is owed nothing yet.
LEMMA SubscribeOrdered ==
    ASSUME OrderInv, NEW c \in Clients, NEW f \in Filters, Subscribe(c, f)
    PROVE  Turns' /\ \A s \in DOMAIN subscriptions' : Delivered(s)'
<1>0. PICK n : n = Len(subscriptions)
  OBVIOUS
<1> DEFINE s0 == [client |-> c, filter |-> f]
<1>1. /\ subscriptions' = Append(subscriptions, s0) /\ heard' = Append(heard, <<>>)
      /\ joined' = Append(joined, Begun) /\ left' = Append(left, 0)
      /\ active' = active \cup {n + 1}
      /\ UNCHANGED <<queue, published, draining, message, audience>>
  BY <1>0 DEF Subscribe
<1>2. /\ n \in Nat /\ Begun \in Nat /\ DOMAIN subscriptions = 1..n
      /\ DOMAIN heard = 1..n /\ DOMAIN joined = 1..n /\ DOMAIN left = 1..n
      /\ active \subseteq 1..n /\ audience \subseteq 1..n
      /\ \A s \in 1..n : joined[s] \in Nat
  BY <1>0, BrokerFacts DEF OrderInv
<1>3. /\ subscriptions \in Seq([client : Clients, filter : Filters])
      /\ heard \in Seq(Seq(Messages)) /\ joined \in Seq(Nat) /\ left \in Seq(Nat)
      /\ Len(heard) = n /\ Len(joined) = n /\ Len(left) = n /\ Len(subscriptions) = n
      /\ n \in Nat
      /\ s0 \in [client : Clients, filter : Filters] /\ <<>> \in Seq(Messages)
  BY <1>0, BrokerFacts DEF OrderInv, IInv, BrokerTypeOK
<1> HIDE DEF s0
<1>4. /\ DOMAIN subscriptions' = 1..n + 1
      /\ \A s \in 1..n : subscriptions'[s] = subscriptions[s]
  BY <1>1, <1>3, AppendProperties
<1>5. /\ heard'[n + 1] = <<>> /\ \A s \in 1..n : heard'[s] = heard[s]
  BY <1>1, <1>3, AppendProperties
<1>6. /\ joined'[n + 1] = Begun /\ \A s \in 1..n : joined'[s] = joined[s]
  BY <1>1, <1>2, <1>3, AppendProperties
<1>7. \A s \in 1..n : left'[s] = left[s]
  BY <1>1, <1>3, AppendProperties
<1>8. Begun' = Begun
  BY <1>1 DEF Begun
<1>9. n + 1 \notin 1..n /\ n + 1 \in 1..n + 1 /\ \A s \in 1..n + 1 : s \in 1..n \/ s = n + 1
  BY <1>2
<1>10. Turns'
  <2>1. \A s \in 1..n + 1 : joined'[s] <= Begun
    BY <1>2, <1>6, <1>9 DEF OrderInv, Turns
  <2>2. \A s \in audience : joined'[s] < Begun
    BY <1>2, <1>6 DEF OrderInv, Turns
  <2> QED
    BY <1>1, <1>4, <1>8, <2>1, <2>2 DEF OrderInv, Turns
<1>11. ASSUME NEW s \in 1..n PROVE Delivered(s)'
  <2>1. Owed(s)' = Owed(s)
    BY <1>1, <1>4, <1>6, <1>8, OwedReads
  <2>2. s \notin active => Len(heard[s]) = left[s]
    BY <1>2 DEF OrderInv, Delivered
  <2>3. s \in active' => s \in active
    BY <1>1, <1>9
  <2>4. s \notin active' => Len(heard[s]) = left'[s]
    BY <1>1, <1>7, <2>2
  <2> QED
    BY <1>1, <1>2, <1>5, <1>8, <2>1, <2>3, <2>4, StillDelivered
<1>12. Delivered(n + 1)'
  <2>1. n + 1 \in active' /\ n + 1 \notin audience'
    BY <1>1, <1>2, <1>9
  <2> QED
    BY <1>2, <1>5, <1>6, <1>8, <2>1, NewIsDelivered
<1>13. \A s \in 1..n + 1 : Delivered(s)'
  BY <1>9, <1>11, <1>12
<1> QED
  BY <1>4, <1>10, <1>13

\* What is ended is owed nothing more.
LEMMA EndingOrdered ==
    ASSUME OrderInv, NEW ended, Deactivate(ended),
           UNCHANGED <<subscriptions, queue, message, audience, published, heard, joined>>
    PROVE  Turns' /\ \A s \in DOMAIN subscriptions' : Delivered(s)'
<1>1. /\ active' = active \ ended
      /\ left' = [s \in DOMAIN left |->
                     IF s \in ended \cap active THEN Len(heard[s]) ELSE left[s]]
      /\ Begun' = Begun
  BY DEF Deactivate, Begun
<1>2. Turns'
  BY <1>1 DEF OrderInv, Turns
<1>3. ASSUME NEW s \in DOMAIN subscriptions PROVE Delivered(s)'
  <2>1. Owed(s)' = Owed(s)
    BY <1>1, OwedReads
  <2>2. s \in DOMAIN left
    BY BrokerFacts DEF OrderInv
  <2>3. s \notin active => Len(heard[s]) = left[s]
    BY DEF OrderInv, Delivered
  <2>4. s \notin active' => Len(heard[s]) = left'[s]
    BY <1>1, <2>2, <2>3
  <2> QED
    BY <1>1, <2>1, <2>4, StillDelivered
<1> QED
  BY <1>2, <1>3

\* A turn: what stands and matches is owed the message, and is its audience.
LEMMA TakeOrdered ==
    ASSUME OrderInv, Take
    PROVE  Turns' /\ \A s \in DOMAIN subscriptions' : Delivered(s)'
<1> DEFINE c == Begun + 1
<1>1. /\ audience = {} /\ queue # <<>> /\ queue' = Tail(queue) /\ message' = Head(queue)
      /\ audience' = {s \in active :
                        topicMatches(subscriptions[s].filter, Head(queue).topic)}
      /\ UNCHANGED <<subscriptions, active, published, heard, joined, left>>
  BY DEF Take
<1>2. /\ Begun \in Nat /\ Len(queue) \in Nat /\ Len(published) \in Nat
      /\ Begun + Len(queue) = Len(published) /\ queue \in Seq(Messages)
      /\ active \subseteq DOMAIN subscriptions
      /\ \A s \in DOMAIN subscriptions : joined[s] \in Nat
  BY BrokerFacts DEF OrderInv
<1>3. /\ Head(queue) = queue[1] /\ Len(Tail(queue)) = Len(queue) - 1 /\ Len(queue) # 0
      /\ DOMAIN queue = 1..Len(queue) /\ DOMAIN Tail(queue) = 1..Len(queue) - 1
      /\ \A n \in 1..Len(queue) - 1 : Tail(queue)[n] = queue[n + 1]
  BY <1>1, <1>2, HeadTailProperties
<1>4. Begun' = c /\ c \in Nat
  BY <1>1, <1>2, <1>3 DEF Begun
<1>5. Head(queue) = published[c]
  <2>1. 1 \in DOMAIN queue
    BY <1>2, <1>3
  <2> QED
    BY <1>3, <2>1 DEF OrderInv, Turns
<1>6. Turns'
  <2>1. ASSUME NEW n \in 1..Len(queue) - 1 PROVE Tail(queue)[n] = published[c + n]
    <3>1. n + 1 \in 1..Len(queue) /\ Begun + (n + 1) = c + n
      BY <1>2
    <3>2. queue[n + 1] = published[Begun + (n + 1)]
      BY <1>3, <3>1 DEF OrderInv, Turns
    <3> QED
      BY <1>3, <3>1, <3>2
  <2>2. \A s \in DOMAIN subscriptions : joined[s] <= Begun
    BY DEF OrderInv, Turns
  <2>3. \A s \in DOMAIN subscriptions : joined[s] <= c /\ joined[s] < c
    BY <1>2, <2>2
  <2>4. \A s \in audience' : s \in DOMAIN subscriptions
    BY <1>1, <1>2
  <2>5. c >= 1
    BY <1>2
  <2> HIDE DEF c
  <2> QED
    BY <1>1, <1>3, <1>4, <1>5, <2>1, <2>3, <2>4, <2>5 DEF Turns
<1>7. ASSUME NEW s \in DOMAIN subscriptions PROVE Delivered(s)'
  <2> DEFINE f == subscriptions[s].filter
  <2>1. PICK at \in [DOMAIN heard[s] -> Owed(s)] : HeardSoFar(s, at)
    BY DEF OrderInv, Delivered
  <2>2. /\ Owed(s) = OwedOf(f, joined[s], Begun, published)
        /\ Owed(s)' = OwedOf(f, joined[s], c, published)
    BY <1>1, <1>4, OwedReads
  <2>3. /\ Owed(s) \subseteq 1..Begun
        /\ Owed(s) \subseteq Owed(s)'
        /\ \A p \in Owed(s)' : p \in Owed(s) \/ p = c
    <3>1. joined[s] \in Nat /\ joined[s] <= Begun
      BY <1>2 DEF OrderInv, Turns
    <3>2. /\ joined[s] + 1..Begun \subseteq 1..Begun
          /\ joined[s] + 1..Begun \subseteq joined[s] + 1..c
          /\ \A p \in joined[s] + 1..c : p \in joined[s] + 1..Begun \/ p = c
      BY <1>2, <3>1
    <3> QED
      BY <2>2, <3>2 DEF OwedOf
  <2>4. c \in Owed(s)' => topicMatches(f, published[c].topic)
    BY <2>2 DEF OwedOf
  <2>5. \A n \in DOMAIN heard[s] : at[n] \in Owed(s) /\ at[n] \in Nat /\ at[n] < c
    <3>1. \A p \in 1..Begun : p \in Nat /\ p < c
      BY <1>2
    <3> QED
      BY <2>1, <2>3, <3>1
  <2> HIDE DEF f
  <2>6. HeardAt(s, at)'
    <3> SUFFICES ASSUME NEW n \in DOMAIN heard[s]
                 PROVE  /\ heard[s][n] = published[at[n]]
                        /\ \A p \in Owed(s)' : p < at[n] <=> \E m \in 1..n-1 : at[m] = p
      BY <1>1 DEF HeardAt
    <3>1. /\ heard[s][n] = published[at[n]]
          /\ \A p \in Owed(s) : p < at[n] <=> \E m \in 1..n-1 : at[m] = p
      BY <2>1 DEF HeardSoFar, HeardAt
    <3>2. ~(c < at[n])
      BY <1>4, <2>5
    <3>3. ~ \E m \in 1..n-1 : at[m] = c
      <4>1. \A m \in 1..n-1 : m \in DOMAIN heard[s]
        BY BrokerFacts DEF OrderInv
      <4>2. \A m \in DOMAIN heard[s] : at[m] # c
        BY <1>4, <2>5
      <4> QED
        BY <4>1, <4>2
    <3> QED
      BY <2>3, <3>1, <3>2, <3>3
  <2>7. s \in active => \A p \in Owed(s)' : \/ p = c /\ s \in audience'
                                            \/ \E n \in DOMAIN heard[s] : at[n] = p
    BY <1>1, <1>5, <2>1, <2>3, <2>4 DEF HeardSoFar, f
  <2>8. \A n \in DOMAIN heard[s] : at[n] # c
    BY <1>4, <2>5
  <2>9. HeardSoFar(s, at)'
    <3> HIDE DEF c
    <3> QED
      BY <1>1, <1>4, <2>6, <2>7, <2>8 DEF HeardSoFar
  <2>10. at \in [DOMAIN heard'[s] -> Owed(s)']
    BY <1>1, <2>1, <2>3
  <2>11. s \notin active' => Len(heard'[s]) = left'[s]
    BY <1>1 DEF OrderInv, Delivered
  <2> QED
    BY <2>9, <2>10, <2>11 DEF Delivered
<1> QED
  BY <1>1, <1>6, <1>7

\* Whoever comes next and still stands hears the message; one that was ended while
\* others heard it is passed over.
LEMMA CallOrdered ==
    ASSUME OrderInv, NEW r \in DOMAIN subscriptions, Call(r)
    PROVE  Turns' /\ \A s \in DOMAIN subscriptions' : Delivered(s)'
<1>1. /\ r \in audience /\ audience' = audience \ {r}
      /\ \/ r \in active /\ heard' = [heard EXCEPT ![r] = Append(@, message)]
         \/ r \notin active /\ heard' = heard
      /\ UNCHANGED <<subscriptions, active, queue, message, published, joined, left>>
      /\ Begun' = Begun
  BY DEF Call, ComesNext, Begun
<1>2. /\ Begun \in Nat /\ DOMAIN heard = DOMAIN subscriptions
      /\ joined[r] \in Nat /\ heard[r] \in Seq(Messages)
      /\ Len(heard[r]) \in Nat /\ DOMAIN heard[r] = 1..Len(heard[r])
  BY BrokerFacts DEF OrderInv
<1>3. Turns'
  BY <1>1 DEF OrderInv, Turns
<1>4. \A s \in DOMAIN subscriptions : Owed(s)' = Owed(s)
  BY <1>1, OwedReads
<1>5. \A s \in DOMAIN subscriptions : s \notin active => Len(heard[s]) = left[s]
  BY DEF OrderInv, Delivered
<1>6. ASSUME NEW s \in DOMAIN subscriptions, s # r \/ r \notin active
      PROVE  Delivered(s)'
  <2>1. heard'[s] = heard[s]
    BY <1>1, <1>2, <1>6
  <2>2. s \in active' /\ s \in audience => s \in audience'
    BY <1>1, <1>6
  <2> QED
    BY <1>1, <1>4, <1>5, <2>1, <2>2, StillDelivered
<1>7. CASE r \in active
  <2>1. message \in Messages /\ message = published[Begun] /\ Begun >= 1
    <3>1. message # None /\ message \in Messages \cup {None}
      BY <1>1 DEF OrderInv, IInv, BrokerTypeOK
    <3> QED
      BY <3>1 DEF OrderInv, Turns
  <2>2. PICK at \in [DOMAIN heard[r] -> Owed(r)] : HeardSoFar(r, at)
    BY DEF OrderInv, Delivered
  <2>3. PICK k : k = Len(heard[r])
    OBVIOUS
  <2>4. /\ k \in Nat /\ DOMAIN heard[r] = 1..k
        /\ k + 1 \notin 1..k /\ 1..(k + 1) - 1 = 1..k
        /\ \A n \in 1..k + 1 : n \in 1..k \/ n = k + 1
    BY <1>2, <2>3
  <2>5. /\ DOMAIN heard'[r] = 1..k + 1
        /\ \A n \in 1..k : heard'[r][n] = heard[r][n]
        /\ heard'[r][k + 1] = message
    <3>1. heard'[r] = Append(heard[r], message)
      BY <1>1, <1>2, <1>7
    <3> QED
      BY <1>2, <2>1, <2>3, <3>1, AppendProperties
  <2>6. Begun \in Owed(r)
    <3>1. joined[r] < Begun
      BY <1>1 DEF OrderInv, Turns
    <3>2. Begun \in (joined[r] + 1)..Begun
      BY <1>2, <3>1
    <3>3. topicMatches(subscriptions[r].filter, published[Begun].topic)
      BY <1>1, <2>1 DEF OrderInv, IInv, AudienceMatches
    <3> QED
      BY <3>2, <3>3 DEF Owed
  <2>7. \A p \in Owed(r) : p \in Nat /\ p <= Begun
    BY <1>2 DEF Owed
  <2>8. /\ \A n \in 1..k : at[n] \in Owed(r) /\ at[n] # Begun
        /\ \A n \in 1..k : at[n] < Begun
    <3>1. \A n \in 1..k : at[n] \in Owed(r) /\ at[n] # Begun
      BY <1>1, <2>2, <2>4 DEF HeardSoFar
    <3> QED
      BY <1>2, <2>7, <3>1
  <2>9. \A p \in Owed(r) : p = Begun \/ \E n \in 1..k : at[n] = p
    BY <1>7, <2>2, <2>4 DEF HeardSoFar
  <2>10. PICK longer \in [1..k + 1 -> Owed(r)] :
            longer[k + 1] = Begun /\ \A n \in 1..k : longer[n] = at[n]
    <3> DEFINE l == [n \in 1..k + 1 |-> IF n = k + 1 THEN Begun ELSE at[n]]
    <3>1. /\ l[k + 1] = Begun /\ \A n \in 1..k : l[n] = at[n]
          /\ l \in [1..k + 1 -> Owed(r)]
      BY <2>4, <2>6, <2>8
    <3> HIDE DEF l
    <3> QED
      BY <3>1
  <2>11. HeardAt(r, longer)'
    <3> SUFFICES ASSUME NEW n \in 1..k + 1
                 PROVE  /\ heard'[r][n] = published[longer[n]]
                        /\ \A p \in Owed(r) :
                              p < longer[n] <=> \E m \in 1..n-1 : longer[m] = p
      BY <1>1, <1>4, <2>5 DEF HeardAt
    <3>1. CASE n \in 1..k
      <4>1. /\ heard[r][n] = published[at[n]]
            /\ \A p \in Owed(r) : p < at[n] <=> \E m \in 1..n-1 : at[m] = p
        BY <2>2, <2>4, <3>1 DEF HeardSoFar, HeardAt
      <4>2. \A m \in 1..n-1 : m \in 1..k
        BY <2>4, <3>1
      <4> QED
        BY <2>5, <2>10, <3>1, <4>1, <4>2
    <3>2. CASE n = k + 1
      <4>1. heard'[r][n] = published[longer[n]]
        BY <2>1, <2>5, <2>10, <3>2
      <4>2. ASSUME NEW p \in Owed(r)
            PROVE  p < Begun <=> \E m \in 1..k : longer[m] = p
        <5>1. p < Begun => \E m \in 1..k : longer[m] = p
          BY <1>2, <2>7, <2>9, <2>10
        <5>2. (\E m \in 1..k : longer[m] = p) => p < Begun
          BY <2>8, <2>10
        <5> QED
          BY <5>1, <5>2
      <4>3. longer[n] = Begun /\ 1..n-1 = 1..k
        BY <2>4, <2>10, <3>2
      <4> QED
        BY <4>1, <4>2, <4>3
    <3> QED
      BY <2>4, <3>1, <3>2
  <2>12. \A p \in Owed(r) : \E n \in 1..k + 1 : longer[n] = p
    BY <2>4, <2>9, <2>10
  <2>13. HeardSoFar(r, longer)'
    BY <1>1, <1>4, <2>5, <2>11, <2>12 DEF HeardSoFar
  <2>14. Delivered(r)'
    <3>1. longer \in [DOMAIN heard'[r] -> Owed(r)']
      BY <1>4, <2>5, <2>10
    <3>2. r \in active'
      BY <1>1, <1>7
    <3> QED
      BY <2>13, <3>1, <3>2 DEF Delivered
  <2> QED
    BY <1>1, <1>3, <1>6, <2>14
<1>8. CASE r \notin active
  BY <1>1, <1>3, <1>6, <1>8
<1> QED
  BY <1>7, <1>8

\* Every step keeps what each subscription has heard in order.
LEMMA StepsKeepOrder ==
    ASSUME OrderInv, IInv', [Next]_vars
    PROVE  OrderInv'
<1>1. ASSUME NEW c \in Clients, NEW t \in Topics, Publish(c, t) PROVE OrderInv'
  BY <1>1, PublishOrdered DEF OrderInv
<1>2. ASSUME NEW c \in Clients, NEW f \in Filters, Subscribe(c, f) PROVE OrderInv'
  BY <1>2, SubscribeOrdered DEF OrderInv
<1>3. ASSUME NEW c \in Clients, Disconnect(c) PROVE OrderInv'
  BY <1>3, EndingOrdered DEF OrderInv, Disconnect
<1>4. ASSUME NEW s \in DOMAIN subscriptions, Unsubscribe(s) PROVE OrderInv'
  BY <1>4, EndingOrdered DEF OrderInv, Unsubscribe
<1>5. ASSUME NEW s \in DOMAIN subscriptions, Call(s) PROVE OrderInv'
  BY <1>5, CallOrdered DEF OrderInv
<1>6. CASE Take
  BY <1>6, TakeOrdered DEF OrderInv
<1>7. CASE Finish \/ Idle \/ UNCHANGED vars
  <2>1. UNCHANGED <<subscriptions, active, queue, message, audience, published, heard,
                    joined, left>>
    BY <1>7 DEF Finish, Idle, vars, state
  <2>2. Begun' = Begun
    BY <2>1 DEF Begun
  <2>3. \A s \in DOMAIN subscriptions : Delivered(s)'
    <3> SUFFICES ASSUME NEW s \in DOMAIN subscriptions PROVE Delivered(s)'
      OBVIOUS
    <3>1. Owed(s)' = Owed(s)
      BY <2>1, <2>2, OwedReads
    <3>2. s \notin active => Len(heard[s]) = left[s]
      BY DEF OrderInv, Delivered
    <3> QED
      BY <2>1, <2>2, <3>1, <3>2, StillDelivered
  <2> QED
    BY <2>1, <2>2, <2>3 DEF OrderInv, Turns
<1> QED
  BY <1>1, <1>2, <1>3, <1>4, <1>5, <1>6, <1>7 DEF Next

\* The inductive invariant of the order: each subscription has heard, once each and in
\* order, the messages it matches whose turn has come, but for the one being delivered
\* while it waits to be called (broker.ts:88-113).
THEOREM OrderInvariance == Spec => []OrderInv
<1>1. Init /\ IInv => OrderInv
  <2> SUFFICES ASSUME Init, IInv PROVE OrderInv
    OBVIOUS
  <2>1. /\ DOMAIN subscriptions = {} /\ DOMAIN queue = {} /\ message = None
        /\ audience = {}
    BY DEF Init
  <2> QED
    BY <2>1 DEF OrderInv, Turns
<1>2. OrderInv /\ IInv' /\ [Next]_vars => OrderInv'
  BY StepsKeepOrder
<1> QED
  BY BrokerInvariance, <1>1, <1>2, PTL DEF Spec

\* Whatever handlers do in the middle of a drain, for any number of clients,
\* subscriptions and messages, each subscription hears what it is owed, once, in the
\* order it was published, and nothing after it was ended (broker.ts:88-113).
THEOREM EveryoneHearsInOrder == Spec => []HeardInOrder
<1>1. OrderInv => HeardInOrder
  <2> SUFFICES ASSUME OrderInv, NEW s \in DOMAIN subscriptions
               PROVE  /\ \E at \in [DOMAIN heard[s] -> Owed(s)] :
                            /\ HeardAt(s, at)
                            /\ s \in active /\ ~draining =>
                                  \A p \in Owed(s) : \E n \in DOMAIN heard[s] : at[n] = p
                      /\ s \notin active => Len(heard[s]) = left[s]
    BY DEF HeardInOrder
  <2>1. PICK at \in [DOMAIN heard[s] -> Owed(s)] : HeardSoFar(s, at)
    BY DEF OrderInv, Delivered
  <2>2. ~draining => s \notin audience
    BY DEF OrderInv, IInv, BrokerTypeOK
  <2>3. s \in active /\ ~draining =>
           \A p \in Owed(s) : \E n \in DOMAIN heard[s] : at[n] = p
    BY <2>1, <2>2 DEF HeardSoFar
  <2> QED
    BY <2>1, <2>3 DEF OrderInv, Delivered, HeardSoFar
<1> QED
  BY OrderInvariance, <1>1, PTL
=============================================================================
