------------------------- MODULE NotificationBus_proofs -------------------------
(* Theorems about NotificationBus, for any number of publishers and streams. *)
EXTENDS NotificationBus, TLAPS

HoldsLock == {"sending", "drain", "resend"}

\* The types the argument needs.
BusTypes ==
    /\ subs \in SUBSET Streams
    /\ closed \in SUBSET Streams
    /\ readers \in SUBSET Publishers
    /\ ppc \in [Publishers -> PublisherStates]
    /\ todo \in [Publishers -> SUBSET Streams]
    /\ target \in [Publishers -> Streams \cup {None}]
    /\ spc \in [Streams -> StreamStates]

\* The read lock is held exactly while a publisher visits subscribers, what it
\* visits is in the map, and what is in the map is open.
LockInv ==
    /\ BusTypes
    /\ \A p \in Publishers :
         /\ p \in readers <=> ppc[p] \in HoldsLock
         /\ p \notin readers => todo[p] = {} /\ target[p] = None
         /\ ppc[p] = "sending" => target[p] = None
         /\ todo[p] \subseteq subs
         /\ target[p] = None \/ target[p] \in subs
    /\ \A s \in closed : spc[s] = "gone"
    /\ \A s \in subs : spc[s] \in {"open", "handling", "unlock"}

\* The critical section of a writer sees no publisher, and lets in only publishers
\* that take their snapshot of the map it leaves.
LEMMA LockedPreserves ==
    ASSUME LockInv, NEW s \in Streams, NEW S \in SUBSET Streams, Locked(s, S)
    PROVE  /\ subs' = S /\ closed' = closed
           /\ readers' \in SUBSET Publishers
           /\ ppc' \in [Publishers -> PublisherStates]
           /\ todo' \in [Publishers -> SUBSET Streams]
           /\ target' \in [Publishers -> Streams \cup {None}]
           /\ \A p \in Publishers :
                /\ p \in readers' <=> ppc'[p] \in HoldsLock
                /\ p \notin readers' => todo'[p] = {} /\ target'[p] = None
                /\ todo'[p] \subseteq S
                /\ target'[p] = None
<1> USE DEF LockInv, BusTypes, PublisherStates, HoldsLock
<1>1. readers = {} /\ \A p \in Publishers : todo[p] = {} /\ target[p] = None
  BY DEF Locked
<1>2. \A ev : Visits(S, ev) \in SUBSET S
  BY DEF Visits
<1>3. ASSUME NEW p \in Publishers, ppc[p] = "blocked"
      PROVE  ppc'[p] = "sending" /\ p \in readers' /\ todo'[p] \in SUBSET S
  BY <1>2, <1>3 DEF Locked
<1>4. ASSUME NEW p \in Publishers, ppc[p] # "blocked"
      PROVE  ppc'[p] = "idle" /\ p \notin readers' /\ todo'[p] = {}
  BY <1>1, <1>4 DEF Locked
<1>5. /\ target' = target /\ subs' = S /\ closed' = closed /\ readers' \in SUBSET Publishers
      /\ DOMAIN ppc' = Publishers /\ DOMAIN todo' = Publishers
      /\ ppc' = [p \in Publishers |-> ppc'[p]] /\ todo' = [p \in Publishers |-> todo'[p]]
  BY DEF Locked
<1>6. QED
  BY <1>1, <1>3, <1>4, <1>5

\* Every step keeps the lock discipline.
LEMMA LockStep == ASSUME LockInv, [Next]_vars PROVE LockInv'
<1> USE ConstantsAssumption
<1> USE DEF LockInv, BusTypes, PublisherStates, StreamStates, HoldsLock, bus, mutex, publisher
<1>1. ASSUME NEW p \in Publishers, NEW to \in Destinations, Publish(p, to) PROVE LockInv'
  <2>1. \A ev : Visits(subs, ev) \in SUBSET subs
    BY DEF Visits
  <2>2. PICK ev : RLock(p, ev)
    BY <1>1 DEF Publish
  <2>3. UNCHANGED <<subs, closed, target, spc>> /\ ppc[p] = "idle"
    BY <1>1 DEF Publish
  <2>4. QED
    BY <2>1, <2>2, <2>3 DEF RLock
<1>2. ASSUME NEW p \in Publishers, NEW s \in Streams, BusSend(p, s) PROVE LockInv'
  <2>1. CASE UNCHANGED <<ppc, target>>
    BY <1>2, <2>1 DEF BusSend
  <2>2. CASE ppc' = [ppc EXCEPT ![p] = "drain"] /\ target' = [target EXCEPT ![p] = s]
    BY <1>2, <2>2 DEF BusSend
  <2>3. QED
    BY <1>2, <2>1, <2>2 DEF BusSend
<1>3. ASSUME NEW p \in Publishers, Drain(p) PROVE LockInv'
  BY <1>3 DEF Drain
<1>4. ASSUME NEW p \in Publishers, Resend(p) PROVE LockInv'
  BY <1>4 DEF Resend
<1>5. ASSUME NEW p \in Publishers, PublishDone(p) PROVE LockInv'
  BY <1>5 DEF PublishDone
<1>6. ASSUME NEW s \in Streams, Subscribe(s) PROVE LockInv'
  BY <1>6 DEF Subscribe
<1>7. ASSUME NEW s \in Streams, Announce(s) PROVE LockInv'
  BY <1>7 DEF Announce
<1>8. ASSUME NEW s \in Streams, Enter(s) PROVE LockInv'
  <2>1. Locked(s, subs \cup {s}) /\ spc[s] = "lock" /\ spc' = [spc EXCEPT ![s] = "open"]
    BY <1>8 DEF Enter
  <2>2. QED
    BY <2>1, LockedPreserves
<1>9. ASSUME NEW s \in Streams, Receive(s) \/ Handled(s) \/ Leave(s) PROVE LockInv'
  BY <1>9 DEF Receive, Handled, Leave
<1>10. ASSUME NEW s \in Streams, Remove(s) PROVE LockInv'
  <2>1. Locked(s, subs \ {s}) /\ spc[s] = "unlock" /\ spc' = [spc EXCEPT ![s] = "close"]
    BY <1>10 DEF Remove
  <2>2. QED
    BY <2>1, LockedPreserves
<1>11. ASSUME NEW s \in Streams, Close(s) PROVE LockInv'
  BY <1>11 DEF Close
<1>12. CASE UNCHANGED vars
  BY <1>12 DEF vars
<1>13. QED
  BY <1>1, <1>2, <1>3, <1>4, <1>5, <1>6, <1>7, <1>8, <1>9, <1>10, <1>11, <1>12
     DEF Next, Sending, Stream

LEMMA LockInductive == Spec => []LockInv
<1>1. Init => LockInv
  BY ConstantsAssumption DEF Init, LockInv, BusTypes, PublisherStates, StreamStates, HoldsLock
<1>2. QED
  BY <1>1, LockStep, PTL DEF Spec

\* No publisher ever sends to, or drains, a channel that cleanup has closed or is
\* about to close, for any number of publishers, streams and buffer slots.
THEOREM NoSendOnClosedTheorem == Spec => []NoSendOnClosed
<1>1. LockInv => NoSendOnClosed
  BY DEF LockInv, BusTypes, NoSendOnClosed
<1>2. QED
  BY <1>1, LockInductive, PTL

--------------------------------------------------------------------------------
\* What the types rest on: a publisher that is not idle has an event in hand.
TInv ==
    /\ TypeOK
    /\ ch \in [Streams -> Seq(Events)]
    /\ \A p \in Publishers : ppc[p] # "idle" => event[p] \in Events

\* The channels after a send and after a receive.
LEMMA PutType ==
    ASSUME TInv, NEW s \in Streams, NEW ev \in Events, Len(ch[s]) < Capacity, Put(s, ev)
    PROVE  /\ ch' \in [Streams -> Seq(Events)]
           /\ \A r \in Streams : ch'[r] \in Seq(Events) /\ Len(ch'[r]) <= Capacity
           /\ reached' \in [Streams -> SUBSET Events]
<1> USE ConstantsAssumption DEF TInv, TypeOK
<1>1. ch[s] \in Seq(Events) /\ Len(ch[s]) \in Nat
  OBVIOUS
<1>2. Append(ch[s], ev) \in Seq(Events) /\ Len(Append(ch[s], ev)) = Len(ch[s]) + 1
  BY <1>1
<1>3. ch' = [ch EXCEPT ![s] = Append(ch[s], ev)] /\ reached' = [reached EXCEPT ![s] = reached[s] \cup {ev}]
  BY DEF Put
<1>4. QED
  BY <1>1, <1>2, <1>3

\* A receive leaves a channel of the same type, not above its capacity.
LEMMA TailType ==
    ASSUME TInv, NEW s \in Streams, ch[s] # <<>>, ch' = [ch EXCEPT ![s] = Tail(@)]
    PROVE  /\ ch' \in [Streams -> Seq(Events)]
           /\ \A r \in Streams : ch'[r] \in Seq(Events) /\ Len(ch'[r]) <= Capacity
<1> USE ConstantsAssumption DEF TInv, TypeOK
<1>1. ch[s] \in Seq(Events) /\ Len(ch[s]) \in Nat
  OBVIOUS
<1>2. Tail(ch[s]) \in Seq(Events) /\ Len(Tail(ch[s])) = Len(ch[s]) - 1
  BY <1>1
<1>3. QED
  BY <1>1, <1>2

\* busSend is the only operation that puts events into a channel, and it does so
\* only where there is room.
LEMMA TypeStep == ASSUME TInv, LockInv, [Next]_vars PROVE TInv'
<1> USE ConstantsAssumption DEF bus, mutex, publisher
<1>0. /\ subs' \in SUBSET Streams /\ closed' \in SUBSET Streams /\ readers' \in SUBSET Publishers
      /\ ppc' \in [Publishers -> PublisherStates] /\ todo' \in [Publishers -> SUBSET Streams]
      /\ target' \in [Publishers -> Streams \cup {None}] /\ spc' \in [Streams -> StreamStates]
  BY LockStep DEF LockInv, BusTypes
<1> DEFINE Rest ==
        /\ ch \in [Streams -> Seq(Events)]
        /\ \A r \in Streams : ch[r] \in Seq(Events) /\ Len(ch[r]) <= Capacity
        /\ reached \in [Streams -> SUBSET Events]
        /\ pendingW \in Streams \cup {None}
        /\ event \in [Publishers -> Events \cup {None}]
        /\ sent \in [Publishers -> 0..MaxEvents]
        /\ \A p \in Publishers : ppc[p] # "idle" => event[p] \in Events
<1>1. Rest /\ ppc \in [Publishers -> PublisherStates]
  BY DEF TInv, TypeOK
<1>2. SUFFICES Rest'
  BY <1>0 DEF TInv, TypeOK
<1> USE DEF PublisherStates
<1>3. ASSUME NEW p \in Publishers, NEW to \in Destinations, Publish(p, to) PROVE Rest'
  <2> DEFINE ev == [by |-> p, n |-> sent[p] + 1, to |-> to]
  <2>1. ev \in Events
    BY <1>1, <1>3 DEF Publish, Events
  <2>2. event' = [event EXCEPT ![p] = ev] /\ sent' = [sent EXCEPT ![p] = sent[p] + 1]
        /\ sent[p] + 1 \in 0..MaxEvents
        /\ UNCHANGED <<ch, reached, pendingW>>
    BY <1>1, <1>3 DEF Publish
  <2>3. \A q \in Publishers : q # p => ppc'[q] = ppc[q]
    BY <1>1, <1>3 DEF Publish, RLock
  <2> HIDE DEF ev
  <2>4. QED
    BY <1>1, <2>1, <2>2, <2>3
<1>4. ASSUME NEW p \in Publishers, NEW s \in Streams, BusSend(p, s) PROVE Rest'
  <2>1. ppc[p] = "sending" /\ event[p] \in Events
    BY <1>1, <1>4 DEF BusSend
  <2>2. UNCHANGED <<pendingW, event, sent>> /\ \A q \in Publishers : ppc'[q] # "idle" => ppc[q] # "idle"
    BY <1>1, <1>4, <2>1 DEF BusSend
  <2>3. CASE Len(ch[s]) < Capacity
    BY <1>1, <1>4, <2>1, <2>2, <2>3, PutType DEF BusSend
  <2>4. CASE ~(Len(ch[s]) < Capacity)
    BY <1>1, <1>4, <2>1, <2>2, <2>4 DEF BusSend
  <2>5. QED
    BY <2>3, <2>4
<1>5. ASSUME NEW p \in Publishers, Drain(p) PROVE Rest'
  <2>1. p \in readers /\ ppc[p] = "drain"
    BY <1>5 DEF Drain, LockInv, HoldsLock
  <2>2. CASE target[p] \in Streams
    BY <1>1, <1>5, <2>1, <2>2, TailType DEF Drain
  <2>3. CASE target[p] \notin Streams
    <3>1. ch' = ch
      BY <1>1, <1>5, <2>3 DEF Drain
    <3>2. QED
      BY <1>1, <1>5, <2>1, <3>1 DEF Drain
  <2>4. QED
    BY <2>2, <2>3
<1>6. ASSUME NEW p \in Publishers, Resend(p) PROVE Rest'
  <2>1. ppc[p] = "resend" /\ event[p] \in Events
    BY <1>1, <1>6 DEF Resend
  <2>2. UNCHANGED <<pendingW, event, sent>> /\ \A q \in Publishers : ppc'[q] # "idle" => ppc[q] # "idle"
    BY <1>1, <1>6, <2>1 DEF Resend
  <2>3. CASE target[p] \in Streams
    BY <1>1, <1>6, <2>1, <2>2, <2>3, PutType DEF Resend
  <2>4. CASE target[p] \notin Streams
    <3>1. ch' = ch /\ reached' = reached
      BY <1>1, <1>6, <2>4 DEF Resend, Put
    <3>2. QED
      BY <1>1, <2>2, <3>1
  <2>5. QED
    BY <2>3, <2>4
<1>7. ASSUME NEW p \in Publishers, PublishDone(p) PROVE Rest'
  BY <1>1, <1>7 DEF PublishDone
<1>8. ASSUME NEW s \in Streams, Subscribe(s) \/ Announce(s) \/ Handled(s) \/ Leave(s) \/ Close(s) PROVE Rest'
  BY <1>1, <1>8 DEF Subscribe, Announce, Handled, Leave, Close
<1>9. ASSUME NEW s \in Streams, Enter(s) \/ Remove(s) PROVE Rest'
  <2>1. PICK S : Locked(s, S)
    BY <1>9 DEF Enter, Remove
  <2>2. UNCHANGED <<ch, reached>>
    BY <1>9 DEF Enter, Remove
  <2>3. UNCHANGED <<event, sent>> /\ pendingW' = None
    BY <2>1 DEF Locked
  <2>4. \A p \in Publishers : ppc'[p] # "idle" => ppc[p] # "idle"
    BY <2>1 DEF Locked
  <2>5. QED
    BY <1>1, <2>2, <2>3, <2>4
<1>10. ASSUME NEW s \in Streams, Receive(s) PROVE Rest'
  BY <1>1, <1>10, TailType DEF Receive
<1>11. CASE UNCHANGED vars
  BY <1>1, <1>11 DEF vars
<1>12. QED
  BY <1>3, <1>4, <1>5, <1>6, <1>7, <1>8, <1>9, <1>10, <1>11 DEF Next, Sending, Stream

\* The types, with the capacity of the channels, and the lock discipline.
LEMMA TypeInductive == Spec => [](TInv /\ LockInv)
<1>1. Init => TInv
  <2> SUFFICES ASSUME Init PROVE TInv
    OBVIOUS
  <2>1. ch \in [Streams -> Seq(Events)] /\ \A s \in Streams : ch[s] = <<>> /\ Len(ch[s]) <= Capacity
    BY ConstantsAssumption DEF Init
  <2>2. QED
    BY <2>1, ConstantsAssumption DEF Init, TInv, TypeOK, PublisherStates, StreamStates
<1>2. TInv /\ LockInv /\ [Next]_vars => TInv'
  BY TypeStep
<1>3. QED
  BY <1>1, <1>2, LockInductive, PTL DEF Spec

\* The bus keeps its types for any number of publishers and streams; no channel
\* ever holds more than subscriberBufferSize events.
THEOREM TypeCorrect == Spec => []TypeOK
<1>1. TInv => TypeOK
  BY DEF TInv
<1>2. QED
  BY <1>1, TypeInductive, PTL

--------------------------------------------------------------------------------
\* What a publisher owes: every subscriber its event is for has it, or is still to
\* be visited, or is being visited.
ReachInv ==
    \A p \in Publishers : ppc[p] \in HoldsLock =>
        \A s \in subs : Receives(s, event[p].to) =>
            event[p] \in reached[s] \/ s \in todo[p] \/ s = target[p]

\* No step of a publisher, a cleanup or a subscription forgets a subscriber.
LEMMA ReachStep == ASSUME TInv, LockInv, ReachInv, [Next]_vars PROVE ReachInv'
<1> USE DEF bus, mutex, publisher
<1>0. /\ reached \in [Streams -> SUBSET Events] /\ subs \in SUBSET Streams
      /\ ppc \in [Publishers -> PublisherStates] /\ todo \in [Publishers -> SUBSET Streams]
      /\ target \in [Publishers -> Streams \cup {None}] /\ event \in [Publishers -> Events \cup {None}]
  BY DEF TInv, TypeOK
<1> SUFFICES ASSUME NEW p \in Publishers, ppc'[p] \in HoldsLock, NEW s \in subs', Receives(s, event'[p].to)
             PROVE  event'[p] \in reached'[s] \/ s \in todo'[p] \/ s = target'[p]
  BY DEF ReachInv, Receives
<1> DEFINE Goal == event'[p] \in reached'[s] \/ s \in todo'[p] \/ s = target'[p]
           Owed == event[p] \in reached[s] \/ s \in todo[p] \/ s = target[p]
<1>1. ASSUME ppc[p] \in HoldsLock, s \in subs, event'[p] = event[p] PROVE Owed
  BY <1>1 DEF ReachInv
<1>2. ASSUME NEW q \in Publishers, NEW to \in Destinations, Publish(q, to) PROVE Goal
  <2>1. UNCHANGED <<subs, reached, target>> /\ ppc[q] = "idle"
    BY <1>2 DEF Publish
  <2>2. CASE p = q
    <3>1. PICK ev : event' = [event EXCEPT ![q] = ev] /\ RLock(q, ev)
      BY <1>2 DEF Publish
    <3>2. todo'[p] = Visits(subs, ev) /\ event'[p] = ev
      BY <1>0, <2>1, <2>2, <3>1 DEF RLock, HoldsLock
    <3>3. QED
      BY <2>1, <3>2 DEF Visits
  <2>3. CASE p # q
    <3>1. event'[p] = event[p] /\ ppc'[p] = ppc[p] /\ todo'[p] = todo[p]
      BY <1>0, <1>2, <2>3 DEF Publish, RLock
    <3>2. QED
      BY <1>1, <2>1, <3>1
  <2>4. QED
    BY <2>2, <2>3
<1>3. ASSUME NEW q \in Publishers, NEW r \in Streams, BusSend(q, r) PROVE Goal
  <2>1. UNCHANGED <<subs, event>> /\ ppc[q] = "sending" /\ todo' = [todo EXCEPT ![q] = @ \ {r}]
    BY <1>3 DEF BusSend
  <2>2. ppc[p] \in HoldsLock
    BY <1>0, <1>3, <2>1 DEF BusSend, HoldsLock
  <2>3. Owed
    BY <1>1, <2>1, <2>2
  <2>4. CASE Len(ch[r]) < Capacity
    <3>1. reached' = [reached EXCEPT ![r] = @ \cup {event[q]}] /\ UNCHANGED target
      BY <1>3, <2>4 DEF BusSend, Put
    <3>2. QED
      BY <1>0, <2>1, <2>3, <3>1
  <2>5. CASE ~(Len(ch[r]) < Capacity)
    <3>1. UNCHANGED reached /\ target' = [target EXCEPT ![q] = r]
      BY <1>3, <2>5 DEF BusSend
    <3>2. q = p => target[p] = None
      BY <2>1 DEF LockInv
    <3>3. s # None
      BY <1>0, <2>1, ConstantsAssumption
    <3>4. QED
      BY <1>0, <2>1, <2>3, <3>1, <3>2, <3>3
  <2>6. QED
    BY <2>4, <2>5
<1>4. ASSUME NEW q \in Publishers, Drain(q) PROVE Goal
  <2>1. UNCHANGED <<subs, event, todo, target, reached>> /\ ppc[p] \in HoldsLock
    BY <1>0, <1>4 DEF Drain, HoldsLock
  <2>2. QED
    BY <1>1, <2>1
<1>5. ASSUME NEW q \in Publishers, Resend(q) PROVE Goal
  <2>1. /\ UNCHANGED <<subs, event, todo>> /\ ppc[p] \in HoldsLock
        /\ reached' = [reached EXCEPT ![target[q]] = @ \cup {event[q]}]
        /\ target' = [target EXCEPT ![q] = None]
    BY <1>0, <1>5 DEF Resend, Put, HoldsLock
  <2>2. Owed
    BY <1>1, <2>1
  <2>3. QED
    BY <1>0, <2>1, <2>2
<1>6. ASSUME NEW q \in Publishers, PublishDone(q) PROVE Goal
  <2>1. q # p
    BY <1>0, <1>6 DEF PublishDone, HoldsLock
  <2>2. UNCHANGED <<subs, todo, target, reached>> /\ event'[p] = event[p] /\ ppc[p] \in HoldsLock
    BY <1>0, <1>6, <2>1 DEF PublishDone
  <2>3. QED
    BY <1>1, <2>2
<1>7. ASSUME NEW r \in Streams, Subscribe(r) \/ Announce(r) \/ Handled(r) \/ Leave(r) \/ Close(r) \/ Receive(r)
      PROVE  Goal
  BY <1>1, <1>7 DEF Subscribe, Announce, Handled, Leave, Close, Receive
<1>8. ASSUME NEW r \in Streams, Enter(r) \/ Remove(r) PROVE Goal
  <2>1. PICK S : Locked(r, S)
    BY <1>8 DEF Enter, Remove
  <2>2. ppc[p] = "blocked"
    BY <1>0, <2>1 DEF Locked, LockInv, HoldsLock
  <2>3. todo'[p] = Visits(S, event[p]) /\ subs' = S /\ event' = event
    BY <2>1, <2>2 DEF Locked
  <2>4. QED
    BY <2>3 DEF Visits
<1>9. CASE UNCHANGED vars
  BY <1>1, <1>9 DEF vars
<1>10. QED
  BY <1>2, <1>3, <1>4, <1>5, <1>6, <1>7, <1>8, <1>9 DEF Next, Sending, Stream

\* Publish does not return before its event was put into the channel of every
\* subscriber in the map that it is for: no full buffer, no client that comes or
\* goes and no other publisher makes busSend lose the newest event.
THEOREM ReachTheorem == Spec => PublishReaches
<1> DEFINE Reaches(p) == (ppc[p] = "sending" /\ ppc'[p] = "idle") =>
          \A s \in subs : Receives(s, event[p].to) => event[p] \in reached[s]
<1>1. Init => ReachInv
  BY DEF Init, ReachInv, HoldsLock
<1>2. TInv /\ LockInv /\ ReachInv /\ [Next]_vars => ReachInv'
  BY ReachStep
<1>3. TInv /\ LockInv /\ ReachInv /\ [Next]_vars => [\A p \in Publishers : Reaches(p)]_vars
  <2> SUFFICES ASSUME TInv, LockInv, ReachInv, Next, NEW p \in Publishers, ppc[p] = "sending", ppc'[p] = "idle"
               PROVE  \A s \in subs : Receives(s, event[p].to) => event[p] \in reached[s]
    OBVIOUS
  <2>1. ppc \in [Publishers -> PublisherStates]
    BY DEF TInv, TypeOK
  <2>2. todo[p] = {}
    <3> USE DEF bus, mutex, publisher
    <3>1. ASSUME NEW q \in Publishers, NEW to \in Destinations, Publish(q, to) PROVE FALSE
      BY <2>1, <3>1 DEF Publish, RLock
    <3>2. ASSUME NEW q \in Publishers, NEW r \in Streams, BusSend(q, r) PROVE FALSE
      BY <2>1, <3>2 DEF BusSend
    <3>3. ASSUME NEW q \in Publishers, Drain(q) \/ Resend(q) PROVE FALSE
      BY <2>1, <3>3 DEF Drain, Resend
    <3>4. ASSUME NEW r \in Streams, Stream(r) PROVE FALSE
      BY <2>1, <3>4 DEF Stream, Subscribe, Announce, Enter, Receive, Handled, Leave, Remove, Close, Locked
    <3>5. ASSUME NEW q \in Publishers, PublishDone(q) PROVE todo[p] = {}
      BY <2>1, <3>5 DEF PublishDone
    <3>6. QED
      BY <3>1, <3>2, <3>3, <3>4, <3>5 DEF Next, Sending
  <2>3. target[p] = None /\ subs \in SUBSET Streams
    BY DEF LockInv, TInv, TypeOK
  <2>4. QED
    BY <2>2, <2>3, ConstantsAssumption DEF ReachInv, HoldsLock
<1>4. QED
  BY <1>1, <1>2, <1>3, TypeInductive, PTL DEF Spec, PublishReaches
================================================================================
