---------------------------- MODULE NotificationBus ----------------------------
(***************************************************************************)
(* notification.MemoryBus: publishers and stream handlers that share the    *)
(* subscriber map under a sync.RWMutex, and one buffered channel per        *)
(* subscriber.                                                              *)
(*                                                                          *)
(* A publisher holds the read lock while it sends to every subscriber in    *)
(* turn; a stream handler (SubscribeNotifications) takes the write lock to  *)
(* enter and to leave the map and receives from its channel in between.     *)
(* Channel operations and lock acquisitions are the atomic steps.           *)
(***************************************************************************)
EXTENDS Naturals, Sequences, FiniteSets

CONSTANTS
    Publishers,  \* goroutines that call Publish or PublishTo
    Streams,     \* calls of SubscribeNotifications
    Users,       \* authenticated users
    UserOf,      \* the user of each stream
    All,         \* the destination of Publish
    None,        \* no goroutine
    Capacity,    \* subscriberBufferSize
    MaxEvents    \* bound: events one publisher sends

ASSUME ConstantsAssumption ==
    /\ UserOf \in [Streams -> Users]
    /\ All \notin Users
    /\ None \notin Streams
    /\ Capacity \in Nat \ {0}
    /\ MaxEvents \in Nat

VARIABLES
    \* the bus
    subs,     \* MemoryBus.subs: the streams in the map
    ch,       \* the channel of each stream
    closed,   \* the streams whose channel was closed
    \* the RWMutex
    readers,  \* publishers holding the read lock
    pendingW, \* the stream whose Lock has announced itself, or holds the lock
    \* goroutines
    ppc,      \* publisher: "idle", "blocked" (in RLock), "sending", "drain", "resend"
    event,    \* the event a publisher is sending
    todo,     \* the subscribers it has yet to visit
    target,   \* the subscriber it is visiting
    spc,      \* stream: "new", "lock", "open", "handling", "unlock", "close", "gone"
    \* history
    sent,     \* events each publisher has begun to send
    reached   \* per stream: the events that were put into its channel

bus == <<subs, ch, closed>>
mutex == <<readers, pendingW>>
publisher == <<ppc, event, todo, target, sent>>
vars == <<bus, mutex, publisher, spc, reached>>

--------------------------------------------------------------------------------
Destinations == Users \cup {All}
Events == [by : Publishers, n : 1..MaxEvents, to : Destinations]

\* Publish visits every subscriber, PublishTo those of one user.
Receives(s, to) == to = All \/ UserOf[s] = to

PublisherStates == {"idle", "blocked", "sending", "drain", "resend"}
StreamStates == {"new", "lock", "open", "handling", "unlock", "close", "gone"}

TypeOK ==
    /\ subs \in SUBSET Streams
    /\ \A s \in Streams : ch[s] \in Seq(Events) /\ Len(ch[s]) <= Capacity
    /\ closed \in SUBSET Streams
    /\ readers \in SUBSET Publishers
    /\ pendingW \in Streams \cup {None}
    /\ ppc \in [Publishers -> PublisherStates]
    /\ event \in [Publishers -> Events \cup {None}]
    /\ todo \in [Publishers -> SUBSET Streams]
    /\ target \in [Publishers -> Streams \cup {None}]
    /\ sent \in [Publishers -> 0..MaxEvents]
    /\ spc \in [Streams -> StreamStates]
    /\ reached \in [Streams -> SUBSET Events]

Init ==
    /\ subs = {}
    /\ ch = [s \in Streams |-> <<>>]
    /\ closed = {}
    /\ readers = {}
    /\ pendingW = None
    /\ ppc = [p \in Publishers |-> "idle"]
    /\ event = [p \in Publishers |-> None]
    /\ todo = [p \in Publishers |-> {}]
    /\ target = [p \in Publishers |-> None]
    /\ sent = [p \in Publishers |-> 0]
    /\ spc = [s \in Streams |-> "new"]
    /\ reached = [s \in Streams |-> {}]

--------------------------------------------------------------------------------
(* sync.RWMutex: a reader that arrives after a writer has announced itself      *)
(* waits for that writer; Unlock lets all waiting readers in.                   *)

Visits(S, ev) == {s \in S : Receives(s, ev.to)}

\* RLock is granted at once when no writer is pending.
RLock(p, ev) ==
    IF pendingW = None
    THEN /\ readers' = readers \cup {p}
         /\ ppc' = [ppc EXCEPT ![p] = "sending"]
         /\ todo' = [todo EXCEPT ![p] = Visits(subs, ev)]
    ELSE /\ ppc' = [ppc EXCEPT ![p] = "blocked"]
         /\ UNCHANGED <<readers, todo>>

\* A writer announces itself once no other writer is there.
Announce(s) ==
    /\ spc[s] \in {"lock", "unlock"}
    /\ pendingW = None
    /\ pendingW' = s
    /\ UNCHANGED <<bus, readers, publisher, spc, reached>>

\* The writer runs its critical section, which leaves the map S, and unlocks.
Locked(s, S) ==
    /\ pendingW = s /\ readers = {}
    /\ subs' = S
    /\ pendingW' = None
    /\ readers' = {p \in Publishers : ppc[p] = "blocked"}
    /\ ppc' = [p \in Publishers |-> IF ppc[p] = "blocked" THEN "sending" ELSE ppc[p]]
    /\ todo' = [p \in Publishers |-> IF ppc[p] = "blocked" THEN Visits(S, event[p]) ELSE todo[p]]
    /\ UNCHANGED <<closed, event, target, sent>>

--------------------------------------------------------------------------------
(* Publish, PublishTo *)

Publish(p, to) ==
    /\ ppc[p] = "idle" /\ sent[p] < MaxEvents
    /\ LET ev == [by |-> p, n |-> sent[p] + 1, to |-> to]
       IN  /\ event' = [event EXCEPT ![p] = ev]
           /\ RLock(p, ev)
    /\ sent' = [sent EXCEPT ![p] = @ + 1]
    /\ UNCHANGED <<bus, pendingW, target, spc, reached>>

Put(s, ev) ==
    /\ ch' = [ch EXCEPT ![s] = Append(@, ev)]
    /\ reached' = [reached EXCEPT ![s] = @ \cup {ev}]

\* Mutant: a full buffer is skipped instead of drained.
BusSendDropsNewest(p, s) ==
    /\ ppc[p] = "sending" /\ s \in todo[p]
    /\ todo' = [todo EXCEPT ![p] = @ \ {s}]
    /\ IF Len(ch[s]) < Capacity THEN Put(s, event[p]) ELSE UNCHANGED <<ch, reached>>
    /\ UNCHANGED <<subs, closed, mutex, ppc, event, target, sent, spc>>

\* busSend: a send that would block turns to the default branch.
BusSend(p, s) ==
    /\ ppc[p] = "sending" /\ s \in todo[p]
    /\ todo' = [todo EXCEPT ![p] = @ \ {s}]
    /\ IF Len(ch[s]) < Capacity
       THEN Put(s, event[p]) /\ UNCHANGED <<ppc, target>>
       ELSE /\ ppc' = [ppc EXCEPT ![p] = "drain"]
            /\ target' = [target EXCEPT ![p] = s]
            /\ UNCHANGED <<ch, reached>>
    /\ UNCHANGED <<subs, closed, mutex, event, sent, spc>>

\* busSend: <-sub.ch, which blocks while the channel is empty.
Drain(p) ==
    /\ ppc[p] = "drain"
    /\ ch[target[p]] # <<>>
    /\ ch' = [ch EXCEPT ![target[p]] = Tail(@)]
    /\ ppc' = [ppc EXCEPT ![p] = "resend"]
    /\ UNCHANGED <<subs, closed, mutex, event, todo, target, sent, spc, reached>>

\* busSend: sub.ch <- ev, which blocks while the channel is full.
Resend(p) ==
    /\ ppc[p] = "resend"
    /\ Len(ch[target[p]]) < Capacity
    /\ Put(target[p], event[p])
    /\ ppc' = [ppc EXCEPT ![p] = "sending"]
    /\ target' = [target EXCEPT ![p] = None]
    /\ UNCHANGED <<subs, closed, mutex, event, todo, sent, spc>>

\* Mutant: the read lock is not released.
PublishDoneKeepsLock(p) ==
    /\ ppc[p] = "sending" /\ todo[p] = {}
    /\ ppc' = [ppc EXCEPT ![p] = "idle"]
    /\ event' = [event EXCEPT ![p] = None]
    /\ UNCHANGED <<bus, mutex, todo, target, sent, spc, reached>>

\* The loop is over: deferred RUnlock.
PublishDone(p) ==
    /\ ppc[p] = "sending" /\ todo[p] = {}
    /\ readers' = readers \ {p}
    /\ ppc' = [ppc EXCEPT ![p] = "idle"]
    /\ event' = [event EXCEPT ![p] = None]
    /\ UNCHANGED <<bus, pendingW, todo, target, sent, spc, reached>>

--------------------------------------------------------------------------------
(* Subscribe, the stream handler's loop, cleanup *)

Subscribe(s) ==
    /\ spc[s] = "new"
    /\ spc' = [spc EXCEPT ![s] = "lock"]
    /\ UNCHANGED <<bus, mutex, publisher, reached>>

Enter(s) ==
    /\ spc[s] = "lock"
    /\ Locked(s, subs \cup {s})
    /\ spc' = [spc EXCEPT ![s] = "open"]
    /\ UNCHANGED <<ch, reached>>

\* case ev := <-ch: the handler is busy with the event for as long as the client
\* takes.
Receive(s) ==
    /\ spc[s] = "open" /\ ch[s] # <<>>
    /\ ch' = [ch EXCEPT ![s] = Tail(@)]
    /\ spc' = [spc EXCEPT ![s] = "handling"]
    /\ UNCHANGED <<subs, closed, mutex, publisher, reached>>

Handled(s) ==
    /\ spc[s] = "handling"
    /\ spc' = [spc EXCEPT ![s] = "open"]
    /\ UNCHANGED <<bus, mutex, publisher, reached>>

\* Mutant: cleanup closes the channel without taking the lock.
LeaveUnlocked(s) ==
    /\ spc[s] \in {"open", "handling"}
    /\ spc' = [spc EXCEPT ![s] = "gone"]
    /\ subs' = subs \ {s}
    /\ closed' = closed \cup {s}
    /\ UNCHANGED <<ch, mutex, publisher, reached>>

\* ctx.Done() or a failed stream.Send: the deferred cleanup begins with Lock.
Leave(s) ==
    /\ spc[s] \in {"open", "handling"}
    /\ spc' = [spc EXCEPT ![s] = "unlock"]
    /\ UNCHANGED <<bus, mutex, publisher, reached>>

Remove(s) ==
    /\ spc[s] = "unlock"
    /\ Locked(s, subs \ {s})
    /\ spc' = [spc EXCEPT ![s] = "close"]
    /\ UNCHANGED <<ch, reached>>

Close(s) ==
    /\ spc[s] = "close"
    /\ closed' = closed \cup {s}
    /\ spc' = [spc EXCEPT ![s] = "gone"]
    /\ UNCHANGED <<subs, ch, mutex, publisher, reached>>

--------------------------------------------------------------------------------
Sending(p) == (\E s \in Streams : BusSend(p, s)) \/ Drain(p) \/ Resend(p) \/ PublishDone(p)

Stream(s) ==
    \/ Subscribe(s) \/ Announce(s) \/ Enter(s)
    \/ Receive(s) \/ Handled(s)
    \/ Leave(s) \/ Remove(s) \/ Close(s)

Next ==
    \/ \E p \in Publishers : (\E to \in Destinations : Publish(p, to)) \/ Sending(p)
    \/ \E s \in Streams : Stream(s)

Spec == Init /\ [][Next]_vars

\* Goroutines run, a lock that is free for long enough is granted, and a stream
\* handler comes back for the next event.  Clients need not connect or leave.
Fairness ==
    /\ \A p \in Publishers : WF_vars(Sending(p))
    /\ \A s \in Streams :
         /\ SF_vars(Announce(s))
         /\ WF_vars(Enter(s)) /\ WF_vars(Receive(s)) /\ WF_vars(Handled(s))
         /\ WF_vars(Remove(s)) /\ WF_vars(Close(s))

FairSpec == Spec /\ Fairness

--------------------------------------------------------------------------------
(* Correctness *)

\* The subscriber a publisher is sending to, or has yet to send to, is in the map
\* and its channel is open: cleanup never closes a channel under a publisher
\* (which would panic the publishing goroutine).
NoSendOnClosed ==
    \A p \in Publishers :
        LET visiting == todo[p] \cup ({target[p]} \ {None})
        IN  visiting \subseteq subs /\ visiting \cap closed = {}

\* Publish does not return before the event was put into the channel of every
\* subscriber that is still connected and was connected when it began: a full
\* buffer costs the oldest event, never the new one.
PublishReaches ==
    [][\A p \in Publishers : (ppc[p] = "sending" /\ ppc'[p] = "idle") =>
          \A s \in subs : Receives(s, event[p].to) => event[p] \in reached[s]]_vars

\* A publisher waits on a channel operation of busSend.
Blocked(p) ==
    \/ ppc[p] = "drain" /\ ch[target[p]] = <<>>
    \/ ppc[p] = "resend" /\ Len(ch[target[p]]) = Capacity

\* Publish returns, however slow the clients are, unless a publisher is caught in
\* the second half of busSend: the read lock is given back, a writer is let in, and
\* nothing else makes a publisher wait for a client.
PublishReturns ==
    \A p \in Publishers : ppc[p] # "idle" ~> (ppc[p] = "idle" \/ \E q \in Publishers : Blocked(q))

\* Under the same condition a client that leaves gets out of the bus and its channel
\* is closed.
CleanupFinishes ==
    \A s \in Streams : spc[s] = "unlock" ~> (spc[s] = "gone" \/ \E q \in Publishers : Blocked(q))

\* The Bus contract: Publish does not block on subscribers.  Stated as its worst
\* violation: every publisher that holds the read lock waits for a channel whose
\* handler has left its loop and waits for the write lock, so that no publisher
\* and no stream can use the bus any more.
BusNeverDeadlocks ==
    ~ /\ pendingW # None
      /\ readers # {}
      /\ \A p \in readers : Blocked(p) /\ spc[target[p]] = "unlock"
================================================================================
