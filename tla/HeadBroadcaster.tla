-------------------------- MODULE HeadBroadcaster --------------------------
(***************************************************************************)
(* How a head reaches the subscribers: the broadcast loop of the head      *)
(* tracker, which empties the tracker's mailbox or samples it, and the     *)
(* head broadcaster, which takes one head at a time from a mailbox of its  *)
(* own and runs every callback in parallel.  Both mailboxes drop what they *)
(* cannot hold, and one notification may stand for several heads.          *)
(*                                                                         *)
(* The heads come from HeadFeed, which HeadTracker is shown to implement.  *)
(***************************************************************************)
EXTENDS Integers, Sequences

CONSTANTS Subscribers,      \* callers of Subscribe
          HeadsBufferSize,  \* capacity of broadcastMB
          MaxHeight            \* bound: highest block number

\* A mailbox has room for one item at least; there is a block to speak of.
ASSUME BoundsAssumption == HeadsBufferSize \in Nat \ {0} /\ MaxHeight \in Nat

VARIABLES
    sampling,     \* SamplingInterval > 0; fixed from the start
    delivered,    \* the last head the tracker delivered
    broadcastMB,  \* heads to broadcast, oldest first
    notify,       \* broadcastMB.Notify() is ready
    draining,     \* broadcastLoop is in its inner loop
    trackerUp,    \* the tracker is not closed
    mailbox,      \* the broadcaster's single slot
    mnotify,      \* mailbox.Notify() is ready
    latest,       \* the last head the broadcaster took
    callbacks,    \* who is subscribed
    round,        \* the head executeCallbacks is calling with, or None
    calling,      \* callbacks of this round that have not returned
    up,           \* the broadcaster is not closed
    told          \* the newest head each subscriber knows of

feed == <<sampling, delivered, trackerUp>>
forwarding == <<broadcastMB, notify, draining>>
slot == <<mailbox, mnotify>>
calls == <<latest, callbacks, round, calling, up, told>>
broadcasting == <<feed, forwarding, slot, calls>>

None == <<-1, "none">>
Heads == (0..MaxHeight) \X {"a", "b"}
Number(h) == h[1]

Source == INSTANCE HeadFeed WITH Blocks <- Heads, NoHead <- None

-----------------------------------------------------------------------------
BroadcasterInit ==
    /\ sampling \in BOOLEAN
    /\ Source!FeedInit
    /\ broadcastMB = <<>> /\ notify = FALSE /\ draining = FALSE /\ trackerUp = TRUE
    /\ mailbox = None /\ mnotify = FALSE
    /\ latest = None /\ round = None
    /\ callbacks = {} /\ calling = {} /\ up = TRUE
    /\ told = [s \in Subscribers |-> None]

\* A mailbox keeps the newest items it has room for.
Keep(q) == IF Len(q) > HeadsBufferSize THEN Tail(q) ELSE q

\* The delivery of a new highest head by handleNewHead.
Deliver ==
    /\ trackerUp
    /\ Source!FeedNext
    /\ broadcastMB' = Keep(Append(broadcastMB, delivered'))
    /\ notify' = TRUE
    /\ UNCHANGED <<sampling, draining, trackerUp, slot, calls>>

\* Close of the tracker: its goroutines stop and broadcastMB is closed.
TrackerCloses ==
    /\ trackerUp /\ ~draining
    /\ trackerUp' = FALSE
    /\ UNCHANGED <<sampling, delivered, forwarding, slot, calls>>

\* The select of broadcastLoop, without sampling.
broadcastLoop ==
    /\ trackerUp /\ ~sampling /\ notify /\ ~draining
    /\ notify' = FALSE
    /\ draining' = TRUE
    /\ UNCHANGED <<feed, broadcastMB, slot, calls>>

BroadcastNewLongestChain(h) == mailbox' = h /\ mnotify' = TRUE

\* Fault: one head is taken for each notification.
RetrieveOne ==
    /\ draining /\ draining' = FALSE
    /\ IF broadcastMB = <<>> THEN UNCHANGED <<broadcastMB, slot>>
       ELSE /\ BroadcastNewLongestChain(Head(broadcastMB))
            /\ broadcastMB' = Tail(broadcastMB)
    /\ UNCHANGED <<feed, notify, calls>>

\* A turn of the inner loop of broadcastLoop.
Retrieve ==
    /\ draining
    /\ IF broadcastMB = <<>> THEN draining' = FALSE /\ UNCHANGED <<broadcastMB, slot>>
       ELSE /\ BroadcastNewLongestChain(Head(broadcastMB))
            /\ broadcastMB' = Tail(broadcastMB)
            /\ UNCHANGED draining
    /\ UNCHANGED <<feed, notify, calls>>

\* Fault: the heads before the latest are kept.
RetrieveLatest == /\ BroadcastNewLongestChain(broadcastMB[Len(broadcastMB)])
                  /\ broadcastMB' = SubSeq(broadcastMB, 1, Len(broadcastMB) - 1)

RetrieveLatestAndClear == /\ BroadcastNewLongestChain(broadcastMB[Len(broadcastMB)])
                          /\ broadcastMB' = <<>>

\* The ticker of broadcastLoop, with sampling.
Sample ==
    /\ trackerUp /\ sampling /\ broadcastMB # <<>>
    /\ RetrieveLatestAndClear
    /\ UNCHANGED <<feed, notify, draining, calls>>

-----------------------------------------------------------------------------
(* The broadcaster.                                                         *)

\* Fault: latest is set when the round is over, not with the copy of the
\* callbacks.
TakeHeadLate(h) == UNCHANGED latest

\* executeCallbacks under the mutex: the head is the latest one from here on.
TakeHead(h) == latest' = h

\* executeCallbacks, up to the start of the callbacks.
executeCallbacks ==
    /\ up /\ mnotify /\ round = None
    /\ mnotify' = FALSE
    /\ mailbox' = None
    /\ IF mailbox = None THEN UNCHANGED <<latest, round, calling>>
       ELSE TakeHead(mailbox) /\ round' = mailbox /\ calling' = callbacks
    /\ UNCHANGED <<feed, forwarding, callbacks, up, told>>

\* A callback returns.  That of a subscription that is gone tells nobody.
OnNewLongestChain(s) ==
    /\ s \in calling
    /\ calling' = calling \ {s}
    /\ told' = IF s \in callbacks THEN [told EXCEPT ![s] = round] ELSE told
    /\ UNCHANGED <<feed, forwarding, slot, latest, callbacks, round, up>>

\* wg.Wait returns.
EndRound ==
    /\ round # None /\ calling = {}
    /\ round' = None
    /\ UNCHANGED <<feed, forwarding, slot, latest, callbacks, calling, up, told>>

\* Subscribe returns the latest head with the subscription.  A caller that
\* subscribes again may still have an old callback running.
Subscribe(s) ==
    /\ s \notin callbacks
    /\ callbacks' = callbacks \cup {s}
    /\ told' = [told EXCEPT ![s] = latest]
    /\ UNCHANGED <<feed, forwarding, slot, latest, round, calling, up>>

UnsubscribeCallback(s) ==
    /\ s \in callbacks
    /\ callbacks' = callbacks \ {s}
    /\ told' = [told EXCEPT ![s] = None]
    /\ UNCHANGED <<feed, forwarding, slot, latest, round, calling, up>>

\* Close: the callbacks are cleared and run ends after its round.
Close ==
    /\ up
    /\ up' = FALSE
    /\ callbacks' = {}
    /\ told' = [s \in Subscribers |-> None]
    /\ UNCHANGED <<feed, forwarding, slot, latest, round, calling>>

BroadcasterNext ==
    \/ Deliver \/ TrackerCloses \/ broadcastLoop \/ Retrieve \/ Sample
    \/ executeCallbacks \/ EndRound \/ Close
    \/ \E s \in Subscribers : OnNewLongestChain(s) \/ Subscribe(s) \/ UnsubscribeCallback(s)

BroadcasterSpec == BroadcasterInit /\ [][BroadcasterNext]_broadcasting

\* The goroutines run, the ticker fires, and a callback returns by its timeout.
FairBroadcasterSpec ==
    /\ BroadcasterSpec
    /\ WF_broadcasting(broadcastLoop) /\ WF_broadcasting(Retrieve) /\ WF_broadcasting(Sample)
    /\ WF_broadcasting(executeCallbacks) /\ WF_broadcasting(EndRound)
    /\ \A s \in Subscribers : WF_broadcasting(OnNewLongestChain(s))

-----------------------------------------------------------------------------
(* Properties.                                                              *)

MaybeHead == Heads \cup {None}

\* Every variable has its type, and the mailbox stays within its capacity.
BroadcasterTypeOK ==
    /\ sampling \in BOOLEAN /\ delivered \in MaybeHead
    /\ broadcastMB \in Seq(Heads) /\ Len(broadcastMB) <= HeadsBufferSize
    /\ notify \in BOOLEAN /\ draining \in BOOLEAN /\ trackerUp \in BOOLEAN
    /\ mailbox \in MaybeHead /\ mnotify \in BOOLEAN
    /\ latest \in MaybeHead /\ round \in MaybeHead
    /\ callbacks \subseteq Subscribers /\ calling \subseteq Subscribers
    /\ up \in BOOLEAN
    /\ told \in [Subscribers -> MaybeHead]

\* A subscriber either was given the latest head by Subscribe or has been or is
\* being called with it: copying the callbacks and setting latest are one
\* critical section, so nobody falls between the two.
NoneMissed == \A s \in callbacks \ calling : told[s] = latest

\* What a subscriber is told rises in block number for as long as it stays
\* subscribed: a slow callback of one head never ends after that of the next,
\* and no mailbox hands out an older head after a newer one.
ToldRises ==
    [][\A s \in callbacks \cap callbacks' :
          told'[s] = told[s] \/ Number(told'[s]) > Number(told[s])]_broadcasting

\* The highest head reaches every subscriber that stays, although both
\* mailboxes drop heads and a notification may stand for several.
HeadsArrive ==
    \A s \in Subscribers :
        (Number(delivered) = MaxHeight /\ s \in callbacks)
            ~> (Number(told[s]) = MaxHeight \/ s \notin callbacks
                \/ ~trackerUp \/ ~up)

=============================================================================
