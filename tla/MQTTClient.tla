----------------------------- MODULE MQTTClient -----------------------------
(***************************************************************************)
(* App/_MQTTClient.cpp: the client of the broker, shared by the thread     *)
(* that starts it, resubscribes and closes it, by the workers of the pool  *)
(* that send, and by the library's thread that runs the callbacks.         *)
(*                                                                         *)
(* What they share are three atomic flags, each written by two of them or  *)
(* more, and a mutex around publish.  subMutex_ is left out: only the main *)
(* thread subscribes.                                                      *)
(*                                                                         *)
(* The library and the broker are modelled from their use: the connection  *)
(* is lost and made again by itself, and callbacks follow in that order.   *)
(***************************************************************************)
EXTENDS Integers, Sequences

CONSTANTS
    Senders,    \* threads that call send
    MaxLosses,  \* bound: losses of the connection
    MaxFaults   \* bound: failing connects and failing publishes while connected

ASSUME ClientAssumption == MaxLosses \in Nat /\ MaxFaults \in Nat

VARIABLES
    connected_, needResubscribe_, firstConnectDone_,
    mpc,            \* the main thread: start, the loop of runGateway, close
    closes,         \* calls of close so far
    spc,            \* each sender
    cpc,            \* the callback that is running
    link,           \* the library's connection
    callbacks,      \* callbacks to come
    subscribed,     \* the broker has the subscription
    request,        \* the last subscribe: none, sent and not answered, or lost
    muted,          \* a failing send cleared connected_ although the connection is up
    lostOrder,      \* needResubscribe_ was cleared for a subscribe that did not last
    losses, faults

flags == <<connected_, needResubscribe_, firstConnectDone_>>
main == <<mpc, closes>>
library == <<cpc, link, callbacks, subscribed, request, losses>>
ghosts == <<muted, lostOrder>>
vars == <<flags, main, spc, library, ghosts, faults>>

Init ==
    /\ connected_ = FALSE /\ needResubscribe_ = FALSE /\ firstConnectDone_ = FALSE
    /\ mpc = "start" /\ closes = 0
    /\ spc = [s \in Senders |-> "idle"]
    /\ cpc = "idle" /\ link = "new" /\ callbacks = <<>>
    /\ subscribed = FALSE /\ request = "none"
    /\ muted = FALSE /\ lostOrder = FALSE
    /\ losses = 0 /\ faults = 0

Fault ==
    /\ faults < MaxFaults
    /\ faults' = faults + 1
-----------------------------------------------------------------------------
(* start                                                                   *)

StartConnects ==
    /\ mpc = "start"
    /\ link' = "up"
    /\ callbacks' = <<"connected">>
    /\ mpc' = "mark"
    /\ UNCHANGED <<flags, closes, spc, cpc, subscribed, request, losses, ghosts, faults>>

StartConnectFails ==
    /\ mpc = "start"
    /\ Fault
    /\ mpc' = "catch"
    /\ UNCHANGED <<flags, closes, spc, library, ghosts>>

StartMarks ==
    /\ mpc = "mark"
    /\ connected_' = TRUE
    /\ mpc' = "subscribe"
    /\ UNCHANGED <<needResubscribe_, firstConnectDone_, closes, spc, library, ghosts, faults>>

\* subscribe throws when the connection is down.
StartSubscribes ==
    /\ mpc = "subscribe"
    /\ IF link = "up" THEN request' = "sent" /\ mpc' = "wait"
                      ELSE mpc' = "catch" /\ UNCHANGED request
    /\ UNCHANGED <<flags, closes, spc, cpc, link, callbacks, subscribed, losses, ghosts, faults>>

\* The token of the subscribe: answered, or failed.
StartWaits ==
    /\ mpc = "wait"
    /\ \/ request = "none" /\ mpc' = "first"
       \/ request = "lost" /\ mpc' = "catch"
    /\ UNCHANGED <<flags, closes, spc, library, ghosts, faults>>

StartDone ==
    /\ mpc = "first"
    /\ firstConnectDone_' = TRUE
    /\ mpc' = "loop"
    /\ UNCHANGED <<connected_, needResubscribe_, closes, spc, library, ghosts, faults>>

StartCatches ==
    /\ mpc = "catch"
    /\ connected_' = FALSE
    /\ mpc' = "close"
    /\ UNCHANGED <<needResubscribe_, firstConnectDone_, closes, spc, library, ghosts, faults>>

Start ==
    \/ StartConnects \/ StartConnectFails \/ StartMarks \/ StartSubscribes
    \/ StartWaits \/ StartDone \/ StartCatches
-----------------------------------------------------------------------------
(* tryResubscribe, called again and again by the loop                      *)

\* Fault: not while an earlier subscribe was never answered.
TryResubscribeOnce ==
    /\ mpc = "loop"
    /\ needResubscribe_ /\ connected_ /\ link = "up" /\ request = "none"
    /\ mpc' = "resubscribe"
    /\ UNCHANGED <<flags, closes, spc, library, ghosts, faults>>

TryResubscribe ==
    /\ mpc = "loop"
    /\ needResubscribe_ /\ connected_ /\ link = "up"
    /\ mpc' = "resubscribe"
    /\ UNCHANGED <<flags, closes, spc, library, ghosts, faults>>

\* Nobody waits for the answer.
ResubscribeSends ==
    /\ mpc = "resubscribe"
    /\ IF link = "up" THEN request' = "sent" /\ mpc' = "clear"
                      ELSE mpc' = "loop" /\ UNCHANGED request
    /\ UNCHANGED <<flags, closes, spc, cpc, link, callbacks, subscribed, losses, ghosts, faults>>

ResubscribeClears ==
    /\ mpc = "clear"
    /\ needResubscribe_' = FALSE
    /\ lostOrder' = (request # "sent" /\ ~subscribed)
    /\ mpc' = "loop"
    /\ UNCHANGED <<connected_, firstConnectDone_, closes, spc, library, muted, faults>>

\* g_running became false.
LeaveLoop ==
    /\ mpc = "loop"
    /\ mpc' = "close"
    /\ UNCHANGED <<flags, closes, spc, library, ghosts, faults>>

Resubscribe == TryResubscribe \/ ResubscribeSends \/ ResubscribeClears
-----------------------------------------------------------------------------
(* close, called by Route::close, by the destructor of Route and by the    *)
(* destructor of the client                                                *)

CloseMarks ==
    /\ mpc = "close"
    /\ connected_' = FALSE
    /\ mpc' = "forget"
    /\ UNCHANGED <<needResubscribe_, firstConnectDone_, closes, spc, library, ghosts, faults>>

CloseForgets ==
    /\ mpc = "forget"
    /\ needResubscribe_' = FALSE
    /\ mpc' = "disconnect"
    /\ UNCHANGED <<connected_, firstConnectDone_, closes, spc, library, ghosts, faults>>

\* A client that is not connected is left as it is: it goes on to reconnect.
CloseDisconnects ==
    /\ mpc = "disconnect"
    /\ link' = IF link = "up" THEN "off" ELSE link
    /\ request' = IF link = "up" /\ request = "sent" THEN "lost" ELSE request
    /\ closes' = closes + 1
    /\ mpc' = IF closes' < 3 THEN "close" ELSE "closed"
    /\ UNCHANGED <<flags, spc, cpc, callbacks, subscribed, losses, ghosts, faults>>

Close == CloseMarks \/ CloseForgets \/ CloseDisconnects
-----------------------------------------------------------------------------
(* send                                                                    *)

\* The thread in the block guarded by pubMutex_.
InPublish == {s \in Senders : spc[s] \in {"publish", "token"}}

Goto(s, label) ==
    /\ spc' = [spc EXCEPT ![s] = label]
    /\ UNCHANGED <<main, library>>

SendTests(s) ==
    /\ spc[s] = "idle"
    /\ connected_ /\ link = "up"
    /\ Goto(s, "lock")
    /\ UNCHANGED <<flags, ghosts, faults>>

SendLocks(s) ==
    /\ spc[s] = "lock"
    /\ InPublish = {}
    /\ Goto(s, "publish")
    /\ UNCHANGED <<flags, ghosts, faults>>

SendPublishes(s) ==
    /\ spc[s] = "publish"
    /\ IF link = "up" THEN Goto(s, "token") ELSE Goto(s, "catch")
    /\ UNCHANGED <<flags, ghosts, faults>>

\* publish throws although the connection is up.
SendPublishFails(s) ==
    /\ spc[s] = "publish"
    /\ Fault
    /\ Goto(s, "catch")
    /\ UNCHANGED <<flags, ghosts>>

\* Fault: the sender waits for a callback that has run meanwhile.
SendAckedByCallback(s) ==
    /\ spc[s] = "token"
    /\ link = "up" /\ cpc # "idle"
    /\ Goto(s, "idle")
    /\ UNCHANGED <<flags, ghosts, faults>>

\* The token: a message under way when the connection is lost may be sent again
\* after the next connect, or the token fails.
SendAcked(s) ==
    /\ spc[s] = "token"
    /\ link = "up"
    /\ Goto(s, "idle")
    /\ UNCHANGED <<flags, ghosts, faults>>

SendFails(s) ==
    /\ spc[s] = "token"
    /\ link # "up"
    /\ Goto(s, "catch")
    /\ UNCHANGED <<flags, ghosts, faults>>

\* The guard is gone already; a connect in the meantime is not noticed.
SendCatches(s) ==
    /\ spc[s] = "catch"
    /\ connected_' = FALSE
    /\ muted' = (muted \/ (link = "up" /\ \A k \in DOMAIN callbacks : callbacks[k] = "lost"))
    /\ Goto(s, "idle")
    /\ UNCHANGED <<needResubscribe_, firstConnectDone_, lostOrder, faults>>

Send(s) ==
    \/ SendTests(s) \/ SendLocks(s) \/ SendPublishes(s) \/ SendPublishFails(s)
    \/ SendAcked(s) \/ SendFails(s) \/ SendCatches(s)
-----------------------------------------------------------------------------
(* The library and the broker                                              *)

Lose ==
    /\ link = "up"
    /\ losses < MaxLosses
    /\ losses' = losses + 1
    /\ link' = "down"
    /\ callbacks' = Append(callbacks, "lost")
    /\ request' = IF request = "sent" THEN "lost" ELSE request
    /\ UNCHANGED <<flags, main, spc, cpc, subscribed, ghosts, faults>>

\* The broker may have forgotten the session.
Reconnect ==
    /\ link = "down"
    /\ link' = "up"
    /\ callbacks' = Append(callbacks, "connected")
    /\ subscribed' \in {subscribed, FALSE}
    /\ UNCHANGED <<flags, main, spc, cpc, request, losses, ghosts, faults>>

\* The library's thread reads the answer when it has run the callbacks.
SubAck ==
    /\ link = "up" /\ request = "sent"
    /\ callbacks = <<>> /\ cpc = "idle"
    /\ request' = "none"
    /\ subscribed' = TRUE
    /\ UNCHANGED <<flags, main, spc, cpc, link, callbacks, losses, ghosts, faults>>

\* Fault: onConnectionLost leaves the flag alone.
ConnectedAfterNever(callback) == connected_ \/ callback = "connected"

\* onConnected and onConnectionLost begin with connected_.
ConnectedAfter(callback) == callback = "connected"

CallbackBegins ==
    /\ cpc = "idle"
    /\ callbacks # <<>>
    /\ cpc' = Head(callbacks)
    /\ callbacks' = Tail(callbacks)
    /\ connected_' = ConnectedAfter(cpc')
    /\ muted' = FALSE
    /\ UNCHANGED <<needResubscribe_, firstConnectDone_, main, spc, link, subscribed, request,
                   losses, lostOrder, faults>>

\* Fault: only a loss asks for the subscription.
AsksAgainOnLoss == cpc = "lost"

\* Which callbacks ask for the subscription again.
AsksAgain == cpc = "lost" \/ firstConnectDone_

CallbackEnds ==
    /\ cpc # "idle"
    /\ needResubscribe_' = (needResubscribe_ \/ AsksAgain)
    /\ lostOrder' = (lostOrder /\ ~AsksAgain)
    /\ cpc' = "idle"
    /\ UNCHANGED <<connected_, firstConnectDone_, main, spc, link, callbacks, subscribed, request,
                   losses, muted, faults>>

Library == Lose \/ Reconnect \/ SubAck \/ CallbackBegins \/ CallbackEnds

Next == Start \/ Resubscribe \/ LeaveLoop \/ Close \/ (\E s \in Senders : Send(s)) \/ Library

Spec == Init /\ [][Next]_vars

\* Every thread goes on, and answers come as long as the connection is up.  Nobody
\* must lose a connection, make it again or leave the loop.
FairSpec ==
    /\ Spec
    /\ WF_vars(Start) /\ WF_vars(Resubscribe) /\ WF_vars(Close)
    /\ WF_vars(SubAck) /\ WF_vars(CallbackBegins \/ CallbackEnds)
    /\ \A s \in Senders : WF_vars(SendLocks(s) \/ SendPublishes(s) \/ SendAcked(s) \/ SendCatches(s))
-----------------------------------------------------------------------------
FlagsOK ==
    /\ connected_ \in BOOLEAN /\ needResubscribe_ \in BOOLEAN /\ firstConnectDone_ \in BOOLEAN
    /\ subscribed \in BOOLEAN /\ muted \in BOOLEAN /\ lostOrder \in BOOLEAN

ThreadsOK ==
    /\ mpc \in {"start", "mark", "subscribe", "wait", "first", "catch", "loop", "resubscribe", "clear",
                "close", "forget", "disconnect", "closed"}
    /\ closes \in 0 .. 3
    /\ mpc # "closed" => closes < 3
    /\ spc \in [Senders -> {"idle", "lock", "publish", "token", "catch"}]

LinkOK ==
    /\ cpc \in {"idle", "connected", "lost"}
    /\ link \in {"new", "up", "down", "off"}
    /\ callbacks \in Seq({"connected", "lost"})
    /\ request \in {"none", "sent", "lost"}

CountsOK == losses \in 0 .. MaxLosses /\ faults \in 0 .. MaxFaults

TypeOK == FlagsOK /\ ThreadsOK /\ LinkOK /\ CountsOK

\* The main thread is in the loop of runGateway.
Serving == mpc \in {"loop", "resubscribe", "clear"}

\* No callback is to come or running.
Settled == callbacks = <<>> /\ cpc = "idle"

\* While the gateway serves and the callbacks have run, connected_ says whether the
\* connection is up, unless a failing send has cleared it meanwhile (start, send,
\* onConnected, onConnectionLost).
KnowsConnection ==
    Serving /\ Settled /\ ~muted => connected_ = (link = "up")

\* A connection without a subscription is repaired: the subscribe is under way or
\* needResubscribe_ is set, unless tryResubscribe cleared the flag for a subscribe
\* that did not last until then (tryResubscribe, onConnected, onConnectionLost).
OwesSubscription ==
    Serving /\ Settled /\ link = "up" /\ ~lostOrder
        => subscribed \/ request = "sent" \/ needResubscribe_

\* When the connection stays up, the subscription is there again in the end, unless
\* one of the two lost updates happened.
SubscribedAgain ==
    <>[](Serving /\ link = "up" /\ ~muted /\ ~lostOrder) => <>[]subscribed

\* When the connection stays up, no send keeps pubMutex_ for ever (token->wait()).
PublishMutexIsFreed == <>[](link = "up") => []<>(InPublish = {})
=============================================================================
