-------------------------- MODULE MQTTClientProofs --------------------------
(***************************************************************************)
(* Theorems about MQTTClient, for any number of senders, of losses of the  *)
(* connection and of failures: what connected_ and needResubscribe_ are    *)
(* worth while the gateway serves.                                         *)
(***************************************************************************)
EXTENDS MQTTClient, SequenceTheorems, TLAPS

\* The main thread has a connection, and is before close.
Connected == mpc \in {"mark", "subscribe", "wait", "first", "loop", "resubscribe", "clear"}

\* start has got past its subscribe, which is answered, or may still be.
PastSubscribe == mpc \in {"first", "loop", "resubscribe", "clear"} \/ (mpc = "wait" /\ request # "lost")

\* The last callback to come tells what the connection is.
LinkInv ==
    /\ Connected => link \in {"up", "down"}
    /\ mpc = "start" => link = "new" /\ callbacks = <<>>
    /\ Connected /\ callbacks # <<>> => (callbacks[Len(callbacks)] = "connected" <=> link = "up")
    /\ request = "sent" => link = "up"

\* When there is none to come, connected_ tells it too.  StartMarks may set it although
\* the connection is lost, but then the subscribe fails.
KnowsInv ==
    Connected /\ callbacks = <<>> /\ ~muted =>
        /\ link = "up" => connected_
        /\ link # "up" /\ PastSubscribe => ~connected_

\* A callback to come or running.
Coming(callback) == cpc = callback \/ \E k \in DOMAIN callbacks : callbacks[k] = callback

\* The subscription is asked for again, or will be by a callback.
Asked == needResubscribe_ \/ Coming("lost") \/ (firstConnectDone_ /\ Coming("connected"))

\* Until the loop nothing clears needResubscribe_; in it, every callback asks again.
OwesInv ==
    /\ mpc \in {"loop", "resubscribe", "clear"} => firstConnectDone_
    /\ mpc \in {"wait", "first"} /\ link = "down" => needResubscribe_ \/ Coming("lost")
    /\ mpc \in {"wait", "first", "loop", "resubscribe", "clear"} /\ link = "up" /\ ~lostOrder
           => subscribed \/ request = "sent" \/ Asked

IInv == TypeOK /\ LinkInv /\ KnowsInv /\ OwesInv
-----------------------------------------------------------------------------
\* The callbacks to come, after one is added or begins.
LEMMA CallbackAdded ==
    ASSUME NEW q \in Seq({"connected", "lost"}), NEW c \in {"connected", "lost"}
    PROVE  /\ Append(q, c) \in Seq({"connected", "lost"}) /\ Append(q, c) # <<>>
           /\ Append(q, c)[Len(Append(q, c))] = c
           /\ Len(q) + 1 \in DOMAIN Append(q, c) /\ Append(q, c)[Len(q) + 1] = c
           /\ \A k \in DOMAIN q : k \in DOMAIN Append(q, c) /\ Append(q, c)[k] = q[k]
BY AppendProperties, LenProperties

LEMMA CallbackTaken ==
    ASSUME NEW q \in Seq({"connected", "lost"}), q # <<>>
    PROVE  /\ Head(q) \in {"connected", "lost"} /\ Tail(q) \in Seq({"connected", "lost"})
           /\ Head(q) = q[1] /\ Len(Tail(q)) = Len(q) - 1 /\ Len(q) \in Nat
           /\ Tail(q) = <<>> => Len(q) = 1
           /\ Tail(q) # <<>> => Tail(q)[Len(Tail(q))] = q[Len(q)]
           /\ \A k \in DOMAIN q : k = 1 \/ (k - 1 \in DOMAIN Tail(q) /\ Tail(q)[k - 1] = q[k])
<1>1. Len(q) \in Nat \ {0} /\ DOMAIN q = 1 .. Len(q)
  BY EmptySeq, LenProperties
<1>2. Head(q) = q[1] /\ Tail(q) \in Seq({"connected", "lost"}) /\ Len(Tail(q)) = Len(q) - 1
  BY HeadTailProperties
<1>3. DOMAIN Tail(q) = 1 .. Len(q) - 1 /\ \A k \in 1 .. Len(q) - 1 : Tail(q)[k] = q[k + 1]
  BY <1>2, LenProperties, HeadTailProperties
<1>4. Head(q) \in {"connected", "lost"}
  BY <1>1, <1>2, ElementOfSeq
<1>5. Tail(q) = <<>> => Len(q) = 1
  BY <1>1, <1>2, EmptySeq
<1>6. Tail(q) # <<>> => Tail(q)[Len(Tail(q))] = q[Len(q)]
  BY <1>1, <1>2, <1>3, EmptySeq
<1> QED
  BY <1>1, <1>2, <1>3, <1>4, <1>5, <1>6

LEMMA FlagsStep == TypeOK /\ Next => FlagsOK'
<1> SUFFICES ASSUME FlagsOK, Next PROVE FlagsOK'
  BY DEF TypeOK
<1> USE DEF FlagsOK, flags, main, library, ghosts
<1>1. CASE Start
  BY <1>1 DEF Start, StartConnects, StartConnectFails, StartMarks, StartSubscribes, StartWaits, StartDone, StartCatches
<1>2. CASE Resubscribe \/ LeaveLoop \/ Close
  BY <1>2, Zenon DEF Resubscribe, TryResubscribe, ResubscribeSends, ResubscribeClears, LeaveLoop,
                     Close, CloseMarks, CloseForgets, CloseDisconnects
<1>3. ASSUME NEW s \in Senders, Send(s) PROVE FlagsOK'
  BY <1>3, Zenon DEF Send, SendTests, SendLocks, SendPublishes, SendPublishFails, SendAcked, SendFails, SendCatches, Goto
<1>4. CASE Library
  BY <1>4, Zenon DEF Library, Lose, Reconnect, SubAck, CallbackBegins, CallbackEnds, ConnectedAfter, AsksAgain
<1> QED
  BY <1>1, <1>2, <1>3, <1>4 DEF Next

LEMMA ThreadsStep == TypeOK /\ Next => ThreadsOK'
<1> SUFFICES ASSUME ThreadsOK, Next PROVE ThreadsOK'
  BY DEF TypeOK
<1> USE DEF ThreadsOK, main
<1>1. CASE Start
  BY <1>1 DEF Start, StartConnects, StartConnectFails, StartMarks, StartSubscribes, StartWaits, StartDone, StartCatches
<1>2. CASE Resubscribe \/ LeaveLoop
  BY <1>2 DEF Resubscribe, TryResubscribe, ResubscribeSends, ResubscribeClears, LeaveLoop
<1>3. CASE Close
  BY <1>3 DEF Close, CloseMarks, CloseForgets, CloseDisconnects
<1>4. ASSUME NEW s \in Senders, Send(s) PROVE ThreadsOK'
  BY <1>4 DEF Send, SendTests, SendLocks, SendPublishes, SendPublishFails, SendAcked, SendFails, SendCatches, Goto
<1>5. CASE Library
  BY <1>5 DEF Library, Lose, Reconnect, SubAck, CallbackBegins, CallbackEnds
<1> QED
  BY <1>1, <1>2, <1>3, <1>4, <1>5 DEF Next

LEMMA LinkOKStep == TypeOK /\ Next => LinkOK'
<1> SUFFICES ASSUME LinkOK, Next PROVE LinkOK'
  BY DEF TypeOK
<1> USE DEF LinkOK, library
<1>1. CASE StartConnects
  <2>1. <<"connected">> \in Seq({"connected", "lost"})
    OBVIOUS
  <2> QED
    BY <1>1, <2>1 DEF StartConnects
<1>2. CASE StartConnectFails \/ StartMarks \/ StartSubscribes \/ StartWaits \/ StartDone \/ StartCatches
  BY <1>2 DEF StartConnectFails, StartMarks, StartSubscribes, StartWaits, StartDone, StartCatches
<1>3. CASE Resubscribe \/ LeaveLoop \/ Close
  BY <1>3 DEF Resubscribe, TryResubscribe, ResubscribeSends, ResubscribeClears, LeaveLoop,
              Close, CloseMarks, CloseForgets, CloseDisconnects
<1>4. ASSUME NEW s \in Senders, Send(s) PROVE LinkOK'
  BY <1>4 DEF Send, SendTests, SendLocks, SendPublishes, SendPublishFails, SendAcked, SendFails, SendCatches, Goto
<1>5. CASE Lose \/ Reconnect
  BY <1>5, CallbackAdded DEF Lose, Reconnect
<1>6. CASE CallbackBegins
  BY <1>6, CallbackTaken DEF CallbackBegins
<1>7. CASE SubAck \/ CallbackEnds
  BY <1>7 DEF SubAck, CallbackEnds
<1> QED
  BY <1>1, <1>2, <1>3, <1>4, <1>5, <1>6, <1>7 DEF Next, Start, Library

LEMMA CountsStep == TypeOK /\ Next => CountsOK'
<1> SUFFICES ASSUME CountsOK, Next PROVE CountsOK'
  BY DEF TypeOK
<1> USE ClientAssumption DEF CountsOK, ClientAssumption, library
<1>1. CASE Start
  BY <1>1 DEF Start, StartConnects, StartConnectFails, Fault, StartMarks, StartSubscribes, StartWaits, StartDone, StartCatches
<1>2. CASE Resubscribe \/ LeaveLoop \/ Close
  BY <1>2 DEF Resubscribe, TryResubscribe, ResubscribeSends, ResubscribeClears, LeaveLoop,
              Close, CloseMarks, CloseForgets, CloseDisconnects
<1>3. ASSUME NEW s \in Senders, Send(s) PROVE CountsOK'
  BY <1>3 DEF Send, SendTests, SendLocks, SendPublishes, SendPublishFails, Fault, SendAcked, SendFails, SendCatches, Goto
<1>4. CASE Lose
  BY <1>4 DEF Lose
<1>5. CASE Reconnect \/ SubAck
  BY <1>5 DEF Reconnect, SubAck
<1>6. CASE CallbackBegins \/ CallbackEnds
  BY <1>6 DEF CallbackBegins, CallbackEnds
<1> QED
  BY <1>1, <1>2, <1>3, <1>4, <1>5, <1>6 DEF Next, Library

LEMMA TypeStep == TypeOK /\ [Next]_vars => TypeOK'
<1>1. TypeOK /\ UNCHANGED vars => TypeOK'
  BY DEF TypeOK, FlagsOK, ThreadsOK, LinkOK, CountsOK, vars, flags, main, library, ghosts
<1>2. TypeOK /\ Next => TypeOK'
  BY FlagsStep, ThreadsStep, LinkOKStep, CountsStep DEF TypeOK
<1> QED
  BY <1>1, <1>2
-----------------------------------------------------------------------------
\* The senders do not touch what the client knows of the connection, but for the
\* flag that a failing send clears.
LEMMA SendLeaves ==
    ASSUME NEW s \in Senders, Send(s)
    PROVE  /\ UNCHANGED <<mpc, link, callbacks, cpc, request, subscribed, needResubscribe_, firstConnectDone_, lostOrder>>
           /\ \/ UNCHANGED <<connected_, muted>>
              \/ /\ connected_' = FALSE
                 /\ muted' = (muted \/ (link = "up" /\ \A k \in DOMAIN callbacks : callbacks[k] = "lost"))
BY DEF Send, SendTests, SendLocks, SendPublishes, SendPublishFails, SendAcked, SendFails, SendCatches,
       Goto, flags, main, library, ghosts

LEMMA LinkStep == IInv /\ [Next]_vars => LinkInv'
<1> SUFFICES ASSUME IInv, [Next]_vars PROVE LinkInv'
  OBVIOUS
<1> USE DEF Connected, LinkInv, IInv, flags, main, library, ghosts
<1>0. callbacks \in Seq({"connected", "lost"})
  BY DEF TypeOK, LinkOK
<1>1. CASE StartConnects
  BY <1>1 DEF StartConnects
<1>2. CASE StartConnectFails \/ StartMarks \/ StartSubscribes \/ StartWaits \/ StartDone \/ StartCatches
  BY <1>2 DEF StartConnectFails, StartMarks, StartSubscribes, StartWaits, StartDone, StartCatches
<1>3. CASE Resubscribe \/ LeaveLoop
  BY <1>3 DEF Resubscribe, TryResubscribe, ResubscribeSends, ResubscribeClears, LeaveLoop
<1>4. CASE Close
  BY <1>4 DEF Close, CloseMarks, CloseForgets, CloseDisconnects
<1>5. ASSUME NEW s \in Senders, Send(s) PROVE LinkInv'
  BY <1>5, SendLeaves
<1>6. CASE Lose
  BY <1>0, <1>6, CallbackAdded DEF Lose
<1>7. CASE Reconnect
  BY <1>0, <1>7, CallbackAdded DEF Reconnect
<1>8. CASE SubAck \/ CallbackEnds
  BY <1>8 DEF SubAck, CallbackEnds
<1>9. CASE CallbackBegins
  BY <1>0, <1>9, CallbackTaken DEF CallbackBegins
<1>10. CASE UNCHANGED vars
  BY <1>10 DEF vars
<1> QED
  BY <1>1, <1>2, <1>3, <1>4, <1>5, <1>6, <1>7, <1>8, <1>9, <1>10 DEF Next, Start, Library

LEMMA KnowsStep == IInv /\ [Next]_vars => KnowsInv'
<1> SUFFICES ASSUME IInv, [Next]_vars PROVE KnowsInv'
  OBVIOUS
<1> USE DEF Connected, PastSubscribe, KnowsInv, IInv, flags, main, library, ghosts
<1>0. callbacks \in Seq({"connected", "lost"})
  BY DEF TypeOK, LinkOK
<1>1. CASE StartConnects
  BY <1>1 DEF StartConnects
<1>2. CASE StartMarks
  BY <1>2 DEF StartMarks
<1>3. CASE StartSubscribes
  BY <1>3 DEF StartSubscribes
<1>4. CASE StartWaits \/ StartDone
  BY <1>4 DEF StartWaits, StartDone
<1>5. CASE StartConnectFails \/ StartCatches \/ LeaveLoop \/ Close
  BY <1>5 DEF StartConnectFails, StartCatches, LeaveLoop, Close, CloseMarks, CloseForgets, CloseDisconnects
<1>6. CASE Resubscribe
  BY <1>6 DEF Resubscribe, TryResubscribe, ResubscribeSends, ResubscribeClears
<1>7. ASSUME NEW s \in Senders, Send(s) PROVE KnowsInv'
  <2>1. callbacks = <<>> => \A k \in DOMAIN callbacks : callbacks[k] = "lost"
    OBVIOUS
  <2> QED
    BY <1>7, <2>1, SendLeaves
<1>8. CASE Lose \/ Reconnect
  BY <1>0, <1>8, CallbackAdded DEF Lose, Reconnect
<1>9. CASE SubAck \/ CallbackEnds
  BY <1>9 DEF LinkInv, SubAck, CallbackEnds
<1>10. CASE CallbackBegins
  <2> SUFFICES ASSUME Connected', callbacks' = <<>> PROVE connected_' = (link = "up")
    BY <1>10 DEF CallbackBegins
  <2>1. callbacks[1] = Head(callbacks) /\ Len(callbacks) = 1
    BY <1>0, <1>10, CallbackTaken DEF CallbackBegins
  <2>2. connected_' = (callbacks[Len(callbacks)] = "connected")
    BY <1>10, <2>1 DEF CallbackBegins, ConnectedAfter
  <2> QED
    BY <1>10, <2>2 DEF CallbackBegins, LinkInv
<1>11. CASE UNCHANGED vars
  BY <1>11 DEF vars
<1> QED
  BY <1>1, <1>2, <1>3, <1>4, <1>5, <1>6, <1>7, <1>8, <1>9, <1>10, <1>11 DEF Next, Start, Library

\* No callback is lost from sight when one begins, and none when one is added.
LEMMA ComingStays ==
    ASSUME TypeOK, Lose \/ Reconnect \/ CallbackBegins, NEW c \in {"connected", "lost"}, Coming(c)
    PROVE  Coming(c)'
<1>0. callbacks \in Seq({"connected", "lost"}) /\ cpc \in {"idle", "connected", "lost"}
  BY DEF TypeOK, LinkOK
<1>1. CASE Lose \/ Reconnect
  <2>1. PICK d \in {"connected", "lost"} : callbacks' = Append(callbacks, d) /\ cpc' = cpc
    BY <1>1 DEF Lose, Reconnect
  <2>2. \A k \in DOMAIN callbacks : k \in DOMAIN callbacks' /\ callbacks'[k] = callbacks[k]
    BY <1>0, <2>1, CallbackAdded
  <2> QED
    BY <2>1, <2>2 DEF Coming
<1>2. CASE CallbackBegins
  <2>1. PICK k \in DOMAIN callbacks : callbacks[k] = c
    BY <1>0, <1>2 DEF CallbackBegins, Coming
  <2>2. k = 1 => cpc' = c
    BY <1>0, <1>2, <2>1, CallbackTaken DEF CallbackBegins
  <2>3. k # 1 => k - 1 \in DOMAIN callbacks' /\ callbacks'[k - 1] = c
    BY <1>0, <1>2, <2>1, CallbackTaken DEF CallbackBegins
  <2> QED
    BY <2>2, <2>3 DEF Coming
<1> QED
  BY <1>1, <1>2

LEMMA OwesStep == IInv /\ [Next]_vars => OwesInv'
<1> SUFFICES ASSUME IInv, [Next]_vars PROVE OwesInv'
  OBVIOUS
<1> USE DEF OwesInv, IInv, flags, main, library, ghosts
<1>0. callbacks \in Seq({"connected", "lost"})
  BY DEF TypeOK, LinkOK
<1>1. CASE UNCHANGED <<callbacks, cpc>>
  <2>1. Coming("lost")' = Coming("lost") /\ Coming("connected")' = Coming("connected")
    BY <1>1 DEF Coming
  <2>2. CASE Start
    BY <2>1, <2>2 DEF Asked, LinkInv, Start, StartConnects, StartConnectFails, StartMarks, StartSubscribes, StartWaits,
                      StartDone, StartCatches
  <2>3. CASE TryResubscribe \/ ResubscribeSends \/ LeaveLoop
    BY <2>1, <2>3 DEF Asked, TryResubscribe, ResubscribeSends, LeaveLoop
  <2>9. CASE ResubscribeClears
    <3>1. ~lostOrder' => subscribed \/ request = "sent"
      BY <2>9, Zenon DEF ResubscribeClears
    <3> QED
      BY <2>1, <2>9, <3>1 DEF ResubscribeClears
  <2>4. CASE Close
    BY <2>4 DEF Close, CloseMarks, CloseForgets, CloseDisconnects
  <2>5. ASSUME NEW s \in Senders, Send(s) PROVE OwesInv'
    BY <2>1, <2>5, SendLeaves DEF Asked
  <2>6. CASE SubAck
    BY <2>1, <2>6 DEF Asked, SubAck
  <2>7. CASE UNCHANGED vars
    BY <2>1, <2>7 DEF Asked, vars
  <2>8. ~Lose /\ ~Reconnect /\ ~CallbackBegins /\ ~CallbackEnds
    <3>1. Append(callbacks, "lost") # callbacks /\ Append(callbacks, "connected") # callbacks
      BY <1>0, AppendProperties, LenProperties
    <3>2. callbacks # <<>> => Tail(callbacks) # callbacks
      BY <1>0, CallbackTaken
    <3> QED
      BY <1>1, <3>1, <3>2 DEF Lose, Reconnect, CallbackBegins, CallbackEnds
  <2> QED
    BY <2>2, <2>3, <2>4, <2>5, <2>6, <2>7, <2>8, <2>9 DEF Next, Resubscribe, Library
<1>2. CASE StartConnects
  BY <1>2 DEF StartConnects
<1>3. CASE Lose
  <2>1. Coming("lost")'
    BY <1>0, <1>3, CallbackAdded DEF Lose, Coming
  <2> QED
    BY <1>3, <2>1 DEF Lose, Asked
<1>4. CASE Reconnect
  <2>1. Coming("connected")'
    BY <1>0, <1>4, CallbackAdded DEF Reconnect, Coming
  <2>2. Coming("lost") => Coming("lost")'
    BY <1>4, ComingStays
  <2> QED
    BY <1>4, <2>1, <2>2 DEF Reconnect, Asked
<1>5. CASE CallbackBegins
  <2>1. (Coming("lost") => Coming("lost")') /\ (Coming("connected") => Coming("connected")')
    BY <1>5, ComingStays
  <2> QED
    BY <1>5, <2>1 DEF CallbackBegins, Asked
<1>6. CASE CallbackEnds
  <2>1. (needResubscribe_ \/ AsksAgain => needResubscribe_') /\ (~lostOrder' => ~lostOrder \/ AsksAgain)
    BY <1>6, Zenon DEF CallbackEnds
  <2>2. UNCHANGED <<mpc, link, subscribed, request, firstConnectDone_, callbacks>>
    BY <1>6 DEF CallbackEnds
  <2>3. CASE AsksAgain
    BY <2>1, <2>2, <2>3 DEF Asked
  <2>4. CASE ~AsksAgain
    <3>1. (Coming("lost") => Coming("lost")') /\ ~firstConnectDone_
      BY <2>2, <2>4 DEF AsksAgain, Coming
    <3> QED
      BY <2>1, <2>2, <2>4, <3>1 DEF Asked
  <2> QED
    BY <2>3, <2>4
<1>7. (Start /\ ~StartConnects) \/ Resubscribe \/ LeaveLoop \/ Close \/ SubAck \/ UNCHANGED vars
        \/ (\E s \in Senders : Send(s)) => UNCHANGED <<callbacks, cpc>>
  BY SendLeaves DEF Start, StartConnectFails, StartMarks, StartSubscribes, StartWaits,
         StartDone, StartCatches, Resubscribe, TryResubscribe, ResubscribeSends, ResubscribeClears,
         LeaveLoop, Close, CloseMarks, CloseForgets, CloseDisconnects, SubAck, vars
<1> QED
  BY <1>1, <1>2, <1>3, <1>4, <1>5, <1>6, <1>7 DEF Next, Library
-----------------------------------------------------------------------------
LEMMA InitInv == Init => IInv
<1> SUFFICES ASSUME Init PROVE IInv
  OBVIOUS
<1>1. FlagsOK
  BY DEF Init, FlagsOK
<1>5. LinkOK
  BY EmptySeq DEF Init, LinkOK
<1>2. ThreadsOK
  BY DEF Init, ThreadsOK
<1>3. CountsOK
  BY ClientAssumption DEF Init, CountsOK, ClientAssumption
<1>4. LinkInv /\ KnowsInv /\ OwesInv
  BY DEF Init, Connected, LinkInv, KnowsInv, OwesInv
<1> QED
  BY <1>1, <1>2, <1>3, <1>4, <1>5 DEF IInv, TypeOK

LEMMA NextInv == IInv /\ [Next]_vars => IInv'
BY TypeStep, LinkStep, KnowsStep, OwesStep DEF IInv

LEMMA Invariance == Spec => []IInv
BY InitInv, NextInv, PTL DEF Spec

\* Every variable keeps its type; start and close follow their steps.
THEOREM TypeCorrect == Spec => []TypeOK
<1>1. IInv => TypeOK
  BY DEF IInv
<1> QED
  BY <1>1, Invariance, PTL

\* While the gateway serves and the callbacks have run, connected_ says whether the
\* connection is up, unless a failing send has cleared it meanwhile.
THEOREM KnowsItsConnection == Spec => []KnowsConnection
<1>1. IInv => KnowsConnection
  <2> SUFFICES ASSUME IInv, Serving, Settled, ~muted PROVE connected_ = (link = "up")
    BY DEF KnowsConnection
  <2>1. connected_ \in BOOLEAN
    BY DEF IInv, TypeOK, FlagsOK
  <2>2. (link = "up" => connected_) /\ (link # "up" => ~connected_)
    BY DEF IInv, KnowsInv, Connected, PastSubscribe, Serving, Settled
  <2> QED
    BY <2>1, <2>2
<1> QED
  BY <1>1, Invariance, PTL

\* While the gateway serves and the callbacks have run, a connection has its
\* subscription, or the subscribe is under way, or needResubscribe_ is set, unless the
\* flag was cleared for a subscribe that did not last until then.
THEOREM OwesItsSubscription == Spec => []OwesSubscription
<1>1. IInv => OwesSubscription
  <2> SUFFICES ASSUME IInv, Serving, Settled, link = "up", ~lostOrder
               PROVE  subscribed \/ request = "sent" \/ needResubscribe_
    BY DEF OwesSubscription
  <2>1. ~Coming("lost") /\ ~Coming("connected")
    BY DEF Coming, Settled
  <2> QED
    BY <2>1 DEF IInv, OwesInv, Asked, Serving
<1> QED
  BY <1>1, Invariance, PTL
=============================================================================
