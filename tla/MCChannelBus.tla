---------------------------- MODULE MCChannelBus ----------------------------
(* Instances of ChannelBus for TLC. *)
EXTENDS ChannelBus, TLC

CONSTANTS p1, p2, orders, carts, s1, s2

Ev(topic, stream, by, n) == [topic |-> topic, stream |-> stream, by |-> by, n |-> n]

a1 == Ev(orders, s1, p1, 1)
a2 == Ev(orders, s1, p1, 2)
b1 == Ev(orders, s2, p2, 1)
b2 == Ev(carts, s1, p2, 2)
x1 == Ev(carts, s1, orders, 2)
x2 == Ev(orders, s2, orders, 1)

\* Handling a1 publishes x2 to orders again and x1 to carts, for which the bus
\* has no channel unless it was subscribed to
FeedbackEvents == {a1, a2, b2, x1, x2}
FeedbackBatch  == p1 :> <<a1, a2>> @@ p2 :> <<b2>>
EmitsFeedback  == [e \in Events |-> IF e = a1 THEN <<x2, x1>> ELSE <<>>]

\* Handling a1 publishes x1 only
ForwardEvents == {a1, a2, b1, b2, x1}
ForwardBatch  == p1 :> <<a1, a2>> @@ p2 :> <<b1, b2>>
EmitsForward  == [e \in Events |-> IF e = a1 THEN <<x1>> ELSE <<>>]

\* Up to the names of the partitions
UpToNames == {h \in [StreamKeys -> 1..PN] : \A t \in Topics : h[<<t, s1>>] = 1}

\* One handler for all events
Undoing == {<<"undoes">>}

\* Three handlers that can be rolled back, or one of another kind among them
Kinds == {<<"undoes", "undoes", "undoes">>, <<"handles", "undoes", "undoes">>,
          <<"nothing", "handles", "undoes">>, <<"undoes", "nothing", "missing">>}

\* Handlers 1 and 3 match the events of p1, handler 2 every event except b1
SomeMatch == [e \in Events |-> CASE e.by = p1 -> {1, 2, 3} [] e = b1 -> {} [] OTHER -> {2}]
OneMatches == [e \in Events |-> {1}]
=============================================================================
