------------------------------ MODULE MCRouting ------------------------------
(* Two clients; filters and topics chosen so that a wildcard, a parent level  *)
(* and overlapping subscriptions meet.                                        *)
EXTENDS Routing
CONSTANTS c1, c2
MCTopics == {<<"a">>, <<"a", "b">>}
MCWanted == {<<c1, <<"a", "#">>, 1>>, <<c1, <<"a", "+">>, 0>>, <<c2, <<"a">>, 1>>, <<c2, <<"+">>, 0>>}
MCFilters == {w[2] : w \in MCWanted}
MCSession == {<<c1, FALSE>>, <<c2, TRUE>>, <<c1, TRUE>>}
MCPublished == {<<<<"a">>, 1, TRUE, FALSE>>, <<<<"a">>, 0, TRUE, TRUE>>, <<<<"a", "b">>, 1, TRUE, FALSE>>}
MCPublished2 == {<<c2, <<"a">>, FALSE>>, <<c2, NoTopic, FALSE>>}
MCDollar == {"$SYS"}
MCReadAcl == {<<c1, <<"a", "#">>>>, <<c2, <<"+">>>>}

\* the instance of the run that restarts the broker
RestartTopics == {<<"a">>, <<"$SYS", "x">>}
RestartWanted == {<<c1, <<"a", "#">>, 1>>, <<c1, <<"", "a">>, 1>>}
RestartFilters == {w[2] : w \in RestartWanted}
RestartSession == {<<c1, FALSE>>, <<c2, TRUE>>}
RestartPublished == {<<<<"a">>, 1, TRUE, FALSE>>, <<<<"$SYS", "x">>, 1, TRUE, FALSE>>}
RestartPublished2 == {<<c2, <<"a">>, FALSE>>, <<c2, NoTopic, FALSE>>}
==============================================================================
