-------------------------- MODULE WiFiMultiProperties --------------------------
(***************************************************************************)
(* What a sketch may rely on of run().                                     *)
(***************************************************************************)
EXTENDS WiFiMulti

Ways(n) == {i \in DOMAIN aps : aps[i].ssid = n.ssid /\ (n.open \/ aps[i].pass)}
ListedOnce == \A i, j \in DOMAIN aps : aps[i].ssid = aps[j].ssid => i = j

\* run() begins with a network of the list that can be joined, the strongest of
\* those the scan showed, and with none only if there is none; unless a name is
\* listed twice, where the passphrase of the entry added first is forgotten, or the
\* scan showed more networks than an int8_t counts.
PicksStrongest ==
    run.at = "picked" /\ ListedOnce /\ run.found < Half =>
        LET joinable == {i \in 1..run.found : Ways(run.seen[i]) # {}} IN
        IF run.pick = None THEN joinable = {}
        ELSE \E i \in joinable : /\ run.seen[i] = run.pick
                                 /\ \A j \in joinable : run.seen[j].rssi <= run.pick.rssi

\* When run() answers CONNECTED, it is with a network of its list, or status()
\* still told of a connection that was already gone when it was read; unless the
\* driver refused to leave a network that is not listed, which run() does not see.
ConnectedToAListed ==
    run.at = "done" /\ run.status = "connected" /\ ~run.refused =>
        run.link \in Listed \cup {None}
================================================================================
