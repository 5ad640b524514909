------------------------------- MODULE WiFiMulti -------------------------------
(***************************************************************************)
(* WiFiMulti: run() scans, begins with the strongest network of its list   *)
(* and waits.  Between its steps the driver connects, loses the connection *)
(* and, later, the event task brings status() up to date.                  *)
(*                                                                         *)
(* The driver and the scan are external here, as run() sees them: SSID()   *)
(* asks the driver, status() is what the last event left.  Of disconnect() *)
(* and begin(), each call to the driver may be refused; run() looks at     *)
(* neither answer.  A network is a name, a strength and whether it is open.*)
(***************************************************************************)
EXTENDS Integers, Sequences, FiniteSets

CONSTANTS
    Ssid,           \* names
    None,           \* no network
    Rssi,           \* strengths
    Half,           \* 128: networks an int8_t cannot count
    MaxAps,         \* entries a sketch adds
    MaxSeen,        \* networks a scan shows
    MaxNews         \* events that wait

Network == [ssid : Ssid, rssi : Rssi, open : BOOLEAN]

ASSUME MultiAssumption ==
    /\ None \notin Ssid \cup Network
    /\ Rssi \subseteq Int /\ {Half, MaxAps, MaxSeen, MaxNews} \subseteq Nat /\ Half > 1

VARIABLES
    aps,            \* APlist: name, and whether it has a passphrase
    link,           \* the network the driver is connected to
    config,         \* the network it is configured for, by run() or the sketch
    tries,          \* it connects to that one
    status,         \* status() of the station
    news,           \* what the events that wait for the event task will make of it
    run             \* of run(): where it is, its status, how many networks were
                    \* found, those it looked at, its pick; the network connected
                    \* when status() was last read; and a history value: the last
                    \* disconnect() or begin() was refused before it left a network

sta == <<link, config, tries, status, news>>
multiVars == <<aps, sta, run>>

Ap == [ssid : Ssid, pass : BOOLEAN]
Status == {"connected", "nossid", "failed", "other"}
NoRun == [at |-> "out", status |-> "other", found |-> 0, seen |-> <<>>, pick |-> None,
          link |-> None, refused |-> FALSE]
Listed == {aps[i].ssid : i \in DOMAIN aps}

MultiTypeOK ==
    /\ aps \in Seq(Ap) /\ {link, config} \subseteq Ssid \cup {None} /\ tries \in BOOLEAN
    /\ status \in Status /\ news \in Seq(Status)
    /\ run \in [at : {"out", "left", "scan", "picked", "wait", "done"}, status : Status,
                found : Nat, seen : Seq(Network), pick : Network \cup {None},
                link : Ssid \cup {None}, refused : BOOLEAN]

MultiInit ==
    /\ aps = <<>> /\ link = None /\ status = "other" /\ news = <<>> /\ run = NoRun
    /\ config \in Ssid \cup {None} /\ tries \in BOOLEAN /\ (tries => config # None)
                        \* the sketch may have begun by itself

AddAP ==            \* names and passphrases of a length it takes
    /\ run.at = "out" /\ Len(aps) < MaxAps
    /\ \E a \in Ap : aps' = Append(aps, a)
    /\ UNCHANGED <<sta, run>>

Seen(at, s) == [run EXCEPT !.at = at, !.status = s, !.link = link]

\* The driver leaves its network; the event that tells of it comes later.
Drops ==
    /\ link' = None
    /\ \/ link = None /\ UNCHANGED news
       \/ link # None /\ \E s \in Status \ {"connected"} : news' = Append(news, s)

Leave(ok) ==        \* disconnect(): the driver may refuse to leave
    /\ \/ ok /\ Drops /\ tries' = FALSE
       \/ ~ok /\ UNCHANGED <<link, tries, news>>
    /\ UNCHANGED <<config, status>>

\* Wrong: any connection will do.
Mine_Any == TRUE

Mine == link \in Listed

Run ==
    /\ run.at = "out"
    /\ \/ status = "connected" /\ Mine /\ run' = Seen("done", status) /\ UNCHANGED sta
       \/ /\ status = "connected" /\ ~Mine
          /\ \E ok \in BOOLEAN : Leave(ok) /\ run' = [run EXCEPT !.at = "left", !.refused = ~ok]
       \/ status # "connected" /\ run' = Seen("scan", status) /\ UNCHANGED sta
    /\ UNCHANGED aps

Reread ==           \* 10 ms after disconnect()
    /\ run.at = "left" /\ run' = Seen("scan", status)
    /\ UNCHANGED <<aps, sta>>

(***************************************************************************)
(* The choice.  The entry added last decides about a name.                 *)
(***************************************************************************)
Known(n) == {i \in DOMAIN aps : aps[i].ssid = n.ssid}
Usable(n) ==
    \E i \in Known(n) : (\A j \in Known(n) : j <= i) /\ (n.open \/ aps[i].pass)

\* Wrong: a network without its passphrase still counts as the best.
Better_Locked(n, best) == Known(n) # {} /\ (best = None \/ n.rssi > best.rssi)

Better(n, best) == Usable(n) /\ (best = None \/ n.rssi > best.rssi)

Best(seen) ==
    LET best[i \in 0..Len(seen)] ==
            IF i = 0 THEN None
            ELSE IF Better(seen[i], best[i - 1]) THEN seen[i] ELSE best[i - 1] IN
    best[Len(seen)]

Signed(n) == ((n + Half) % (2 * Half)) - Half       \* int8_t

Scan ==             \* -1: a scan runs; a count of 256 is read as 0, and 257 as 1
    /\ run.at = "scan"
    /\ \E n \in -1..MaxSeen :
          \/ Signed(n) = -1 /\ run' = [run EXCEPT !.at = "done", !.status = "nossid"]
          \/ /\ Signed(n) >= 0
             /\ \E seen \in [1..Signed(n) -> Network] :
                   run' = [run EXCEPT !.at = "picked", !.found = n, !.seen = seen,
                                      !.pick = Best(seen)]
    /\ UNCHANGED <<aps, sta>>

ScanFails ==        \* or shows too many: disconnect(), and scan in the background
    /\ run.at = "scan" /\ \E n \in -2..MaxSeen : Signed(n) < -1
    /\ run' = [run EXCEPT !.at = "done"]
    /\ \E ok \in BOOLEAN : Leave(ok)
    /\ UNCHANGED aps

(***************************************************************************)
(* begin().  A driver that is configured for the network already is not    *)
(* disconnected, nor connected again while status() says it is.            *)
(***************************************************************************)
BeginSame(ssid) ==
    /\ config = ssid
    /\ \/ UNCHANGED tries                      \* connected, or a call is refused
       \/ status # "connected" /\ tries' = TRUE
    /\ UNCHANGED <<link, config, status, news>>

BeginOther(ssid) ==
    /\ Drops /\ UNCHANGED status
    /\ \/ config' = ssid /\ tries' \in BOOLEAN  \* the last calls may be refused
       \/ UNCHANGED config /\ tries' = FALSE   \* the configuration is refused

Begin ==
    /\ run.at = "picked" /\ run.pick # None
    /\ \E refused \in BOOLEAN :
          /\ \/ ~refused /\ (BeginSame(run.pick.ssid) \/ BeginOther(run.pick.ssid))
             \/ refused /\ UNCHANGED sta
          /\ run' = [run EXCEPT !.at = "wait", !.status = status, !.found = 0, !.seen = <<>>,
                                !.pick = None, !.link = link', !.refused = refused]
    /\ UNCHANGED aps

NoMatch ==
    /\ run.at = "picked" /\ run.pick = None
    /\ run' = [run EXCEPT !.at = "done", !.found = 0, !.seen = <<>>]
    /\ UNCHANGED <<aps, sta>>

Ends == {"connected", "nossid", "failed"}
Wait ==             \* also for a status of before begin()
    /\ run.at = "wait"
    /\ run' = IF run.status \in Ends THEN [run EXCEPT !.at = "done"] ELSE Seen("wait", status)
    /\ UNCHANGED <<aps, sta>>

TimesOut ==
    /\ run.at = "wait" /\ run' = [run EXCEPT !.at = "done"]
    /\ UNCHANGED <<aps, sta>>

Return ==
    /\ run.at = "done" /\ run' = NoRun
    /\ UNCHANGED <<aps, sta>>

(***************************************************************************)
(* The driver and the event task.                                          *)
(***************************************************************************)
Connects ==
    /\ tries /\ link = None /\ Len(news) < MaxNews
    /\ link' = config /\ news' = Append(news, "connected")
    /\ UNCHANGED <<aps, config, tries, status, run>>

Fails ==            \* to connect, or the connection is lost
    /\ tries /\ Len(news) < MaxNews
    /\ link' = None /\ \E s \in Status \ {"connected"} : news' = Append(news, s)
    /\ UNCHANGED <<aps, config, tries, status, run>>

Event ==
    /\ news # <<>> /\ status' = Head(news) /\ news' = Tail(news)
    /\ UNCHANGED <<aps, link, config, tries, run>>

Running == Reread \/ Scan \/ ScanFails \/ Begin \/ NoMatch \/ Wait \/ TimesOut \/ Return
MultiNext == AddAP \/ Run \/ Running \/ Connects \/ Fails \/ Event

MultiSpec == MultiInit /\ [][MultiNext]_multiVars
===============================================================================
