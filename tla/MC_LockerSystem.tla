--------------------------- MODULE MC_LockerSystem ---------------------------
(* Words and programs for model checking.  A script sends the items of        *)
(* client.py's messages, fewer of them; "a0" stands for hostname+str(0).      *)
EXTENDS LockerSystemProperties

MCWord == {CREATE, DELETE, "DISPLAY", Locker, Date, Nul, "ip", "key", "0", "1",
           "a0", "a1", "a2", "a3", "b0"}
MCDigit == {"0", "1"}

CreateItems(name, digit) ==
    <<CREATE, name, "ip", Date, "key", Empty, Empty, digit, Nul>>
CommandItems(command, name) ==
    <<command, name, Empty, Empty, Empty, Empty, Empty, Empty, Nul>>

PairProgram == [p \in {"a", "b"} |->
    IF p = "a" THEN CreateItems("a0", "0") ELSE CreateItems("b0", "1")]

\* encryption.py:82-84, "locker is centralized / containers are clients / can
\* spin up 100s of clients": with two containers every reservation is made for
\* one of them.
ReservationsNameAClient ==
    \A i \in 1 .. Len(queue) : queue[i].user \in {<<"a0">>, <<"b0">>}

\* One reservation made and deleted, with the locker polling.
CancelProgram == [p \in {"a"} |->
    CreateItems("a0", "0") \o <<Empty>> \o CommandItems(DELETE, "a0")]

NoCWord == [c \in {} |-> Empty]

\* client.c with the command CREATE.
CmdWord == [c \in {"c"} |-> CREATE]
=============================================================================
