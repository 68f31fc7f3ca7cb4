---------------------------- MODULE MCRemoteServer ----------------------------
(* RemoteServer with two clients, both any programs or one of them           *)
(* guard_client.                                                             *)
EXTENDS RemoteServer, TLC

CONSTANTS s1, s2

CrLf(cmd) == <<cmd, "CR", "LF">>
Lf(cmd)   == <<cmd, "LF">>

Watch == CrLf("ROLE GUARD") \o CrLf("WATCH")

\* An empty line; lines that end differently; two commands on one line; and a line longer
\* than the buffer.
Others ==
  {<<"LF">> \o Lf("CALL"),
   Lf("STATUS") \o CrLf("CALL"),
   <<"STATUS", "CALL", "LF">>,
   <<"other", "other", "other", "other", "other", "other", "LF">>}

Setup(guards, clients_, fds, texts2, sends1) ==
  [guards |-> guards, MAX_CLIENTS |-> clients_, FD_SETSIZE |-> fds,
   texts |-> s1 :> {Watch} @@ s2 :> texts2, MaxSends |-> s1 :> sends1 @@ s2 :> 1]

\* Room for both clients; for one; and for both, but select watches only one.
SomeSetups ==
  {Setup({}, 2, 3, {Watch} \cup Others, 1), Setup({s1}, 2, 3, {Watch}, 1),
   Setup({s1}, 1, 2, {Watch}, 2), Setup({s1}, 2, 2, {Watch}, 1)}
=============================================================================
