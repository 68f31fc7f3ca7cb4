---------------------------- MODULE ClientSession ----------------------------
(***************************************************************************)
(* What the server promises one client: as if it were alone, its commands  *)
(* are handled in the order it sent them, each with one answer of its own  *)
(* role; it hears of the cars unasked only while it watches; and nobody    *)
(* but itself ends the connection, unless the server was full.  Only a     *)
(* careless client, one that sends lines longer than the server promises   *)
(* to take, mixes line ends or puts two commands on a line, may have       *)
(* commands dropped.                                                       *)
(***************************************************************************)
EXTENDS Protocol, Integers, Sequences

VARIABLES
  peer,      \* "off", "on", "gone" (the client closed its end) or "refused"
  served,    \* the server has accepted the connection
  input,     \* commands sent and not handled, oldest first
  careless,  \* it has sent such lines over this connection
  role, watching,
  mail       \* lines sent to the client that it has not read

vars == <<peer, served, input, careless, role, watching, mail>>

Init ==
  /\ peer = "off" /\ ~served /\ input = <<>> /\ careless = FALSE
  /\ role = "UNKNOWN" /\ watching = FALSE /\ mail = <<>>

Extends(longer, shorter) ==
  Len(longer) >= Len(shorter) /\ SubSeq(longer, 1, Len(shorter)) = shorter

Says(lines) == mail' = IF peer = "on" THEN mail \o lines ELSE mail

-----------------------------------------------------------------------------
(* The client *)

Connect ==
  /\ peer = "off" /\ peer' = "on"
  /\ UNCHANGED <<served, input, careless, role, watching, mail>>

Send ==
  /\ peer = "on" /\ Extends(input', input) /\ (careless => careless')
  /\ UNCHANGED <<peer, served, role, watching, mail>>

Read ==
  /\ mail # <<>> /\ \E n \in 1 .. Len(mail) : mail' = SubSeq(mail, n + 1, Len(mail))
  /\ UNCHANGED <<peer, served, input, careless, role, watching>>

Leave ==
  /\ \/ peer = "on" /\ peer' = "gone"
     \/ peer = "refused" /\ peer' = "off"
  /\ mail' = <<>>
  /\ UNCHANGED <<served, input, careless, role, watching>>

-----------------------------------------------------------------------------
(* The server *)

Greet ==
  /\ peer \in {"on", "gone"} /\ ~served /\ served'
  /\ Says(<<"WELCOME", "Please declare role">>)
  /\ UNCHANGED <<peer, input, careless, role, watching>>

TurnAway ==
  /\ peer \in {"on", "gone"} /\ ~served
  /\ peer' = IF peer = "on" THEN "refused" ELSE "off"
  /\ input' = <<>> /\ careless' = FALSE /\ Says(<<"SERVER_BUSY">>)
  /\ UNCHANGED <<served, role, watching>>

\* The oldest n commands are gone.
Consume(n) == input' = SubSeq(input, n + 1, Len(input))

\* The oldest command; a careless client's further ones may go with it.
Handle ==
  /\ served /\ input # <<>>
  /\ \E n \in DOMAIN input : (n = 1 \/ careless) /\ Consume(n)
  /\ role' = RoleAfter(role, Head(input))
  /\ watching' = WatchingAfter(role, watching, Head(input))
  /\ \E answer \in Answers(role, Head(input)) : Says(<<answer>>)
  /\ UNCHANGED <<peer, served, careless>>

Drop ==
  /\ served /\ careless
  /\ \E n \in DOMAIN input : Consume(n)
  /\ UNCHANGED <<peer, served, careless, role, watching, mail>>

Status ==
  /\ served /\ role = "GUARD" /\ watching
  /\ Says(<<"status">>)
  /\ UNCHANGED <<peer, served, input, careless, role, watching>>

End ==
  /\ served /\ peer = "gone"
  /\ peer' = "off" /\ served' = FALSE /\ input' = <<>> /\ careless' = FALSE
  /\ role' = "UNKNOWN" /\ watching' = FALSE
  /\ UNCHANGED mail

Server == Greet \/ TurnAway \/ Handle \/ Drop \/ Status \/ End

Next == Connect \/ Send \/ Read \/ Leave \/ Server

Spec == Init /\ [][Next]_vars
=============================================================================
