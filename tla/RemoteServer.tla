----------------------------- MODULE RemoteServer -----------------------------
(***************************************************************************)
(* src/network/remote_server.c: the select loop over the table of clients, *)
(* with accepting, receiving, cutting lines, removing and broadcasting;    *)
(* and at the other ends guard_client, or any program that sends lines and *)
(* reads answers as interactive_client does.                               *)
(*                                                                         *)
(* SelectEverybody, RemoveLast, RemoveAndPass, AppendAlways, StartStays,   *)
(* SkipTwo, AnswerFirst, AnswerKnown and BroadcastToGuards are faulty      *)
(* variants of the definitions after them that PROJECT.json names as       *)
(* mutants.                                                                *)
(***************************************************************************)
EXTENDS Protocol, Integers, Sequences

EndOfLine == {"CR", "LF"}
Symbol == Command \cup EndOfLine

CONSTANTS
  Sockets,  \* what accept may return
  Setups,   \* the servers to consider, by
            \*   guards       the sockets where guard_client runs
            \*   MAX_CLIENTS  size of the table (64 in the build)
            \*   FD_SETSIZE   sockets select can watch, the listening one included
            \*                (64 in the build; depends on the platform)
            \*   texts        what each other client may send: several lines
            \*                at once, or parts of one
            \*   MaxSends     a bound on each client's sends over one connection
  RECV,     \* most characters one recv returns (511)
  INBUF,    \* sizeof inbuf (1024)
  SNDBUF    \* lines on their way to a client before send blocks

ASSUME RemoteAssumption ==
  /\ \A setup \in Setups :
       /\ setup.guards \subseteq Sockets
       /\ setup.MAX_CLIENTS \in Nat \ {0} /\ setup.FD_SETSIZE \in Nat \ {0}
       /\ \A s \in Sockets : setup.texts[s] \subseteq Seq(Symbol)
       /\ setup.MaxSends \in [Sockets -> Nat]
  /\ RECV \in Nat \ {0} /\ INBUF \in Nat /\ RECV < INBUF - 1
  /\ SNDBUF \in Nat \ {0, 1}

ClientInfo == [sock : Sockets, type : Role, watching : BOOLEAN, inbuf : Seq(Symbol)]

VARIABLES
  server,     \* which of Setups this is
  clients,    \* the table: clients[0 .. client_count - 1] of the code
  accepted,   \* the sockets the system gave the server with accept and it did not close
  pc,         \* where the loop is: "select", "sweep", "cut" (lines) or "broadcast"
  i,          \* the index of the sweep or the broadcast
  readfds,    \* the clients' sockets select reported
  heard,      \* those the sweep has received from or removed, a history
  peer,       \* "off", "on", "gone" (the client closed its end), "refused" (the server did)
  wire,       \* characters sent to the server and not received
  mail,       \* lines sent to the client and not read
  at,         \* what guard_client does: "menu", "reply" (waits in recv), "bye" (waits
              \* for the reply to QUIT) or "done"
  sends,      \* sends over the present connection
  careless    \* over it the client sent what is not Careful, a history

loop    == <<server, accepted, pc, i, readfds, heard>>
network == <<peer, wire, mail, at, sends, careless>>
vars    == <<clients, loop, network>>

Init ==
  /\ server \in Setups
  /\ clients = <<>> /\ accepted = {} /\ pc = "select" /\ i = 1 /\ readfds = {} /\ heard = {}
  /\ peer = [s \in Sockets |-> "off"]
  /\ wire = [s \in Sockets |-> <<>>] /\ mail = [s \in Sockets |-> <<>>]
  /\ at = [s \in Sockets |-> "menu"] /\ sends = [s \in Sockets |-> 0]
  /\ careless = [s \in Sockets |-> FALSE]

InTable  == {clients[k].sock : k \in DOMAIN clients}
\* Who waits for accept, which hands out a socket once.
Knocking == {s \in Sockets \ accepted : peer[s] \in {"on", "gone"}}

\* The entry of a client that is in the table.
Entry(s) == clients[CHOOSE k \in DOMAIN clients : clients[k].sock = s]

\* What a client sent and no line was cut from yet.
Uncut(s) == IF s \in InTable THEN Entry(s).inbuf \o wire[s] ELSE wire[s]

-----------------------------------------------------------------------------
(* The clients *)

\* A line that, unfinished in the buffer, does not leave room for what recv may return.
LongLine(input) ==
  \E k \in DOMAIN input :
    LET n == INBUF - 1 - RECV
    IN  k + n - 1 \in DOMAIN input /\ \A j \in k .. k + n - 1 : input[j] # "LF"

\* Some lines end with CR LF and some with LF.
MixedEnds(input) ==
  LET crs == {k \in DOMAIN input : input[k] = "CR"}
      lfs == {k \in DOMAIN input : input[k] = "LF"}
  IN  crs # {} /\ \E k \in lfs : k - 1 \notin crs

\* Two commands in a line: the server reads the second as arguments of the first.
Crowded(input) ==
  \E j, k \in {h \in DOMAIN input : input[h] \in Command} :
    j < k /\ \A h \in j .. k : input[h] # "LF"

\* The lines of a careful client: one that knows what the server takes for a line.
Careful(input) == ~LongLine(input) /\ ~MixedEnds(input) /\ ~Crowded(input)

Connect(s) ==
  /\ peer[s] = "off" /\ peer' = [peer EXCEPT ![s] = "on"]
  /\ UNCHANGED <<clients, loop, wire, mail, at, sends, careless>>

Put(s, text) ==
  /\ peer[s] = "on" /\ sends[s] < server.MaxSends[s]
  /\ wire' = [wire EXCEPT ![s] = @ \o text]
  /\ sends' = [sends EXCEPT ![s] = @ + 1]
  /\ careless' = [careless EXCEPT ![s] = @ \/ ~Careful(Uncut(s) \o text)]
  /\ UNCHANGED <<clients, loop, peer, mail>>

\* The menu of guard_client: STATUS, CALL with any two numbers, QUIT.
Choose(s) ==
  /\ s \in server.guards /\ at[s] = "menu"
  /\ \E cmd \in {"STATUS", "CALL", "CALL bad", "other"} :
       /\ Put(s, <<cmd, "CR", "LF">>)
       /\ at' = [at EXCEPT ![s] = IF cmd = "other" THEN "bye" ELSE "reply"]

SendText(s) ==
  /\ s \notin server.guards
  /\ \E text \in server.texts[s] : Put(s, text)
  /\ UNCHANGED at

\* recv, of what has arrived by then; guard_client calls it once after each command.
Receive(s) ==
  /\ mail[s] # <<>>
  /\ s \in server.guards => at[s] \in {"reply", "bye"}
  /\ \E n \in 1 .. Len(mail[s]) : mail' = [mail EXCEPT ![s] = SubSeq(@, n + 1, Len(@))]
  /\ at' = [at EXCEPT ![s] = IF @ = "reply" THEN "menu" ELSE IF @ = "bye" THEN "done" ELSE @]
  /\ UNCHANGED <<clients, loop, peer, wire, sends, careless>>

\* closesocket, or the connection breaks; also of a client that was turned away.
Leave(s) ==
  /\ peer[s] \in {"on", "refused"}
  /\ peer' = [peer EXCEPT ![s] = IF @ = "on" THEN "gone" ELSE "off"]
  /\ mail' = [mail EXCEPT ![s] = <<>>]
  /\ at' = [at EXCEPT ![s] = "menu"] /\ sends' = [sends EXCEPT ![s] = 0]
  /\ UNCHANGED <<clients, loop, wire, careless>>

Client(s) == Connect(s) \/ Choose(s) \/ SendText(s) \/ Receive(s) \/ Leave(s)

-----------------------------------------------------------------------------
(* Select and accept *)

\* FD_SET ignores what does not fit any more.  The listening socket comes first,
\* so a table as large as the set has a last client select does not watch.
Selected == {clients[k].sock : k \in {j \in DOMAIN clients : j < server.FD_SETSIZE}}
Readable == {s \in Selected : wire[s] # <<>> \/ peer[s] = "gone"}

\* send_line: a client that is gone gets nothing; send blocks while the buffers
\* on the way to the client are full.
Tell(s, lines) ==
  IF peer[s] = "on"
  THEN /\ Len(mail[s]) + Len(lines) <= SNDBUF
       /\ mail' = [mail EXCEPT ![s] = @ \o lines]
  ELSE UNCHANGED mail

Welcome(s) ==
  /\ Len(clients) < server.MAX_CLIENTS
  /\ accepted' = accepted \cup {s}
  /\ clients' = Append(clients,
       [sock |-> s, type |-> "UNKNOWN", watching |-> FALSE, inbuf |-> <<>>])
  /\ Tell(s, <<"WELCOME", "Please declare role">>)
  /\ UNCHANGED <<peer, wire, careless>>

TurnAway(s) ==
  /\ Len(clients) >= server.MAX_CLIENTS
  /\ Tell(s, <<"SERVER_BUSY">>)
  /\ peer' = [peer EXCEPT ![s] = IF @ = "on" THEN "refused" ELSE "off"]
  /\ wire' = [wire EXCEPT ![s] = <<>>] /\ careless' = [careless EXCEPT ![s] = FALSE]
  /\ UNCHANGED <<clients, accepted>>

\* accept_new_client, once if anybody waits.
Accept ==
  IF Knocking = {} THEN UNCHANGED <<clients, accepted, peer, wire, mail, careless>>
  ELSE \E s \in Knocking : Welcome(s) \/ TurnAway(s)

SelectEverybody ==
  /\ pc = "select" /\ pc' = "sweep" /\ i' = 1
  /\ readfds' = Selected /\ heard' = {}
  /\ Accept
  /\ UNCHANGED <<server, at, sends>>

\* A set with nothing in it is a timeout.
Select ==
  /\ pc = "select" /\ pc' = "sweep" /\ i' = 1
  /\ readfds' = Readable /\ heard' = {}
  /\ Accept
  /\ UNCHANGED <<server, at, sends>>

-----------------------------------------------------------------------------
(* The sweep over the clients *)

\* k is the first client from i on with the property.
FirstFrom(k, S) == k \in S /\ k >= i /\ \A j \in S : j >= i => k <= j

Reported == {k \in DOMAIN clients : clients[k].sock \in readfds}

RemoveLast(k) == SubSeq(clients, 1, Len(clients) - 1)

\* The table without its k-th entry: those behind it move up.
Without(k) == SubSeq(clients, 1, k - 1) \o SubSeq(clients, k + 1, Len(clients))

Close(s) ==
  /\ peer[s] = "gone"
  /\ peer' = [peer EXCEPT ![s] = "off"]
  /\ wire' = [wire EXCEPT ![s] = <<>>] /\ careless' = [careless EXCEPT ![s] = FALSE]
  /\ accepted' = accepted \ {s} /\ heard' = heard \cup {s}
  /\ UNCHANGED <<mail, at, sends>>

RemoveAndPass(k) ==
  /\ pc = "sweep" /\ FirstFrom(k, Reported)
  /\ Close(clients[k].sock)
  /\ clients' = Without(k) /\ i' = k + 1
  /\ UNCHANGED <<server, pc, readfds>>

\* recv finds the connection closed or broken: remove_client, and the sweep goes
\* on with the same index.
Remove(k) ==
  /\ pc = "sweep" /\ FirstFrom(k, Reported)
  /\ Close(clients[k].sock)
  /\ clients' = Without(k) /\ i' = k
  /\ UNCHANGED <<server, pc, readfds>>

AppendAlways(inbuf, chunk) == inbuf \o chunk

\* What does not fit empties the buffer and is itself thrown away.
Buffered(inbuf, chunk) ==
  IF Len(inbuf) + Len(chunk) < INBUF - 1 THEN inbuf \o chunk ELSE <<>>

\* The lines in a buffer end at the first CR LF anywhere, and at the first LF if
\* there is none.
Ends(inbuf, k) == inbuf[k] = "CR" /\ k < Len(inbuf) /\ inbuf[k + 1] = "LF"
CRLFs(inbuf) == {k \in DOMAIN inbuf : Ends(inbuf, k)}
LFs(inbuf)   == {k \in DOMAIN inbuf : inbuf[k] = "LF"}
LineEnds(inbuf) == IF CRLFs(inbuf) # {} THEN CRLFs(inbuf) ELSE LFs(inbuf)
Eol(inbuf) == CHOOSE k \in LineEnds(inbuf) : \A j \in LineEnds(inbuf) : k <= j

\* Lines are cut from the k-th client's buffer as long as there is one; the rest
\* stays, and the sweep goes on.
CutOn(k, inbuf) ==
  IF LineEnds(inbuf) # {} THEN pc' = "cut" /\ i' = k ELSE pc' = "sweep" /\ i' = k + 1

\* recv returns some of what has arrived.
Recv(k) ==
  /\ pc = "sweep" /\ FirstFrom(k, Reported)
  /\ LET s == clients[k].sock
     IN  /\ \E n \in 1 .. Len(wire[s]) :
              /\ n <= RECV
              /\ clients' = [clients EXCEPT ![k].inbuf = Buffered(@, SubSeq(wire[s], 1, n))]
              /\ wire' = [wire EXCEPT ![s] = SubSeq(@, n + 1, Len(@))]
         /\ heard' = heard \cup {s}
  /\ CutOn(k, clients'[k].inbuf)
  /\ UNCHANGED <<server, accepted, readfds, peer, mail, at, sends, careless>>

StartStays(inbuf) == inbuf

SkipTwo(inbuf) == SubSeq(inbuf, Eol(inbuf) + 2, Len(inbuf))

AfterLine(inbuf) ==
  SubSeq(inbuf, Eol(inbuf) + (IF Ends(inbuf, Eol(inbuf)) THEN 2 ELSE 1), Len(inbuf))

NextLine(inbuf) == SubSeq(inbuf, 1, Eol(inbuf) - 1)

\* The first word of a line, none in an empty one.
FirstWord(line) ==
  {line[k] : k \in {j \in DOMAIN line : /\ line[j] \in Command
                                       /\ \A h \in 1 .. j - 1 : line[h] \in EndOfLine}}

AnswerFirst(c, cmd) == \E answer \in Answers(c.type, cmd) : Tell(clients[1].sock, <<answer>>)

AnswerKnown(c, cmd) ==
  IF c.type = "UNKNOWN" THEN UNCHANGED mail
  ELSE \E answer \in Answers(c.type, cmd) : Tell(c.sock, <<answer>>)

Reply(c, cmd) == \E answer \in Answers(c.type, cmd) : Tell(c.sock, <<answer>>)

\* handle_client_command, of the next line of client i.
HandleLine ==
  /\ pc = "cut"
  /\ LET c    == clients[i]
         line == NextLine(c.inbuf)
         rest == AfterLine(c.inbuf)
     IN  /\ \/ /\ FirstWord(line) = {}
               /\ clients' = [clients EXCEPT ![i].inbuf = rest]
               /\ UNCHANGED mail
            \/ \E cmd \in FirstWord(line) :
                 /\ clients' = [clients EXCEPT ![i] =
                      [c EXCEPT !.inbuf = rest, !.type = RoleAfter(@, cmd),
                                !.watching = WatchingAfter(c.type, @, cmd)]]
                 /\ Reply(c, cmd)
         /\ CutOn(i, rest)
  /\ UNCHANGED <<server, accepted, readfds, heard, peer, wire, at, sends, careless>>

-----------------------------------------------------------------------------
(* The broadcast, every SIM_TICK_MS, whenever that falls *)

SweepDone ==
  /\ pc = "sweep" /\ \A k \in Reported : k < i
  /\ pc' \in {"broadcast", "select"} /\ i' = 1
  /\ readfds' = {} /\ heard' = {}
  /\ UNCHANGED <<server, clients, accepted, network>>

BroadcastToGuards == {k \in DOMAIN clients : clients[k].type = "GUARD"}

Watchers == {k \in DOMAIN clients : clients[k].type = "GUARD" /\ clients[k].watching}

\* broadcast_status_to_guards with only_watchers, one send.
Broadcast(k) ==
  /\ pc = "broadcast" /\ FirstFrom(k, Watchers)
  /\ Tell(clients[k].sock, <<"status">>)
  /\ i' = k + 1
  /\ UNCHANGED <<server, clients, accepted, pc, readfds, heard, peer, wire, at, sends, careless>>

BroadcastDone ==
  /\ pc = "broadcast" /\ \A k \in Watchers : k < i
  /\ pc' = "select" /\ i' = 1
  /\ UNCHANGED <<server, clients, accepted, readfds, heard, network>>

run_remote_server ==
  \/ Select
  \/ \E k \in DOMAIN clients : Remove(k) \/ Recv(k) \/ Broadcast(k)
  \/ HandleLine \/ SweepDone \/ BroadcastDone

Next == run_remote_server \/ \E s \in Sockets : Client(s)

Spec == Init /\ [][Next]_vars

\* The network thread keeps running, and a recv that guard_client waits in returns once
\* there is something.  Nobody is obliged to read otherwise: interactive_client reads
\* only after its user has typed a line.
FairSpec ==
  /\ Spec
  /\ WF_vars(run_remote_server)
  /\ \A s \in Sockets : WF_vars(s \in server.guards /\ Receive(s))
-----------------------------------------------------------------------------
(* Properties *)

\* Every buffer holds its text and the NUL after it.
TypeOK ==
  /\ server \in Setups
  /\ clients \in Seq(ClientInfo)
  /\ \A k \in DOMAIN clients : Len(clients[k].inbuf) < INBUF - 1
  /\ pc \in {"select", "sweep", "cut", "broadcast"} /\ i \in 1 .. server.MAX_CLIENTS + 1
  /\ accepted \subseteq Sockets /\ readfds \subseteq Sockets /\ heard \subseteq Sockets
  /\ peer \in [Sockets -> {"off", "on", "gone", "refused"}]
  /\ wire \in [Sockets -> Seq(Symbol)] /\ mail \in [Sockets -> Seq(Answer)]
  /\ at \in [Sockets -> {"menu", "reply", "bye", "done"}]
  /\ sends \in [Sockets -> Nat] /\ careless \in [Sockets -> BOOLEAN]

\* The table holds exactly the sockets that accept handed out and closesocket did not close,
\* each once and within its array: compacting it (remove_client) neither loses a client,
\* whose socket would stay open for ever, nor leaves one whose socket is closed.
TableMatchesSockets ==
  /\ Len(clients) <= server.MAX_CLIENTS
  /\ InTable = accepted
  /\ \A k \in DOMAIN clients : peer[clients[k].sock] \in {"on", "gone"}
  /\ \A j, k \in DOMAIN clients : clients[j].sock = clients[k].sock => j = k

\* A sweep ends only when everybody select reported has been heard, although the
\* table is compacted while the sweep walks over it.
SweepMissesNobody ==
  [][pc = "sweep" /\ pc' \in {"broadcast", "select"} => readfds \subseteq heard]_vars

\* recv is only called where something waits to be read: one that blocked would
\* stop the server for everybody.
RecvNeverBlocks ==
  pc = "sweep" =>
    \A k \in Reported : k >= i =>
      wire[clients[k].sock] # <<>> \/ peer[clients[k].sock] = "gone"

\* To each client the server behaves as if it were alone: whatever the others send,
\* however its own characters are split, and whoever disconnects.
RoleOf(s)     == IF s \in InTable THEN Entry(s).type ELSE "UNKNOWN"
IsWatching(s) == s \in InTable /\ Entry(s).watching

Commands(input) ==
  LET upTo[k \in 0 .. Len(input)] ==
        IF k = 0 THEN <<>>
        ELSE IF input[k] \in Command THEN Append(upTo[k - 1], input[k]) ELSE upTo[k - 1]
  IN  upTo[Len(input)]

Session(s) == INSTANCE ClientSession WITH
  peer     <- peer[s],
  served   <- s \in InTable,
  input    <- Commands(Uncut(s)),
  careless <- careless[s],
  role     <- RoleOf(s),
  watching <- IsWatching(s),
  mail     <- mail[s]

\* Session(s)!Spec for every s.
SessionsKept ==
  /\ \A s \in Sockets : Session(s)!Init
  /\ [][\A s \in Sockets : [Session(s)!Next]_(Session(s)!vars)]_vars

\* The network thread stands in a send to a client that leaves its lines unread.
Stalled(s) ==
  /\ \/ pc = "cut" /\ clients[i].sock = s
     \/ pc = "broadcast" /\ \E k \in Watchers : FirstFrom(k, Watchers) /\ clients[k].sock = s
  /\ peer[s] = "on" /\ Len(mail[s]) >= SNDBUF

\* What the code leaves to its clients: each of them reads, or goes, before a send to it
\* has waited for ever.
SendsReturn == \A s \in Sockets : []<>~Stalled(s)

\* As long as sends return, nobody whom select watches waits for ever to be received from,
\* whatever is sent, when and in what pieces: no line keeps the loop that cuts lines to itself.
Waiting(s) == s \in Selected /\ peer[s] = "on" /\ wire[s] # <<>>
EveryoneServed == SendsReturn => \A s \in Sockets : []<>~Waiting(s)

\* As long as sends return, guard_client does not stay in the recv after a command for ever:
\* what answers a command comes after it was sent, so that no earlier recv has taken it.
InRecv(s) == s \in Selected /\ at[s] = "reply"
GuardAnswered == SendsReturn => \A s \in Sockets : []<>~InRecv(s)

\* guard_client prints one recv after each command, and the first lines it gets, the two
\* of the greeting, answer none: what it prints may belong to an earlier command, but at
\* its menu never more than two lines are still to come.
ToCome(s) ==
  Len(mail[s]) + Len(Commands(Uncut(s))) + (IF s \in Knocking THEN 2 ELSE 0)

GuardNotFarBehind ==
  \A s \in server.guards : peer[s] = "on" /\ at[s] = "menu" => ToCome(s) <= 2

\* "1) Show elevator status" (guard_client.c:26): STATUS from guard_client is answered
\* with the status of the cars.
StatusOf(s) == pc = "cut" /\ clients[i].sock = s /\ "STATUS" \in FirstWord(NextLine(clients[i].inbuf))

GuardSeesStatus ==
  [][\A s \in server.guards :
       StatusOf(s) /\ Len(mail'[s]) > Len(mail[s]) => mail'[s][Len(mail'[s])] = "status"]_vars
=============================================================================
