-------------------------- MODULE RemoteServerProofs --------------------------
(***************************************************************************)
(* The table of clients stays sound while it is swept, and the server      *)
(* keeps with each client the session ClientSession describes, for any     *)
(* number of clients, any sizes of the table, of select's set and of the   *)
(* buffers, and whatever the clients send.                                 *)
(***************************************************************************)
EXTENDS RemoteServer, SequenceTheorems, WellFoundedInduction, NaturalsInduction, TLAPS

\* The three parts of TypeOK.
TableOK ==
  /\ server \in Setups
  /\ clients \in Seq(ClientInfo)
  /\ \A k \in DOMAIN clients : Len(clients[k].inbuf) < INBUF - 1

LoopOK ==
  /\ pc \in {"select", "sweep", "cut", "broadcast"} /\ i \in 1 .. server.MAX_CLIENTS + 1
  /\ accepted \subseteq Sockets /\ readfds \subseteq Sockets /\ heard \subseteq Sockets

NetworkOK ==
  /\ peer \in [Sockets -> {"off", "on", "gone", "refused"}]
  /\ wire \in [Sockets -> Seq(Symbol)] /\ mail \in [Sockets -> Seq(Answer)]
  /\ at \in [Sockets -> {"menu", "reply", "bye", "done"}]
  /\ sends \in [Sockets -> Nat] /\ careless \in [Sockets -> BOOLEAN]

LEMMA TypeParts == TypeOK <=> TableOK /\ LoopOK /\ NetworkOK
BY DEF TypeOK, TableOK, LoopOK, NetworkOK

\* The clients the sweep has still to come to.
Ahead(k) == IF pc = "cut" THEN k > i ELSE k >= i

\* While lines are cut there is one, and it is the client's whose turn it is.
CuttingALine == pc = "cut" => i \in DOMAIN clients /\ LineEnds(clients[i].inbuf) # {}

\* Whoever was reported and is not heard is still ahead, and still worth a recv.
SweepSound ==
  pc \in {"sweep", "cut"} =>
    /\ \A k \in Reported : Ahead(k) =>
         wire[clients[k].sock] # <<>> \/ peer[clients[k].sock] = "gone"
    /\ \A s \in readfds :
         s \in heard \/ \E k \in DOMAIN clients : Ahead(k) /\ clients[k].sock = s

RemoteInv == TypeOK /\ TableMatchesSockets /\ CuttingALine /\ SweepSound

-----------------------------------------------------------------------------
(* Operators *)

\* A nonempty set of positions has a first one.
LEMMA FirstExists ==
  ASSUME NEW S \in SUBSET Nat, S # {}
  PROVE  \E x \in S : \A y \in S : x <= y
<1>1. PICK x \in S : \A y \in S : ~(<<y, x>> \in OpToRel(<, Nat))
  BY NatLessThanWellFounded, WFMin
<1>2. \A y \in S : ~(y < x)
  BY <1>1 DEF OpToRel
<1> QED
  BY <1>2

\* The end of the next line is a place in the buffer.
LEMMA EolInBuffer ==
  ASSUME NEW inbuf \in Seq(Symbol), LineEnds(inbuf) # {}
  PROVE  Eol(inbuf) \in DOMAIN inbuf
<1>1. LineEnds(inbuf) \subseteq DOMAIN inbuf
  BY DEF LineEnds, CRLFs, LFs
<1>2. LineEnds(inbuf) \in SUBSET Nat
  BY <1>1
<1>3. \E x \in LineEnds(inbuf) : \A y \in LineEnds(inbuf) : x <= y
  BY <1>2, FirstExists
<1>4. Eol(inbuf) \in LineEnds(inbuf)
  BY <1>3 DEF Eol
<1> QED
  BY <1>1, <1>4

\* What is left after a line is shorter.
LEMMA RestIsShorter ==
  ASSUME NEW inbuf \in Seq(Symbol), LineEnds(inbuf) # {}
  PROVE  AfterLine(inbuf) \in Seq(Symbol) /\ Len(AfterLine(inbuf)) < Len(inbuf)
<1> DEFINE m == Eol(inbuf) + (IF Ends(inbuf, Eol(inbuf)) THEN 2 ELSE 1)
<1>1. Eol(inbuf) \in 1 .. Len(inbuf)
  BY EolInBuffer
<1>2. m \in Int /\ m >= 2 /\ AfterLine(inbuf) = SubSeq(inbuf, m, Len(inbuf))
  BY <1>1 DEF AfterLine
<1>3. \A j \in m .. Len(inbuf) : inbuf[j] \in Symbol
  BY <1>2
<1> HIDE DEF m
<1>4. /\ SubSeq(inbuf, m, Len(inbuf)) \in Seq(Symbol)
      /\ Len(SubSeq(inbuf, m, Len(inbuf))) = IF m <= Len(inbuf) THEN Len(inbuf) - m + 1 ELSE 0
  BY <1>2, <1>3, SubSeqProperties
<1> QED
  BY <1>1, <1>2, <1>4

\* A buffer never outgrows inbuf.
LEMMA BufferHolds ==
  ASSUME NEW inbuf \in Seq(Symbol), NEW chunk \in Seq(Symbol)
  PROVE  Buffered(inbuf, chunk) \in Seq(Symbol) /\ Len(Buffered(inbuf, chunk)) < INBUF - 1
<1>1. inbuf \o chunk \in Seq(Symbol) /\ Len(inbuf \o chunk) = Len(inbuf) + Len(chunk)
  BY ConcatProperties
<1>2. <<>> \in Seq(Symbol) /\ Len(<<>>) < INBUF - 1
  BY RemoteAssumption
<1>3. CASE Len(inbuf) + Len(chunk) < INBUF - 1
  BY <1>1, <1>3 DEF Buffered
<1>4. CASE ~(Len(inbuf) + Len(chunk) < INBUF - 1)
  BY <1>2, <1>4 DEF Buffered
<1> QED
  BY <1>3, <1>4

LEMMA ThreeAreASeq ==
  ASSUME NEW S, NEW a \in S, NEW b \in S, NEW c \in S
  PROVE  <<a, b, c>> \in Seq(S)
OBVIOUS

LEMMA EntryTypes ==
  ASSUME clients \in Seq(ClientInfo), NEW k \in DOMAIN clients
  PROVE  /\ k \in Nat \ {0} /\ k <= Len(clients) /\ clients[k] \in ClientInfo
         /\ clients[k].sock \in Sockets /\ clients[k].type \in Role
         /\ clients[k].watching \in BOOLEAN /\ clients[k].inbuf \in Seq(Symbol)
<1>1. Len(clients) \in Nat /\ k \in 1 .. Len(clients)
  BY LenProperties
<1>2. clients[k] \in ClientInfo
  BY <1>1, ElementOfSeq
<1> QED
  BY <1>1, <1>2 DEF ClientInfo

\* Taking an entry out of the table moves those behind it one place up.
LEMMA WithoutMovesUp ==
  ASSUME clients \in Seq(ClientInfo), NEW k \in DOMAIN clients
  PROVE  /\ Without(k) \in Seq(ClientInfo)
         /\ Len(Without(k)) = Len(clients) - 1
         /\ \A j \in 1 .. Len(clients) - 1 :
              Without(k)[j] = IF j < k THEN clients[j] ELSE clients[j + 1]
<1> DEFINE front == SubSeq(clients, 1, k - 1)
           back  == SubSeq(clients, k + 1, Len(clients))
<1>1. Len(clients) \in Nat /\ k \in 1 .. Len(clients)
  OBVIOUS
<1>2. /\ front \in Seq(ClientInfo) /\ Len(front) = k - 1
      /\ \A j \in 1 .. k - 1 : front[j] = clients[j]
  <2>1. \A j \in 1 .. k - 1 : clients[j] \in ClientInfo
    BY <1>1
  <2>2. /\ front \in Seq(ClientInfo)
        /\ Len(front) = IF 1 <= k - 1 THEN (k - 1) - 1 + 1 ELSE 0
        /\ \A j \in 1 .. (k - 1) - 1 + 1 : front[j] = clients[1 + j - 1]
    BY <1>1, <2>1, SubSeqProperties
  <2> HIDE DEF front
  <2>3. Len(front) = k - 1
    BY <1>1, <2>2
  <2>4. ASSUME NEW j \in 1 .. k - 1
        PROVE  front[j] = clients[j]
    <3>1. j \in 1 .. (k - 1) - 1 + 1 /\ 1 + j - 1 = j
      BY <1>1
    <3> QED
      BY <2>2, <3>1
  <2> QED
    BY <2>2, <2>3, <2>4
<1>3. /\ back \in Seq(ClientInfo) /\ Len(back) = Len(clients) - k
      /\ \A j \in 1 .. Len(clients) - k : back[j] = clients[k + j]
  <2>1. \A j \in k + 1 .. Len(clients) : clients[j] \in ClientInfo
    BY <1>1
  <2>2. /\ back \in Seq(ClientInfo)
        /\ Len(back) = IF k + 1 <= Len(clients) THEN Len(clients) - (k + 1) + 1 ELSE 0
        /\ \A j \in 1 .. Len(clients) - (k + 1) + 1 : back[j] = clients[(k + 1) + j - 1]
    BY <1>1, <2>1, SubSeqProperties
  <2> HIDE DEF back
  <2> QED
    BY <1>1, <2>2
<1>4. Without(k) = front \o back
  BY DEF Without
<1> HIDE DEF front, back
<1>5. /\ front \o back \in Seq(ClientInfo)
      /\ Len(front \o back) = Len(front) + Len(back)
      /\ \A j \in 1 .. Len(front) + Len(back) :
           (front \o back)[j] = IF j <= Len(front) THEN front[j] ELSE back[j - Len(front)]
  BY <1>2, <1>3, ConcatProperties
<1>6. ASSUME NEW j \in 1 .. Len(clients) - 1
      PROVE  Without(k)[j] = IF j < k THEN clients[j] ELSE clients[j + 1]
  <2>1. CASE j < k
    <3>1. j \in 1 .. k - 1 /\ j \in 1 .. Len(front) + Len(back) /\ j <= Len(front)
      BY <1>1, <1>2, <1>3, <2>1
    <3>2. (front \o back)[j] = front[j]
      BY <1>5, <3>1
    <3> QED
      BY <1>2, <1>4, <2>1, <3>1, <3>2
  <2>2. CASE j >= k
    <3>1. Without(k)[j] = back[j - (k - 1)]
      <4>1. j \in 1 .. Len(front) + Len(back) /\ ~(j <= Len(front)) /\ Len(front) = k - 1
        BY <1>1, <1>2, <1>3, <2>2
      <4>2. (front \o back)[j] = back[j - Len(front)]
        BY <1>5, <4>1
      <4> QED
        BY <1>4, <4>1, <4>2
    <3>2. j - (k - 1) \in 1 .. Len(clients) - k /\ k + (j - (k - 1)) = j + 1
      BY <1>1, <2>2
    <3> QED
      BY <1>3, <2>2, <3>1, <3>2
  <2> QED
    BY <1>1, <2>1, <2>2
<1>7. Len(Without(k)) = Len(clients) - 1
  BY <1>1, <1>2, <1>3, <1>4, <1>5
<1> QED
  BY <1>4, <1>5, <1>6, <1>7

\* A command is answered by an answer, and keeps roles roles.
LEMMA ProtocolTypes ==
  ASSUME NEW role \in Role, NEW watching \in BOOLEAN, NEW cmd \in Command
  PROVE  /\ RoleAfter(role, cmd) \in Role
         /\ WatchingAfter(role, watching, cmd) \in BOOLEAN
         /\ Answers(role, cmd) \subseteq Answer
<1>1. RoleAfter(role, cmd) \in Role
  BY DEF RoleAfter, Role
<1>2. WatchingAfter(role, watching, cmd) \in BOOLEAN
  BY DEF WatchingAfter
<1>3. GuardAnswers(cmd) \subseteq Answer /\ ButtonAnswers(cmd) \subseteq Answer
  BY DEF GuardAnswers, ButtonAnswers, CallAnswers, Command, Answer
<1>4. {"ROLE_OK"} \subseteq Answer /\ {"ROLE_BAD"} \subseteq Answer
      /\ {"Please declare role"} \subseteq Answer
  BY DEF Answer
<1>5. Answers(role, cmd) \subseteq Answer
  BY <1>3, <1>4 DEF Answers
<1> QED
  BY <1>1, <1>2, <1>5

\* What is told is lines.
LEMMA TellTypes ==
  ASSUME mail \in [Sockets -> Seq(Answer)],
         NEW s \in Sockets, NEW lines \in Seq(Answer), Tell(s, lines)
  PROVE  mail' \in [Sockets -> Seq(Answer)]
<1>1. mail[s] \o lines \in Seq(Answer)
  BY ConcatProperties
<1> QED
  BY <1>1 DEF Tell

-----------------------------------------------------------------------------
(* The clients' actions *)

\* What a client does leaves the invariant alone, as long as it takes nothing back
\* that a sweep relies on.
LEMMA ClientStepKeepsInv ==
  ASSUME RemoteInv, UNCHANGED <<clients, loop>>, NetworkOK',
         \A s \in Sockets :
           /\ peer[s] \in {"on", "gone"} => peer'[s] \in {"on", "gone"}
           /\ peer[s] = "gone" => peer'[s] = "gone"
           /\ wire[s] # <<>> => wire'[s] # <<>>
  PROVE  RemoteInv'
<1> USE DEF loop
<1>1. TypeOK'
  BY TypeParts DEF RemoteInv, TypeOK, NetworkOK
<1>2. \A k \in DOMAIN clients : clients[k].sock \in Sockets
  BY EntryTypes DEF RemoteInv, TypeOK
<1>3. TableMatchesSockets'
  BY <1>2 DEF RemoteInv, TableMatchesSockets, InTable
<1>4. CuttingALine'
  BY DEF RemoteInv, CuttingALine
<1>5. SweepSound'
  <2>1. Reported' = Reported /\ (\A k : Ahead(k)' <=> Ahead(k))
    BY DEF Reported, Ahead
  <2>2. Reported \subseteq DOMAIN clients
    BY DEF Reported
  <2> QED
    BY <1>2, <2>1, <2>2 DEF RemoteInv, SweepSound
<1> QED
  BY <1>1, <1>3, <1>4, <1>5 DEF RemoteInv

LEMMA PutTypes ==
  ASSUME NetworkOK, NEW s \in Sockets, NEW text \in Seq(Symbol), Put(s, text)
  PROVE  /\ wire' \in [Sockets -> Seq(Symbol)]
         /\ sends' \in [Sockets -> Nat] /\ careless' \in [Sockets -> BOOLEAN]
         /\ UNCHANGED <<clients, loop, peer, mail>>
         /\ \A r \in Sockets : wire[r] # <<>> => wire'[r] # <<>>
<1> USE DEF NetworkOK
<1>1. wire[s] \in Seq(Symbol) /\ wire[s] \o text \in Seq(Symbol)
  BY ConcatProperties
<1>2. wire' = [wire EXCEPT ![s] = wire[s] \o text]
  BY DEF Put
<1>3. wire' \in [Sockets -> Seq(Symbol)]
  BY <1>1, <1>2
<1>4. sends' \in [Sockets -> Nat]
  BY DEF Put
<1>5. careless' \in [Sockets -> BOOLEAN]
  <2> DEFINE input == Uncut(s) \o text
  <2>1. careless' = [careless EXCEPT ![s] = careless[s] \/ ~Careful(input)]
    BY DEF Put
  <2>2. (careless[s] \/ ~Careful(input)) \in BOOLEAN
    OBVIOUS
  <2> HIDE DEF input
  <2> QED
    BY <2>1, <2>2, Zenon
<1>6. wire[s] # <<>> => wire[s] \o text # <<>>
  BY <1>1, ConcatEqualIffEmpty
<1>7. \A r \in Sockets : wire[r] # <<>> => wire'[r] # <<>>
  BY <1>2, <1>6
<1> QED
  BY <1>3, <1>4, <1>5, <1>7 DEF Put

LEMMA ClientKeepsInv ==
  ASSUME RemoteInv, NEW s \in Sockets, Client(s)
  PROVE  RemoteInv'
<1>1. NetworkOK /\ server \in Setups
  BY DEF RemoteInv, TypeOK, NetworkOK
<1> USE DEF network, NetworkOK
<1>2. CASE Connect(s)
  <2>1. NetworkOK'
    BY <1>1, <1>2 DEF Connect
  <2> QED
    BY <1>1, <1>2, <2>1, ClientStepKeepsInv DEF Connect
<1>3. CASE Choose(s)
  <2>1. PICK cmd \in {"STATUS", "CALL", "CALL bad", "other"} :
          /\ Put(s, <<cmd, "CR", "LF">>)
          /\ at' = [at EXCEPT ![s] = IF cmd = "other" THEN "bye" ELSE "reply"]
    BY <1>3 DEF Choose
  <2>2. cmd \in Symbol /\ "CR" \in Symbol /\ "LF" \in Symbol
    BY DEF Symbol, Command, EndOfLine
  <2>3. <<cmd, "CR", "LF">> \in Seq(Symbol)
    BY <2>2, ThreeAreASeq
  <2>4. /\ wire' \in [Sockets -> Seq(Symbol)]
        /\ sends' \in [Sockets -> Nat] /\ careless' \in [Sockets -> BOOLEAN]
        /\ UNCHANGED <<clients, loop, peer, mail>>
        /\ \A r \in Sockets : wire[r] # <<>> => wire'[r] # <<>>
    BY <1>1, <2>1, <2>3, PutTypes
  <2>5. at' \in [Sockets -> {"menu", "reply", "bye", "done"}]
    BY <1>1, <2>1
  <2>6. NetworkOK'
    BY <1>1, <2>4, <2>5
  <2> QED
    BY <2>4, <2>6, ClientStepKeepsInv
<1>4. CASE SendText(s)
  <2>1. PICK text \in server.texts[s] : Put(s, text)
    BY <1>4 DEF SendText
  <2>2. text \in Seq(Symbol)
    BY <1>1, <2>1, RemoteAssumption
  <2>3. /\ wire' \in [Sockets -> Seq(Symbol)]
        /\ sends' \in [Sockets -> Nat] /\ careless' \in [Sockets -> BOOLEAN]
        /\ UNCHANGED <<clients, loop, peer, mail>>
        /\ \A r \in Sockets : wire[r] # <<>> => wire'[r] # <<>>
    BY <1>1, <2>1, <2>2, PutTypes
  <2>4. NetworkOK'
    BY <1>1, <1>4, <2>3 DEF SendText
  <2> QED
    BY <2>3, <2>4, ClientStepKeepsInv
<1>5. CASE Receive(s)
  <2>1. PICK n \in 1 .. Len(mail[s]) : mail' = [mail EXCEPT ![s] = SubSeq(mail[s], n + 1, Len(mail[s]))]
    BY <1>5 DEF Receive
  <2>2. NetworkOK'
    <3>1. mail[s] \in Seq(Answer) /\ Len(mail[s]) \in Nat /\ n + 1 \in 1 .. Len(mail[s]) + 1
      BY <1>1
    <3>2. SubSeq(mail[s], n + 1, Len(mail[s])) \in Seq(Answer)
      BY <3>1, SubSeqProperties
    <3>3. mail' \in [Sockets -> Seq(Answer)]
      BY <1>1, <2>1, <3>2
    <3> QED
      BY <1>1, <1>5, <3>3 DEF Receive
  <2> QED
    BY <1>5, <2>2, ClientStepKeepsInv DEF Receive
<1>6. CASE Leave(s)
  <2>1. <<>> \in Seq(Answer)
    OBVIOUS
  <2>2. NetworkOK'
    BY <1>1, <1>6, <2>1 DEF Leave
  <2>3. \A r \in Sockets :
           /\ peer[r] \in {"on", "gone"} => peer'[r] \in {"on", "gone"}
           /\ peer[r] = "gone" => peer'[r] = "gone"
    BY <1>1, <1>6 DEF Leave
  <2> QED
    BY <1>6, <2>2, <2>3, ClientStepKeepsInv DEF Leave
<1> QED
  BY <1>2, <1>3, <1>4, <1>5, <1>6 DEF Client

-----------------------------------------------------------------------------
(* Select and accept *)

\* A client that is accepted goes behind the others, and was not reported.
LEMMA WelcomeKeepsInv ==
  ASSUME RemoteInv, NEW s \in Knocking, Select, Welcome(s)
  PROVE  RemoteInv'
<1> DEFINE new == [sock |-> s, type |-> "UNKNOWN", watching |-> FALSE, inbuf |-> <<>>]
<1>1. /\ clients \in Seq(ClientInfo) /\ Len(clients) \in Nat
      /\ server \in Setups /\ server.MAX_CLIENTS \in Nat \ {0}
      /\ mail \in [Sockets -> Seq(Answer)]
  BY RemoteAssumption DEF RemoteInv, TypeOK
<1>2. s \in Sockets /\ s \notin InTable /\ peer[s] \in {"on", "gone"}
  BY DEF Knocking, RemoteInv, TableMatchesSockets
<1>3. new \in ClientInfo
  BY <1>2 DEF ClientInfo, Role
<1>4. /\ clients' \in Seq(ClientInfo) /\ Len(clients') = Len(clients) + 1
      /\ \A k \in 1 .. Len(clients) : clients'[k] = clients[k]
      /\ clients'[Len(clients) + 1] = new
  <2>1. clients' = Append(clients, new)
    BY DEF Welcome
  <2> HIDE DEF new
  <2> QED
    BY <1>1, <1>3, <2>1, AppendProperties
<1>5. /\ DOMAIN clients = 1 .. Len(clients)
      /\ DOMAIN clients' = 1 .. Len(clients) + 1
  BY <1>1, <1>4
<1>6. /\ Len(clients) < server.MAX_CLIENTS /\ UNCHANGED <<peer, wire, careless>>
      /\ accepted' = accepted \cup {s} /\ InTable = accepted
  BY DEF Welcome, RemoteInv, TableMatchesSockets
<1>7. /\ pc' = "sweep" /\ i' = 1 /\ readfds' = Readable /\ heard' = {}
      /\ UNCHANGED <<server, at, sends>>
  BY DEF Select
<1>8. Readable \subseteq InTable
  BY DEF Readable, Selected, InTable
<1>9. InTable \subseteq Sockets
  BY <1>1, EntryTypes DEF InTable
<1>10. TypeOK'
  <2>1. mail' \in [Sockets -> Seq(Answer)]
    <3>1. <<"WELCOME", "Please declare role">> \in Seq(Answer)
      BY DEF Answer
    <3> QED
      BY <1>1, <1>2, <3>1, TellTypes DEF Welcome
  <2>2. ASSUME NEW k \in DOMAIN clients'
        PROVE  Len(clients'[k].inbuf) < INBUF - 1
    <3>1. Len(new.inbuf) < INBUF - 1
      BY RemoteAssumption
    <3> HIDE DEF new
    <3>2. CASE k = Len(clients) + 1
      BY <1>4, <3>1, <3>2
    <3>3. CASE k \in DOMAIN clients
      BY <1>4, <1>5, <3>3 DEF RemoteInv, TypeOK
    <3> QED
      BY <1>1, <1>5, <3>2, <3>3
  <2>3. TableOK'
    BY <1>1, <1>4, <1>7, <2>2 DEF TableOK
  <2>4. LoopOK'
    BY <1>1, <1>2, <1>6, <1>7, <1>8, <1>9 DEF LoopOK
  <2>5. NetworkOK'
    BY <1>6, <1>7, <2>1 DEF NetworkOK, RemoteInv, TypeOK
  <2> QED
    BY <2>3, <2>4, <2>5, TypeParts, PTL
<1>11. TableMatchesSockets'
  <2>1. Len(clients') <= server'.MAX_CLIENTS
    BY <1>1, <1>4, <1>6, <1>7
  <2>2. ASSUME NEW k \in DOMAIN clients'
        PROVE  peer'[clients'[k].sock] \in {"on", "gone"}
    BY <1>1, <1>2, <1>4, <1>5, <1>6 DEF RemoteInv, TableMatchesSockets
  <2>3. ASSUME NEW j \in DOMAIN clients', NEW k \in DOMAIN clients',
               clients'[j].sock = clients'[k].sock
        PROVE  j = k
    BY <1>1, <1>2, <1>4, <1>5, <2>3 DEF RemoteInv, TableMatchesSockets, InTable
  <2>4. InTable' = accepted'
    <3>1. InTable' = {clients'[k].sock : k \in 1 .. Len(clients) + 1}
      BY <1>5 DEF InTable
    <3>2. InTable = {clients[k].sock : k \in 1 .. Len(clients)}
      BY <1>5 DEF InTable
    <3>3. Len(clients) + 1 \in 1 .. Len(clients) + 1 /\ new.sock = s
      BY <1>1
    <3> HIDE DEF new
    <3> QED
      BY <1>1, <1>4, <1>6, <3>1, <3>2, <3>3
  <2> QED
    BY <2>1, <2>2, <2>3, <2>4 DEF TableMatchesSockets
<1>12. CuttingALine'
  BY <1>7 DEF CuttingALine
<1>13. SweepSound'
  <2>1. ASSUME NEW r \in readfds'
        PROVE  \E k \in DOMAIN clients' : Ahead(k)' /\ clients'[k].sock = r
    <3>1. PICK k \in DOMAIN clients : clients[k].sock = r
      BY <1>7, <1>8, <2>1 DEF InTable
    <3> QED
      BY <1>1, <1>4, <1>5, <1>7, <3>1 DEF Ahead
  <2>2. ASSUME NEW k \in Reported'
        PROVE  wire'[clients'[k].sock] # <<>> \/ peer'[clients'[k].sock] = "gone"
    BY <1>6, <1>7, <2>2 DEF Reported, Readable
  <2> QED
    BY <2>1, <2>2 DEF SweepSound
<1> QED
  BY <1>10, <1>11, <1>12, <1>13 DEF RemoteInv

\* Without a new client the table stays as it is, and so does everybody in it.
LEMMA SelectKeepsInv ==
  ASSUME RemoteInv, Select
  PROVE  RemoteInv'
<1>1. /\ clients \in Seq(ClientInfo) /\ Len(clients) \in Nat
      /\ server \in Setups /\ server.MAX_CLIENTS \in Nat \ {0}
      /\ mail \in [Sockets -> Seq(Answer)]
  BY RemoteAssumption DEF RemoteInv, TypeOK
<1>2. /\ pc' = "sweep" /\ i' = 1 /\ readfds' = Readable /\ heard' = {}
      /\ UNCHANGED <<server, at, sends>>
  BY DEF Select
<1>3. Readable \subseteq InTable /\ InTable \subseteq Sockets
  BY <1>1, EntryTypes DEF Readable, Selected, InTable
<1>4. ASSUME UNCHANGED <<clients, accepted>>, NetworkOK',
             \A s \in InTable : peer'[s] = peer[s] /\ wire'[s] = wire[s]
      PROVE  RemoteInv'
  <2>1. TypeOK'
    <3>1. TableOK'
      BY <1>2, <1>4 DEF TableOK, RemoteInv, TypeOK
    <3>2. LoopOK'
      BY <1>1, <1>2, <1>3, <1>4 DEF LoopOK, RemoteInv, TypeOK
    <3> QED
      BY <1>4, <3>1, <3>2, TypeParts, PTL
  <2>2. TableMatchesSockets'
    BY <1>2, <1>4 DEF RemoteInv, TableMatchesSockets, InTable
  <2>3. CuttingALine'
    BY <1>2 DEF CuttingALine
  <2>4. SweepSound'
    <3>1. ASSUME NEW r \in readfds'
          PROVE  \E k \in DOMAIN clients' : Ahead(k)' /\ clients'[k].sock = r
      <4>1. PICK k \in DOMAIN clients : clients[k].sock = r
        BY <1>2, <1>3, <3>1 DEF InTable
      <4> QED
        BY <1>1, <1>2, <1>4, <4>1, EntryTypes DEF Ahead
    <3>2. ASSUME NEW k \in Reported'
          PROVE  wire'[clients'[k].sock] # <<>> \/ peer'[clients'[k].sock] = "gone"
      BY <1>2, <1>3, <1>4, <3>2 DEF Reported, Readable
    <3> QED
      BY <3>1, <3>2 DEF SweepSound
  <2> QED
    BY <2>1, <2>2, <2>3, <2>4 DEF RemoteInv
<1>5. CASE Knocking = {}
  BY <1>2, <1>4, <1>5 DEF Select, Accept, NetworkOK, RemoteInv, TypeOK
<1>6. CASE Knocking # {}
  <2>1. PICK s \in Knocking : Welcome(s) \/ TurnAway(s)
    BY <1>6 DEF Select, Accept
  <2>2. CASE Welcome(s)
    BY <2>2, WelcomeKeepsInv
  <2>3. CASE TurnAway(s)
    <3>1. s \in Sockets /\ s \notin InTable
      BY DEF Knocking, RemoteInv, TableMatchesSockets
    <3>2. mail' \in [Sockets -> Seq(Answer)]
      <4>1. <<"SERVER_BUSY">> \in Seq(Answer)
        BY DEF Answer
      <4> QED
        BY <1>1, <2>3, <3>1, <4>1, TellTypes DEF TurnAway
    <3>3. NetworkOK'
      <4>1. peer' \in [Sockets -> {"off", "on", "gone", "refused"}]
        BY <2>3, <3>1 DEF TurnAway, RemoteInv, TypeOK
      <4>2. wire' \in [Sockets -> Seq(Symbol)]
        <5>1. <<>> \in Seq(Symbol)
          OBVIOUS
        <5> QED
          BY <2>3, <3>1, <5>1 DEF TurnAway, RemoteInv, TypeOK
      <4>3. careless' \in [Sockets -> BOOLEAN]
        BY <2>3, <3>1 DEF TurnAway, RemoteInv, TypeOK
      <4> QED
        BY <1>2, <3>2, <4>1, <4>2, <4>3 DEF NetworkOK, RemoteInv, TypeOK
    <3>4. \A r \in InTable : peer'[r] = peer[r] /\ wire'[r] = wire[r]
      BY <1>3, <2>3, <3>1 DEF TurnAway, RemoteInv, TypeOK
    <3> QED
      BY <1>4, <2>3, <3>3, <3>4 DEF TurnAway
  <2> QED
    BY <2>1, <2>2, <2>3
<1> QED
  BY <1>5, <1>6

-----------------------------------------------------------------------------
(* The sweep *)

\* The client that is removed is the first the sweep comes to, and those that move
\* up are still ahead of it.
LEMMA RemoveKeepsInv ==
  ASSUME RemoteInv, NEW k \in DOMAIN clients, Remove(k)
  PROVE  RemoteInv'
<1> DEFINE s == clients[k].sock
           n == Len(clients)
<1>1. /\ clients \in Seq(ClientInfo) /\ n \in Nat /\ DOMAIN clients = 1 .. n
      /\ server \in Setups /\ server.MAX_CLIENTS \in Nat \ {0} /\ n <= server.MAX_CLIENTS
      /\ i \in Nat
  BY RemoteAssumption DEF RemoteInv, TypeOK, TableMatchesSockets
<1>2. k \in 1 .. n /\ s \in Sockets
  BY <1>1, EntryTypes
<1>3. /\ clients' \in Seq(ClientInfo) /\ Len(clients') = n - 1
      /\ \A j \in 1 .. n - 1 : clients'[j] = IF j < k THEN clients[j] ELSE clients[j + 1]
  BY <1>1, WithoutMovesUp DEF Remove
<1>4. DOMAIN clients' = 1 .. n - 1
  BY <1>1, <1>3, <1>2
<1>5. /\ pc = "sweep" /\ pc' = "sweep" /\ i' = k /\ heard' = heard \cup {s}
      /\ k >= i /\ (\A h \in Reported : h >= i => k <= h)
      /\ accepted' = accepted \ {s} /\ UNCHANGED <<server, readfds, mail, at, sends>>
  BY DEF Remove, FirstFrom, Close
<1>6. /\ peer' = [peer EXCEPT ![s] = "off"]
      /\ wire' = [wire EXCEPT ![s] = <<>>] /\ careless' = [careless EXCEPT ![s] = FALSE]
  BY DEF Remove, Close
<1>7. /\ peer \in [Sockets -> {"off", "on", "gone", "refused"}]
      /\ wire \in [Sockets -> Seq(Symbol)] /\ careless \in [Sockets -> BOOLEAN]
  BY DEF RemoteInv, TypeOK
<1>8. ASSUME NEW j \in DOMAIN clients'
      PROVE  \E h \in DOMAIN clients :
               h # k /\ clients'[j] = clients[h] /\ h = IF j < k THEN j ELSE j + 1
  <2>1. (IF j < k THEN j ELSE j + 1) \in DOMAIN clients \ {k}
    BY <1>1, <1>2, <1>4
  <2> QED
    BY <1>3, <1>4, <2>1
<1>9. \A h, j \in DOMAIN clients : clients[h].sock = clients[j].sock => h = j
  BY DEF RemoteInv, TableMatchesSockets
<1>10. TypeOK'
  <2>1. TableOK'
    BY <1>1, <1>3, <1>5, <1>8 DEF TableOK, RemoteInv, TypeOK
  <2>2. LoopOK'
    BY <1>1, <1>2, <1>5 DEF LoopOK, RemoteInv, TypeOK
  <2>3. NetworkOK'
    <3>1. <<>> \in Seq(Symbol)
      OBVIOUS
    <3>2. wire' \in [Sockets -> Seq(Symbol)]
      BY <1>2, <1>6, <1>7, <3>1
    <3>3. peer' \in [Sockets -> {"off", "on", "gone", "refused"}]
      BY <1>2, <1>6, <1>7
    <3>4. careless' \in [Sockets -> BOOLEAN]
      BY <1>2, <1>6, <1>7
    <3> QED
      BY <1>5, <3>2, <3>3, <3>4 DEF NetworkOK, RemoteInv, TypeOK
  <2> QED
    BY <2>1, <2>2, <2>3, TypeParts, PTL
<1>11. TableMatchesSockets'
  <2>1. Len(clients') <= server'.MAX_CLIENTS
    BY <1>1, <1>3, <1>5
  <2>2. ASSUME NEW j \in DOMAIN clients'
        PROVE  peer'[clients'[j].sock] \in {"on", "gone"}
    <3>1. PICK h \in DOMAIN clients : h # k /\ clients'[j] = clients[h]
      BY <1>8
    <3>2. clients[h].sock # s /\ clients[h].sock \in Sockets
      BY <1>1, <1>9, <3>1, EntryTypes
    <3>3. peer[clients[h].sock] \in {"on", "gone"}
      BY DEF RemoteInv, TableMatchesSockets
    <3> QED
      BY <1>6, <1>7, <3>1, <3>2, <3>3
  <2>3. ASSUME NEW j1 \in DOMAIN clients', NEW j2 \in DOMAIN clients',
               clients'[j1].sock = clients'[j2].sock
        PROVE  j1 = j2
    <3>1. PICK h1 \in DOMAIN clients :
            clients'[j1] = clients[h1] /\ h1 = IF j1 < k THEN j1 ELSE j1 + 1
      BY <1>8
    <3>2. PICK h2 \in DOMAIN clients :
            clients'[j2] = clients[h2] /\ h2 = IF j2 < k THEN j2 ELSE j2 + 1
      BY <1>8
    <3>3. h1 = h2
      BY <1>9, <2>3, <3>1, <3>2
    <3> QED
      BY <1>2, <1>4, <3>1, <3>2, <3>3
  <2>4. InTable' \subseteq accepted'
    <3> SUFFICES ASSUME NEW j \in DOMAIN clients'
                 PROVE  clients'[j].sock \in accepted'
      BY DEF InTable
    <3>1. PICK h \in DOMAIN clients : h # k /\ clients'[j] = clients[h]
      BY <1>8
    <3>2. clients[h].sock # s /\ clients[h].sock \in accepted
      BY <1>9, <3>1 DEF RemoteInv, TableMatchesSockets, InTable
    <3> QED
      BY <1>5, <3>1, <3>2
  <2>5. accepted' \subseteq InTable'
    <3> SUFFICES ASSUME NEW r \in accepted, r # s
                 PROVE  \E j \in DOMAIN clients' : clients'[j].sock = r
      BY <1>5 DEF InTable
    <3>1. PICK h \in 1 .. n : clients[h].sock = r /\ h # k
      BY <1>1 DEF RemoteInv, TableMatchesSockets, InTable
    <3>2. CASE h < k
      BY <1>1, <1>2, <1>3, <1>4, <3>1, <3>2
    <3>3. CASE h > k
      <4>1. h - 1 \in DOMAIN clients' /\ ~(h - 1 < k) /\ (h - 1) + 1 = h
        BY <1>1, <1>2, <1>4, <3>1, <3>3
      <4> QED
        BY <1>3, <1>4, <3>1, <4>1
    <3> QED
      BY <1>2, <3>1, <3>2, <3>3
  <2> QED
    BY <2>1, <2>2, <2>3, <2>4, <2>5 DEF TableMatchesSockets
<1>12. CuttingALine'
  BY <1>5 DEF CuttingALine
<1>13. SweepSound'
  <2>1. ASSUME NEW j \in Reported', Ahead(j)'
        PROVE  wire'[clients'[j].sock] # <<>> \/ peer'[clients'[j].sock] = "gone"
    <3>1. j \in DOMAIN clients' /\ j >= k
      BY <1>5, <2>1 DEF Reported, Ahead
    <3>2. PICK h \in DOMAIN clients :
            h # k /\ clients'[j] = clients[h] /\ h = IF j < k THEN j ELSE j + 1
      BY <1>8, <3>1
    <3>3. h >= i /\ h \in Reported
      BY <1>1, <1>2, <1>4, <1>5, <2>1, <3>1, <3>2 DEF Reported
    <3>4. wire[clients[h].sock] # <<>> \/ peer[clients[h].sock] = "gone"
      BY <1>5, <3>3 DEF RemoteInv, SweepSound, Ahead
    <3>5. clients[h].sock # s /\ clients[h].sock \in Sockets
      BY <1>1, <1>9, <3>2, EntryTypes
    <3> QED
      BY <1>6, <1>7, <3>2, <3>4, <3>5
  <2>2. ASSUME NEW r \in readfds', r \notin heard'
        PROVE  \E j \in DOMAIN clients' : Ahead(j)' /\ clients'[j].sock = r
    <3>1. r \in readfds /\ r \notin heard /\ r # s
      BY <1>5, <2>2
    <3>2. PICK h \in DOMAIN clients : h >= i /\ clients[h].sock = r
      BY <1>5, <3>1 DEF RemoteInv, SweepSound, Ahead
    <3>3. h \in Reported /\ h # k /\ h \in 1 .. n
      BY <1>1, <3>1, <3>2 DEF Reported
    <3>4. h > k /\ h - 1 \in DOMAIN clients' /\ h - 1 >= k /\ (h - 1) + 1 = h
      BY <1>1, <1>2, <1>4, <1>5, <3>2, <3>3
    <3>5. clients'[h - 1] = clients[h]
      BY <1>2, <1>3, <1>4, <3>4
    <3> QED
      BY <1>5, <3>2, <3>4, <3>5 DEF Ahead
  <2> QED
    BY <2>1, <2>2 DEF SweepSound
<1> QED
  BY <1>10, <1>11, <1>12, <1>13 DEF RemoteInv

\* Whatever happens to one entry but its socket, its owner having been served
\* and everybody behind it left alone.
LEMMA EntryStepKeepsInv ==
  ASSUME RemoteInv, NEW k \in DOMAIN clients, NEW c \in ClientInfo,
         c.sock = clients[k].sock, Len(c.inbuf) < INBUF - 1,
         clients' = [clients EXCEPT ![k] = c], CutOn(k, c.inbuf),
         UNCHANGED <<server, accepted, readfds, peer>>, NetworkOK', heard' \subseteq Sockets,
         \A s \in Sockets : s # c.sock => wire'[s] = wire[s],
         \A h \in DOMAIN clients : h > k /\ h \in Reported => Ahead(h),
         \A s \in readfds : s \notin heard' =>
           \E h \in DOMAIN clients : h > k /\ clients[h].sock = s,
         pc \in {"sweep", "cut"}
  PROVE  RemoteInv'
<1> DEFINE n == Len(clients)
<1>1. /\ clients \in Seq(ClientInfo) /\ n \in Nat /\ DOMAIN clients = 1 .. n
      /\ server \in Setups /\ server.MAX_CLIENTS \in Nat \ {0} /\ n <= server.MAX_CLIENTS
      /\ k \in 1 .. n
  BY RemoteAssumption DEF RemoteInv, TypeOK, TableMatchesSockets
<1>2. /\ clients' \in Seq(ClientInfo) /\ Len(clients') = n
      /\ \A j \in 1 .. n : clients'[j] = IF j = k THEN c ELSE clients[j]
  BY <1>1, ExceptSeq
<1>3. /\ DOMAIN clients' = DOMAIN clients
      /\ \A j \in DOMAIN clients : clients'[j].sock = clients[j].sock
      /\ \A j \in DOMAIN clients : j # k => clients'[j] = clients[j]
      /\ clients'[k] = c
  BY <1>1, <1>2
<1>4. /\ pc' \in {"sweep", "cut"}
      /\ \A j \in 1 .. n : Ahead(j)' <=> j > k
      /\ i' \in 1 .. server.MAX_CLIENTS + 1
  BY <1>1 DEF CutOn, Ahead
<1>5. TypeOK'
  <2>1. TableOK'
    BY <1>1, <1>2, <1>3 DEF TableOK, RemoteInv, TypeOK
  <2>2. LoopOK'
    BY <1>4 DEF LoopOK, RemoteInv, TypeOK
  <2> QED
    BY <2>1, <2>2, TypeParts, PTL
<1>6. TableMatchesSockets'
  BY <1>1, <1>2, <1>3 DEF RemoteInv, TableMatchesSockets, InTable
<1>7. CuttingALine'
  BY <1>1, <1>3 DEF CuttingALine, CutOn
<1>8. SweepSound'
  <2>1. ASSUME NEW j \in Reported', Ahead(j)'
        PROVE  wire'[clients'[j].sock] # <<>> \/ peer'[clients'[j].sock] = "gone"
    <3>1. j \in DOMAIN clients /\ j > k /\ j \in Reported
      BY <1>1, <1>3, <1>4, <2>1 DEF Reported
    <3>2. wire[clients[j].sock] # <<>> \/ peer[clients[j].sock] = "gone"
      BY <3>1 DEF RemoteInv, SweepSound
    <3>3. clients[j].sock # c.sock /\ clients[j].sock \in Sockets
      BY <1>1, <3>1, EntryTypes DEF RemoteInv, TableMatchesSockets
    <3> QED
      BY <1>3, <3>1, <3>2, <3>3
  <2>2. ASSUME NEW r \in readfds', r \notin heard'
        PROVE  \E j \in DOMAIN clients' : Ahead(j)' /\ clients'[j].sock = r
    BY <1>1, <1>3, <1>4, <2>2
  <2> QED
    BY <2>1, <2>2 DEF SweepSound
<1> QED
  BY <1>5, <1>6, <1>7, <1>8 DEF RemoteInv

LEMMA RecvKeepsInv ==
  ASSUME RemoteInv, NEW k \in DOMAIN clients, Recv(k)
  PROVE  RemoteInv'
<1> DEFINE s == clients[k].sock
<1>1. /\ clients \in Seq(ClientInfo) /\ s \in Sockets
      /\ clients[k] \in ClientInfo /\ clients[k].inbuf \in Seq(Symbol)
      /\ wire \in [Sockets -> Seq(Symbol)] /\ wire[s] \in Seq(Symbol)
      /\ i \in Nat
  BY RemoteAssumption, EntryTypes DEF RemoteInv, TypeOK
<1>2. PICK m \in 1 .. Len(wire[s]) :
        /\ clients' = [clients EXCEPT ![k].inbuf = Buffered(@, SubSeq(wire[s], 1, m))]
        /\ wire' = [wire EXCEPT ![s] = SubSeq(@, m + 1, Len(@))]
  BY DEF Recv
<1>3. /\ pc = "sweep" /\ k >= i /\ (\A h \in Reported : h >= i => k <= h)
      /\ heard' = heard \cup {s}
      /\ CutOn(k, clients'[k].inbuf)
      /\ UNCHANGED <<server, accepted, readfds, peer, mail, at, sends, careless>>
  BY DEF Recv, FirstFrom
<1> DEFINE chunk == SubSeq(wire[s], 1, m)
           rest  == SubSeq(wire[s], m + 1, Len(wire[s]))
           c     == [clients[k] EXCEPT !.inbuf = Buffered(clients[k].inbuf, chunk)]
<1>4. chunk \in Seq(Symbol)
  <2>1. m \in Int /\ \A j \in 1 .. m : wire[s][j] \in Symbol
    BY <1>1, ElementOfSeq
  <2> QED
    BY <2>1, SubSeqProperties
<1>5. rest \in Seq(Symbol)
  <2>1. m + 1 \in Int /\ Len(wire[s]) \in Int
        /\ \A j \in m + 1 .. Len(wire[s]) : wire[s][j] \in Symbol
    BY <1>1, ElementOfSeq
  <2> QED
    BY <2>1, SubSeqProperties
<1>6. /\ Buffered(clients[k].inbuf, chunk) \in Seq(Symbol)
      /\ Len(Buffered(clients[k].inbuf, chunk)) < INBUF - 1
  BY <1>1, <1>4, BufferHolds
<1>7. clients' = [clients EXCEPT ![k] = c] /\ wire' = [wire EXCEPT ![s] = rest]
  BY <1>2
<1> HIDE DEF chunk, rest
<1>8. /\ c \in ClientInfo /\ c.sock = s
      /\ c.inbuf = Buffered(clients[k].inbuf, chunk) /\ clients'[k] = c
  BY <1>1, <1>6, <1>7 DEF ClientInfo
<1>9. NetworkOK'
  <2>1. wire' \in [Sockets -> Seq(Symbol)]
    BY <1>1, <1>5, <1>7
  <2> QED
    BY <1>3, <2>1 DEF NetworkOK, RemoteInv, TypeOK
<1>10. ASSUME NEW h \in DOMAIN clients, h > k, h \in Reported
       PROVE  Ahead(h)
  BY <1>1, <1>3, <1>10, EntryTypes DEF Ahead
<1>11. ASSUME NEW r \in readfds, r \notin heard'
       PROVE  \E h \in DOMAIN clients : h > k /\ clients[h].sock = r
  <2>1. r # s /\ r \notin heard
    BY <1>3, <1>11
  <2>2. PICK h \in DOMAIN clients : h >= i /\ clients[h].sock = r
    BY <1>3, <1>11, <2>1 DEF RemoteInv, SweepSound, Ahead
  <2>3. h \in Reported /\ h # k /\ k <= h /\ h \in Nat /\ k \in Nat
    BY <1>1, <1>3, <1>11, <2>1, <2>2, EntryTypes DEF Reported
  <2> QED
    BY <2>2, <2>3
<1>12. \A r \in Sockets : r # c.sock => wire'[r] = wire[r]
  BY <1>1, <1>7, <1>8
<1>13. heard' \subseteq Sockets
  BY <1>1, <1>3 DEF RemoteInv, TypeOK
<1>14. CutOn(k, c.inbuf) /\ Len(c.inbuf) < INBUF - 1
  BY <1>3, <1>6, <1>8
<1> HIDE DEF c
<1> QED
  BY <1>3, <1>7, <1>8, <1>9, <1>10, <1>11, <1>12, <1>13, <1>14, EntryStepKeepsInv

LEMMA HandleLineKeepsInv ==
  ASSUME RemoteInv, HandleLine
  PROVE  RemoteInv'
<1>1. pc = "cut" /\ i \in DOMAIN clients /\ LineEnds(clients[i].inbuf) # {}
  BY DEF HandleLine, RemoteInv, CuttingALine
<1> DEFINE c    == clients[i]
           s    == clients[i].sock
           rest == AfterLine(c.inbuf)
           line == NextLine(c.inbuf)
           quiet == [c EXCEPT !.inbuf = rest]
           told(cmd) == [c EXCEPT !.inbuf = rest, !.type = RoleAfter(c.type, cmd),
                                  !.watching = WatchingAfter(c.type, c.watching, cmd)]
<1>2. /\ clients \in Seq(ClientInfo) /\ s \in Sockets /\ c \in ClientInfo
      /\ c.inbuf \in Seq(Symbol) /\ c.type \in Role /\ c.watching \in BOOLEAN
      /\ Len(c.inbuf) < INBUF - 1 /\ i \in Nat /\ i \in 1 .. Len(clients)
      /\ mail \in [Sockets -> Seq(Answer)]
  BY <1>1, EntryTypes DEF RemoteInv, TypeOK
<1>3. rest \in Seq(Symbol) /\ Len(rest) < Len(c.inbuf)
  BY <1>1, <1>2, RestIsShorter
<1>4. Len(rest) < INBUF - 1
  BY <1>2, <1>3, LenProperties, RemoteAssumption
<1>5. /\ CutOn(i, rest)
      /\ UNCHANGED <<server, accepted, readfds, heard, peer, wire, at, sends, careless>>
      /\ \/ clients' = [clients EXCEPT ![i].inbuf = rest] /\ UNCHANGED mail
         \/ \E cmd \in FirstWord(line) :
              clients' = [clients EXCEPT ![i] = told(cmd)] /\ Reply(c, cmd)
  BY DEF HandleLine
<1>6. FirstWord(line) \subseteq Command
  BY DEF FirstWord
<1> HIDE DEF rest, line
<1>7. PICK new \in ClientInfo :
        /\ new.sock = s /\ new.inbuf = rest
        /\ clients' = [clients EXCEPT ![i] = new] /\ mail' \in [Sockets -> Seq(Answer)]
  <2>1. CASE clients' = [clients EXCEPT ![i].inbuf = rest] /\ UNCHANGED mail
    <3>1. quiet \in ClientInfo /\ quiet.sock = s /\ quiet.inbuf = rest
      BY <1>2, <1>3 DEF ClientInfo
    <3>2. clients' = [clients EXCEPT ![i] = quiet]
      BY <2>1
    <3> QED
      BY <1>2, <2>1, <3>1, <3>2
  <2>2. CASE \E cmd \in FirstWord(line) :
               clients' = [clients EXCEPT ![i] = told(cmd)] /\ Reply(c, cmd)
    <3>1. PICK cmd \in FirstWord(line) :
            clients' = [clients EXCEPT ![i] = told(cmd)] /\ Reply(c, cmd)
      BY <2>2
    <3>2. /\ RoleAfter(c.type, cmd) \in Role
          /\ WatchingAfter(c.type, c.watching, cmd) \in BOOLEAN
          /\ Answers(c.type, cmd) \subseteq Answer
      BY <1>2, <1>6, ProtocolTypes
    <3>3. told(cmd) \in ClientInfo /\ told(cmd).sock = s /\ told(cmd).inbuf = rest
      BY <1>2, <1>3, <3>2 DEF ClientInfo
    <3>4. PICK answer \in Answer : Tell(s, <<answer>>)
      BY <3>1, <3>2 DEF Reply
    <3>5. <<answer>> \in Seq(Answer)
      OBVIOUS
    <3>6. mail' \in [Sockets -> Seq(Answer)]
      BY <1>2, <3>4, <3>5, TellTypes
    <3> QED
      BY <3>1, <3>3, <3>6
  <2> QED
    BY <1>5, <2>1, <2>2
<1>8. NetworkOK'
  BY <1>5, <1>7 DEF NetworkOK, RemoteInv, TypeOK
<1>9. \A h \in DOMAIN clients : h > i /\ h \in Reported => Ahead(h)
  BY <1>1 DEF Ahead
<1>10. \A r \in readfds : r \notin heard' =>
         \E h \in DOMAIN clients : h > i /\ clients[h].sock = r
  BY <1>1, <1>5 DEF RemoteInv, SweepSound, Ahead
<1>11. heard' \subseteq Sockets
  BY <1>5 DEF RemoteInv, TypeOK
<1> QED
  BY <1>1, <1>4, <1>5, <1>7, <1>8, <1>9, <1>10, <1>11, EntryStepKeepsInv

-----------------------------------------------------------------------------
(* The broadcast *)

\* Outside the sweep the invariant says nothing of the loop.
LEMMA OutsideSweepKeepsInv ==
  ASSUME RemoteInv, UNCHANGED <<server, clients, accepted, peer, wire, at, sends, careless>>,
         pc' \in {"select", "broadcast"}, i' \in 1 .. server.MAX_CLIENTS + 1,
         readfds' \subseteq Sockets, heard' \subseteq Sockets,
         mail' \in [Sockets -> Seq(Answer)]
  PROVE  RemoteInv'
<1>1. TypeOK'
  BY DEF RemoteInv, TypeOK
<1>2. TableMatchesSockets'
  BY DEF RemoteInv, TableMatchesSockets, InTable
<1>3. CuttingALine' /\ SweepSound'
  BY DEF CuttingALine, SweepSound
<1> QED
  BY <1>1, <1>2, <1>3 DEF RemoteInv

LEMMA BroadcastKeepsInv ==
  ASSUME RemoteInv,
         SweepDone \/ BroadcastDone \/ \E k \in DOMAIN clients : Broadcast(k)
  PROVE  RemoteInv'
<1>1. /\ clients \in Seq(ClientInfo) /\ Len(clients) \in Nat
      /\ server.MAX_CLIENTS \in Nat \ {0} /\ Len(clients) <= server.MAX_CLIENTS
      /\ mail \in [Sockets -> Seq(Answer)]
      /\ readfds \subseteq Sockets /\ heard \subseteq Sockets
  BY RemoteAssumption DEF RemoteInv, TypeOK, TableMatchesSockets
<1>2. CASE SweepDone
  BY <1>1, <1>2, OutsideSweepKeepsInv DEF SweepDone, network
<1>3. CASE BroadcastDone
  BY <1>1, <1>3, OutsideSweepKeepsInv DEF BroadcastDone, network
<1>4. CASE \E k \in DOMAIN clients : Broadcast(k)
  <2>1. PICK k \in DOMAIN clients : Broadcast(k)
    BY <1>4
  <2>2. k \in Nat \ {0} /\ k <= Len(clients) /\ clients[k].sock \in Sockets
    BY <1>1, EntryTypes
  <2>3. <<"status">> \in Seq(Answer)
    BY DEF Answer
  <2>4. mail' \in [Sockets -> Seq(Answer)]
    BY <1>1, <2>1, <2>2, <2>3, TellTypes DEF Broadcast
  <2>5. i' \in 1 .. server.MAX_CLIENTS + 1
    BY <1>1, <2>1, <2>2 DEF Broadcast
  <2> QED
    BY <1>1, <2>1, <2>4, <2>5, OutsideSweepKeepsInv DEF Broadcast
<1> QED
  BY <1>2, <1>3, <1>4

-----------------------------------------------------------------------------
(* The theorems *)

LEMMA RemoteInvInitially == Init => RemoteInv
<1> SUFFICES ASSUME Init
             PROVE  RemoteInv
  OBVIOUS
<1>1. clients = <<>> /\ DOMAIN clients = {} /\ Len(clients) = 0
      /\ clients \in Seq(ClientInfo) /\ pc = "select"
  BY DEF Init
<1>2. server \in Setups /\ server.MAX_CLIENTS \in Nat \ {0}
  BY RemoteAssumption DEF Init
<1>3. NetworkOK
  BY DEF Init, NetworkOK
<1>4. TypeOK
  <2>1. TableOK
    BY <1>1, <1>2 DEF TableOK
  <2>2. LoopOK
    BY <1>2 DEF Init, LoopOK
  <2> QED
    BY <1>3, <2>1, <2>2, TypeParts
<1>5. TableMatchesSockets
  BY <1>1, <1>2 DEF TableMatchesSockets, InTable, Init
<1> QED
  BY <1>1, <1>4, <1>5 DEF RemoteInv, CuttingALine, SweepSound

LEMMA RemoteInvStep == RemoteInv /\ [Next]_vars => RemoteInv'
<1> SUFFICES ASSUME RemoteInv, [Next]_vars
             PROVE  RemoteInv'
  OBVIOUS
<1>1. CASE Select
  BY <1>1, SelectKeepsInv
<1>2. ASSUME NEW k \in DOMAIN clients, Remove(k)
      PROVE  RemoteInv'
  BY <1>2, RemoveKeepsInv
<1>3. ASSUME NEW k \in DOMAIN clients, Recv(k)
      PROVE  RemoteInv'
  BY <1>3, RecvKeepsInv
<1>4. CASE HandleLine
  BY <1>4, HandleLineKeepsInv
<1>5. CASE SweepDone \/ BroadcastDone \/ \E k \in DOMAIN clients : Broadcast(k)
  BY <1>5, BroadcastKeepsInv
<1>6. ASSUME NEW s \in Sockets, Client(s)
      PROVE  RemoteInv'
  BY <1>6, ClientKeepsInv
<1>7. CASE UNCHANGED vars
  <2>1. NetworkOK'
    BY <1>7 DEF RemoteInv, TypeOK, NetworkOK, vars, network
  <2> QED
    BY <1>7, <2>1, ClientStepKeepsInv DEF vars, network
<1> QED
  BY <1>1, <1>2, <1>3, <1>4, <1>5, <1>6, <1>7 DEF Next, run_remote_server

\* The invariant holds of every behaviour, whatever Setups holds.
THEOREM RemoteInvHolds == Spec => []RemoteInv
BY RemoteInvInitially, RemoteInvStep, PTL DEF Spec

\* Type correctness; with it, no buffer ever holds more than inbuf does.
THEOREM RemoteTypeCorrect == Spec => []TypeOK
<1>1. RemoteInv => TypeOK
  BY DEF RemoteInv
<1> QED
  BY <1>1, RemoteInvHolds, PTL

\* Compacting the table neither loses a client, nor keeps a closed socket, nor
\* doubles an entry, and accepting never overfills it.
THEOREM TableIsSound == Spec => []TableMatchesSockets
<1>1. RemoteInv => TableMatchesSockets
  BY DEF RemoteInv
<1> QED
  BY <1>1, RemoteInvHolds, PTL

\* The sweep calls recv only where something waits.
THEOREM RecvIsReady == Spec => []RecvNeverBlocks
<1>1. RemoteInv => RecvNeverBlocks
  <2>1. RemoteInv /\ pc = "sweep" => \A k \in Reported : k >= i <=> Ahead(k)
    BY DEF Ahead
  <2> QED
    BY <2>1 DEF RemoteInv, SweepSound, RecvNeverBlocks
<1> QED
  BY <1>1, RemoteInvHolds, PTL

\* A sweep over a table that shrinks under it still comes to everybody select
\* reported.
THEOREM SweepIsComplete == Spec => SweepMissesNobody
<1>1. RemoteInv /\ [Next]_vars =>
        [pc = "sweep" /\ pc' \in {"broadcast", "select"} => readfds \subseteq heard]_vars
  <2> SUFFICES ASSUME RemoteInv, Next, pc = "sweep", pc' \in {"broadcast", "select"},
                      NEW s \in readfds, s \notin heard
               PROVE  FALSE
    OBVIOUS
  <2>1. PICK k \in DOMAIN clients : k >= i /\ clients[k].sock = s
    BY DEF RemoteInv, SweepSound, Ahead
  <2>2. k \in Reported /\ k \in Nat /\ i \in Nat
    <3>1. clients \in Seq(ClientInfo) /\ server \in Setups /\ i \in 1 .. server.MAX_CLIENTS + 1
      BY DEF RemoteInv, TypeOK
    <3> QED
      BY <2>1, <3>1, EntryTypes DEF Reported
  <2>3. ~SweepDone
    BY <2>1, <2>2 DEF SweepDone
  <2>4. SweepDone
    BY DEF Next, run_remote_server, Select, Remove, Recv, CutOn, Broadcast, HandleLine,
           BroadcastDone, Client, Connect, Choose, SendText, Put, Receive, Leave, loop
  <2> QED
    BY <2>3, <2>4
<1> QED
  BY <1>1, RemoteInvHolds, PTL DEF Spec, SweepMissesNobody

\* Induction over sequences: a set of them closed under appending has them all.
LEMMA SequenceInduction ==
  ASSUME NEW S, NEW P \in SUBSET Seq(S), <<>> \in P,
         \A a \in P, x \in S : Append(a, x) \in P
  PROVE  Seq(S) \subseteq P
<1> DEFINE Lengths == {n \in Nat : \E a \in Seq(S) : a \notin P /\ Len(a) = n}
<1>1. SUFFICES ASSUME Lengths # {}
               PROVE  FALSE
  <2>1. \A a \in Seq(S) : a \notin P => Len(a) \in Lengths
    BY LenProperties
  <2> HIDE DEF Lengths
  <2> QED
    BY <2>1
<1>2. PICK n \in Lengths : \A m \in Lengths : n <= m
  <2>1. Lengths \in SUBSET Nat
    OBVIOUS
  <2> HIDE DEF Lengths
  <2> QED
    BY <1>1, <2>1, FirstExists
<1>3. PICK a \in Seq(S) : a \notin P /\ Len(a) = n
  BY <1>2
<1>4. PICK b \in Seq(S), x \in S : a = Append(b, x)
  BY <1>3, SequenceEmptyOrAppend
<1>5. Len(a) = Len(b) + 1 /\ Len(b) \in Nat
  BY <1>4, AppendProperties, LenProperties
<1>6. Len(b) \notin Lengths
  <2>1. \A m \in Lengths : Len(b) < m
    <3>1. \A m \in Lengths : m \in Nat /\ n <= m
      BY <1>2
    <3>2. Len(b) \in Nat /\ n = Len(b) + 1
      BY <1>3, <1>5
    <3> HIDE DEF Lengths
    <3> QED
      BY <3>1, <3>2
  <2>2. ~(Len(b) < Len(b))
    BY <1>5
  <2> HIDE DEF Lengths
  <2> QED
    BY <2>1, <2>2
<1>7. b \in P
  BY <1>4, <1>5, <1>6
<1> QED
  BY <1>3, <1>4, <1>7

-----------------------------------------------------------------------------
(* The commands in a text *)

\* scan[k] are the commands among the first k of input's symbols.
IsScan(scan, input, n) ==
  scan = [k \in 0 .. n |->
            IF k = 0 THEN <<>>
            ELSE IF input[k] \in Command THEN Append(scan[k - 1], input[k]) ELSE scan[k - 1]]

\* What a scan one symbol longer adds.
LEMMA ScanGoesOn ==
  ASSUME NEW input, NEW n \in Nat, NEW scan, IsScan(scan, input, n),
         NEW text, NEW x, \A k \in 1 .. n : text[k] = input[k], text[n + 1] = x
  PROVE  \E longer :
           /\ IsScan(longer, text, n + 1)
           /\ longer[n + 1] = IF x \in Command THEN Append(scan[n], x) ELSE scan[n]
<1> DEFINE longer == [k \in 0 .. n + 1 |-> IF k <= n THEN scan[k]
                       ELSE IF x \in Command THEN Append(scan[n], x) ELSE scan[n]]
<1> DEFINE next(f, k) == IF k = 0 THEN <<>>
                         ELSE IF text[k] \in Command THEN Append(f[k - 1], text[k]) ELSE f[k - 1]
<1>1. \A k \in 0 .. n : scan[k] = IF k = 0 THEN <<>>
        ELSE IF input[k] \in Command THEN Append(scan[k - 1], input[k]) ELSE scan[k - 1]
  BY DEF IsScan
<1>2. ASSUME NEW k \in 0 .. n + 1
      PROVE  longer[k] = next(longer, k)
  <2>1. CASE k = 0
    BY <1>1, <2>1
  <2>2. CASE k = n + 1
    <3>1. longer[k - 1] = scan[n] /\ k # 0 /\ text[k] = x /\ ~(k <= n)
      BY <2>2
    <3> QED
      BY <2>2, <3>1
  <2>3. CASE k # 0 /\ k # n + 1
    <3>1. k \in 1 .. n /\ k \in 0 .. n /\ k - 1 \in 0 .. n /\ k <= n /\ k - 1 <= n /\ k - 1 \in 0 .. n + 1
      BY <2>3
    <3>2. longer[k] = scan[k] /\ longer[k - 1] = scan[k - 1] /\ text[k] = input[k]
      BY <3>1
    <3> QED
      BY <1>1, <2>3, <3>1, <3>2
  <2> QED
    BY <2>1, <2>2, <2>3
<1>3. longer = [k \in 0 .. n + 1 |-> next(longer, k)]
  BY <1>2
<1>4. IsScan(longer, text, n + 1)
  BY <1>3 DEF IsScan
<1>5. longer[n + 1] = IF x \in Command THEN Append(scan[n], x) ELSE scan[n]
  OBVIOUS
<1> HIDE DEF longer
<1> QED
  BY <1>4, <1>5

\* Every text can be scanned.
LEMMA ScanExists ==
  ASSUME NEW input \in Seq(Symbol)
  PROVE  \E scan : IsScan(scan, input, Len(input))
<1> DEFINE P == {a \in Seq(Symbol) : \E scan : IsScan(scan, a, Len(a))}
<1>1. <<>> \in P
  <2>1. IsScan([k \in 0 .. 0 |-> <<>>], <<>>, 0)
    BY DEF IsScan
  <2> QED
    BY <2>1, EmptySeq
<1>2. ASSUME NEW a \in P, NEW x \in Symbol
      PROVE  Append(a, x) \in P
  <2>1. PICK scan : IsScan(scan, a, Len(a))
    OBVIOUS
  <2>2. /\ Append(a, x) \in Seq(Symbol) /\ Len(a) \in Nat /\ Len(Append(a, x)) = Len(a) + 1
        /\ \A k \in 1 .. Len(a) : Append(a, x)[k] = a[k]
        /\ Append(a, x)[Len(a) + 1] = x
    BY AppendProperties, LenProperties
  <2>3. \E longer : IsScan(longer, Append(a, x), Len(a) + 1)
    BY <2>1, <2>2, ScanGoesOn
  <2> QED
    BY <2>2, <2>3
<1>3. Seq(Symbol) \subseteq P
  <2> HIDE DEF P
  <2>1. P \in SUBSET Seq(Symbol)
    BY DEF P
  <2> QED
    BY <1>1, <1>2, <2>1, SequenceInduction
<1> QED
  BY <1>3

\* In one way only.
LEMMA ScansAgree ==
  ASSUME NEW input, NEW n \in Nat, NEW f, IsScan(f, input, n), NEW g, IsScan(g, input, n)
  PROVE  f = g
<1> DEFINE Off == {k \in 0 .. n : f[k] # g[k]}
<1>1. SUFFICES ASSUME Off # {}
               PROVE  FALSE
  <2>1. f = [k \in 0 .. n |-> f[k]] /\ g = [k \in 0 .. n |-> g[k]]
    BY DEF IsScan
  <2> QED
    BY <2>1
<1>2. PICK m \in Off : \A k \in Off : m <= k
  <2>1. Off \in SUBSET Nat
    OBVIOUS
  <2> HIDE DEF Off
  <2> QED
    BY <1>1, <2>1, FirstExists
<1>3. \A k \in 0 .. n :
        /\ f[k] = IF k = 0 THEN <<>>
             ELSE IF input[k] \in Command THEN Append(f[k - 1], input[k]) ELSE f[k - 1]
        /\ g[k] = IF k = 0 THEN <<>>
             ELSE IF input[k] \in Command THEN Append(g[k - 1], input[k]) ELSE g[k - 1]
  BY DEF IsScan
<1>4. m # 0 /\ m - 1 \in 0 .. n /\ f[m - 1] = g[m - 1]
  <2>1. m # 0
    BY <1>2, <1>3
  <2>2. m - 1 \in 0 .. n /\ m - 1 \notin Off
    BY <1>2, <2>1
  <2> QED
    BY <2>1, <2>2
<1> QED
  BY <1>2, <1>3, <1>4

\* Any scan of a text ends with its commands.
LEMMA CommandsAreScanned ==
  ASSUME NEW input \in Seq(Symbol), NEW scan, IsScan(scan, input, Len(input))
  PROVE  Commands(input) = scan[Len(input)]
<1> DEFINE theScan == CHOOSE f : IsScan(f, input, Len(input))
<1>1. Commands(input) = theScan[Len(input)]
  BY DEF Commands, IsScan
<1>2. IsScan(theScan, input, Len(input))
  OBVIOUS
<1>3. theScan = scan
  BY <1>2, ScansAgree, LenProperties
<1> QED
  BY <1>1, <1>3

\* One symbol more is one command more, or none.
LEMMA CommandsAppended ==
  ASSUME NEW a \in Seq(Symbol), NEW x \in Symbol
  PROVE  Commands(Append(a, x)) = IF x \in Command THEN Append(Commands(a), x) ELSE Commands(a)
<1> DEFINE n == Len(a)
<1>1. PICK scan : IsScan(scan, a, n)
  BY ScanExists
<1>2. /\ Append(a, x) \in Seq(Symbol) /\ n \in Nat /\ Len(Append(a, x)) = n + 1
      /\ \A k \in 1 .. n : Append(a, x)[k] = a[k]
      /\ Append(a, x)[n + 1] = x
  BY AppendProperties, LenProperties
<1>3. PICK longer : /\ IsScan(longer, Append(a, x), n + 1)
                    /\ longer[n + 1] = IF x \in Command THEN Append(scan[n], x) ELSE scan[n]
  <2> DEFINE text == Append(a, x)
  <2>1. n \in Nat /\ (\A k \in 1 .. n : text[k] = a[k]) /\ text[n + 1] = x
    BY <1>2
  <2> HIDE DEF n, text
  <2>2. \E longer : /\ IsScan(longer, text, n + 1)
                    /\ longer[n + 1] = IF x \in Command THEN Append(scan[n], x) ELSE scan[n]
    BY <1>1, <2>1, ScanGoesOn
  <2> QED
    BY <2>2 DEF text
<1>4. Commands(a) = scan[n] /\ Commands(Append(a, x)) = longer[n + 1]
  BY <1>1, <1>2, <1>3, CommandsAreScanned
<1> QED
  BY <1>3, <1>4

\* Nothing holds no commands.
LEMMA NoCommands == Commands(<<>>) = <<>>
<1>1. IsScan([k \in 0 .. 0 |-> <<>>], <<>>, 0)
  BY DEF IsScan
<1>2. Commands(<<>>) = [k \in 0 .. 0 |-> <<>>][0]
  <2>1. <<>> \in Seq(Symbol) /\ Len(<<>>) = 0
    BY EmptySeq
  <2> QED
    BY <1>1, <2>1, CommandsAreScanned
<1> QED
  BY <1>2

\* The commands of a text are commands.
LEMMA CommandsTypes ==
  ASSUME NEW a \in Seq(Symbol)
  PROVE  Commands(a) \in Seq(Command)
<1> DEFINE P == {b \in Seq(Symbol) : Commands(b) \in Seq(Command)}
<1>1. <<>> \in P
  BY NoCommands, EmptySeq
<1>2. ASSUME NEW b \in P, NEW x \in Symbol
      PROVE  Append(b, x) \in P
  <2>1. Append(b, x) \in Seq(Symbol)
    BY AppendProperties
  <2>2. x \in Command => Append(Commands(b), x) \in Seq(Command)
    BY AppendProperties
  <2> QED
    BY <2>1, <2>2, CommandsAppended
<1>3. Seq(Symbol) \subseteq P
  <2>1. P \in SUBSET Seq(Symbol)
    OBVIOUS
  <2> HIDE DEF P
  <2> QED
    BY <1>1, <1>2, <2>1, SequenceInduction
<1> QED
  BY <1>3

\* The commands of two texts, one after the other.
LEMMA CommandsJoin ==
  ASSUME NEW a \in Seq(Symbol), NEW b \in Seq(Symbol)
  PROVE  Commands(a \o b) = Commands(a) \o Commands(b)
<1> DEFINE P == {c \in Seq(Symbol) : Commands(a \o c) = Commands(a) \o Commands(c)}
<1>1. <<>> \in P
  <2>1. a \o <<>> = a /\ Commands(a) \o <<>> = Commands(a)
    BY CommandsTypes, ConcatEmptySeq
  <2> QED
    BY <2>1, NoCommands, EmptySeq
<1>2. ASSUME NEW c \in P, NEW x \in Symbol
      PROVE  Append(c, x) \in P
  <2>1. Append(c, x) \in Seq(Symbol) /\ a \o c \in Seq(Symbol)
        /\ Commands(a) \in Seq(Command) /\ Commands(c) \in Seq(Command)
    BY AppendProperties, ConcatProperties, CommandsTypes
  <2>2. a \o Append(c, x) = Append(a \o c, x)
    <3>1. <<x>> \in Seq(Symbol) /\ Append(c, x) = c \o <<x>> /\ Append(a \o c, x) = (a \o c) \o <<x>>
      BY <2>1, AppendIsConcat
    <3> QED
      BY <3>1, ConcatAssociative
  <2>3. ASSUME x \in Command
        PROVE  Commands(a) \o Append(Commands(c), x) = Append(Commands(a) \o Commands(c), x)
    <3>1. <<x>> \in Seq(Command) /\ Append(Commands(c), x) = Commands(c) \o <<x>>
          /\ Append(Commands(a) \o Commands(c), x) = (Commands(a) \o Commands(c)) \o <<x>>
      BY <2>1, <2>3, AppendIsConcat, ConcatProperties
    <3> QED
      BY <2>1, <3>1, ConcatAssociative
  <2>4. Commands(Append(a \o c, x))
          = IF x \in Command THEN Append(Commands(a \o c), x) ELSE Commands(a \o c)
    BY <2>1, CommandsAppended
  <2>5. Commands(Append(c, x)) = IF x \in Command THEN Append(Commands(c), x) ELSE Commands(c)
    BY CommandsAppended
  <2> QED
    BY <2>1, <2>2, <2>3, <2>4, <2>5
<1>3. Seq(Symbol) \subseteq P
  <2>1. P \in SUBSET Seq(Symbol)
    OBVIOUS
  <2> HIDE DEF P
  <2> QED
    BY <1>1, <1>2, <2>1, SequenceInduction
<1> QED
  BY <1>3

\* The first word of a line is the first command in it; a line without one is blank.
LEMMA FirstWordIsFirst ==
  ASSUME NEW line \in Seq(Symbol)
  PROVE  /\ Commands(line) = <<>> <=> \A j \in DOMAIN line : line[j] \in EndOfLine
         /\ FirstWord(line) = IF Commands(line) = <<>> THEN {} ELSE {Head(Commands(line))}
<1> DEFINE Blank(l) == \A j \in DOMAIN l : l[j] \in EndOfLine
           P == {l \in Seq(Symbol) :
                   /\ Commands(l) = <<>> <=> Blank(l)
                   /\ FirstWord(l) = IF Commands(l) = <<>> THEN {} ELSE {Head(Commands(l))}}
<1>1. <<>> \in P
  BY NoCommands, EmptySeq DEF FirstWord
<1>2. ASSUME NEW l \in P, NEW x \in Symbol
      PROVE  Append(l, x) \in P
  <2> DEFINE longer == Append(l, x)
             n == Len(l)
  <2>1. /\ longer \in Seq(Symbol) /\ n \in Nat /\ DOMAIN l = 1 .. n /\ DOMAIN longer = 1 .. n + 1
        /\ \A k \in 1 .. n : longer[k] = l[k]
        /\ longer[n + 1] = x
    BY AppendProperties, LenProperties
  <2>2. /\ Commands(longer) = IF x \in Command THEN Append(Commands(l), x) ELSE Commands(l)
        /\ Commands(l) \in Seq(Command)
    BY CommandsAppended, CommandsTypes
  <2>3. /\ Commands(l) = <<>> <=> Blank(l)
        /\ FirstWord(l) = IF Commands(l) = <<>> THEN {} ELSE {Head(Commands(l))}
    OBVIOUS
  <2>4. x \in EndOfLine <=> x \notin Command
    BY DEF Symbol, EndOfLine, Command
  <2> HIDE DEF longer, P, n
  <2>5. Blank(longer) <=> Blank(l) /\ x \in EndOfLine
    <3>1. \A k \in 1 .. n + 1 : k \in 1 .. n \/ k = n + 1
      BY <2>1
    <3> QED
      BY <2>1, <3>1
  <2>6. FirstWord(longer) = FirstWord(l) \cup (IF Blank(l) /\ x \in Command THEN {x} ELSE {})
    <3> DEFINE first(l0) == {j \in DOMAIN l0 : /\ l0[j] \in Command
                                              /\ \A h \in 1 .. j - 1 : l0[h] \in EndOfLine}
    <3>1. \A k \in 1 .. n : k \in first(longer) <=> k \in first(l)
      BY <2>1
    <3>2. n + 1 \in first(longer) <=> Blank(l) /\ x \in Command
      BY <2>1
    <3>3. first(longer) = first(l) \cup (IF Blank(l) /\ x \in Command THEN {n + 1} ELSE {})
      <4>1. first(l) \subseteq 1 .. n /\ first(longer) \subseteq 1 .. n + 1
        BY <2>1
      <4>2. \A k \in 1 .. n + 1 : k \in 1 .. n \/ k = n + 1
        BY <2>1
      <4>3. \A k \in 1 .. n : k \in 1 .. n + 1 /\ k # n + 1
        BY <2>1
      <4> HIDE DEF first
      <4> QED
        BY <3>1, <3>2, <4>1, <4>2, <4>3
    <3>4. \A k \in first(l) : k \in 1 .. n /\ longer[k] = l[k]
      BY <2>1
    <3>5. FirstWord(longer) = {longer[k] : k \in first(longer)}
          /\ FirstWord(l) = {l[k] : k \in first(l)}
      BY DEF FirstWord
    <3> HIDE DEF first
    <3> QED
      BY <2>1, <3>3, <3>4, <3>5
  <2> SUFFICES longer \in P
    BY DEF longer
  <2> HIDE DEF Blank
  <2>7. CASE x \notin Command
    <3>1. Commands(longer) = Commands(l) /\ FirstWord(longer) = FirstWord(l)
      BY <2>2, <2>6, <2>7
    <3>2. Blank(longer) <=> Blank(l)
      BY <2>4, <2>5, <2>7
    <3> QED
      BY <2>1, <2>3, <3>1, <3>2 DEF P
  <2>8. CASE x \in Command
    <3>1. Commands(longer) = Append(Commands(l), x) /\ Commands(longer) # <<>>
          /\ Head(Commands(longer)) = IF Commands(l) = <<>> THEN x ELSE Head(Commands(l))
      BY <2>2, <2>8, AppendProperties, HeadTailAppend
    <3>2. FirstWord(longer) = {Head(Commands(longer))}
      <4>1. CASE Commands(l) = <<>>
        BY <2>3, <2>6, <2>8, <3>1, <4>1
      <4>2. CASE Commands(l) # <<>>
        BY <2>3, <2>6, <2>8, <3>1, <4>2
      <4> QED
        BY <4>1, <4>2
    <3>3. ~Blank(longer)
      BY <2>4, <2>5, <2>8
    <3> QED
      BY <2>1, <3>1, <3>2, <3>3 DEF P
  <2> QED
    BY <2>7, <2>8
<1>3. Seq(Symbol) \subseteq P
  <2>1. P \in SUBSET Seq(Symbol)
    OBVIOUS
  <2> HIDE DEF P
  <2> QED
    BY <1>1, <1>2, <2>1, SequenceInduction
<1> QED
  BY <1>3

\* A line no two of whose symbols are commands has at most one.
LEMMA OneCommandInALine ==
  ASSUME NEW line \in Seq(Symbol),
         \A j, k \in DOMAIN line : j < k => line[j] \notin Command \/ line[k] \notin Command
  PROVE  Len(Commands(line)) <= 1
<1> DEFINE Single(l) == \A j, k \in DOMAIN l : j < k => l[j] \notin Command \/ l[k] \notin Command
           P == {l \in Seq(Symbol) : Single(l) => Len(Commands(l)) <= 1}
<1>1. <<>> \in P
  BY NoCommands, EmptySeq
<1>2. ASSUME NEW l \in P, NEW x \in Symbol
      PROVE  Append(l, x) \in P
  <2> DEFINE longer == Append(l, x)
             n == Len(l)
  <2>1. /\ longer \in Seq(Symbol) /\ n \in Nat /\ DOMAIN l = 1 .. n /\ DOMAIN longer = 1 .. n + 1
        /\ \A k \in 1 .. n : longer[k] = l[k]
        /\ longer[n + 1] = x
    BY AppendProperties, LenProperties
  <2>2. /\ Commands(longer) = IF x \in Command THEN Append(Commands(l), x) ELSE Commands(l)
        /\ Commands(l) \in Seq(Command)
    BY CommandsAppended, CommandsTypes
  <2>3. Single(l) => Len(Commands(l)) <= 1
    OBVIOUS
  <2> HIDE DEF longer, P, n
  <2>4. SUFFICES ASSUME Single(longer)
                 PROVE  Len(Commands(longer)) <= 1
    BY <2>1 DEF P, longer
  <2>5. \A k \in 1 .. n : k \in 1 .. n + 1 /\ k < n + 1
    BY <2>1
  <2>6. Single(l)
    BY <2>1, <2>4, <2>5
  <2>7. CASE x \notin Command
    BY <2>2, <2>3, <2>6, <2>7
  <2>8. CASE x \in Command
    <3>1. n + 1 \in 1 .. n + 1
      BY <2>1
    <3>2. \A k \in 1 .. n : l[k] \notin Command
      BY <2>1, <2>4, <2>5, <2>8, <3>1
    <3>3. \A k \in 1 .. n : l[k] \in EndOfLine
      <4>1. \A k \in 1 .. n : l[k] \in Symbol
        BY <2>1
      <4> QED
        BY <3>2, <4>1 DEF Symbol
    <3>4. Commands(l) = <<>>
      BY <1>2, <2>1, <3>3, FirstWordIsFirst DEF P
    <3>5. Len(Commands(longer)) = 0 + 1
      BY <2>2, <2>8, <3>4, AppendProperties, EmptySeq
    <3> QED
      BY <3>5
  <2> QED
    BY <2>7, <2>8
<1>3. Seq(Symbol) \subseteq P
  <2>1. P \in SUBSET Seq(Symbol)
    OBVIOUS
  <2> HIDE DEF P
  <2> QED
    BY <1>1, <1>2, <2>1, SequenceInduction
<1> QED
  BY <1>3

-----------------------------------------------------------------------------
(* Careful clients *)

\* What follows a whole line of a careful client is as careful.
LEMMA CarefulAfterALine ==
  ASSUME NEW a \in Seq(Symbol), NEW b \in Seq(Symbol), Careful(a \o b),
         Len(a) > 0, a[Len(a)] = "LF"
  PROVE  Careful(b)
<1> DEFINE n == Len(a)
           all == a \o b
<1>1. /\ n \in Nat /\ n > 0 /\ Len(b) \in Nat /\ DOMAIN b = 1 .. Len(b)
      /\ all \in Seq(Symbol) /\ DOMAIN all = 1 .. n + Len(b)
      /\ \A k \in 1 .. n : all[k] = a[k]
      /\ \A k \in 1 .. Len(b) : all[n + k] = b[k]
  BY ConcatProperties, LenProperties
<1> HIDE DEF n, all
<1>2. \A k \in DOMAIN b : n + k \in DOMAIN all
  BY <1>1
<1>3. ~LongLine(b)
  <2> SUFFICES ASSUME NEW k \in DOMAIN b, k + (INBUF - 1 - RECV) - 1 \in DOMAIN b,
                      \A j \in k .. k + (INBUF - 1 - RECV) - 1 : b[j] # "LF"
               PROVE  LongLine(all)
    BY DEF Careful, LongLine, all
  <2>1. (n + k) + (INBUF - 1 - RECV) - 1 = n + (k + (INBUF - 1 - RECV) - 1)
    BY <1>1, RemoteAssumption
  <2>2. n + k \in DOMAIN all /\ (n + k) + (INBUF - 1 - RECV) - 1 \in DOMAIN all
    BY <1>2, <2>1
  <2>3. ASSUME NEW j \in n + k .. (n + k) + (INBUF - 1 - RECV) - 1
        PROVE  all[j] # "LF"
    <3>1. j - n \in k .. k + (INBUF - 1 - RECV) - 1 /\ n + (j - n) = j /\ j - n \in DOMAIN b
      BY <1>1, RemoteAssumption
    <3> QED
      BY <1>1, <3>1
  <2> QED
    BY <2>2, <2>3 DEF LongLine
<1>4. ~MixedEnds(b)
  <2> SUFFICES ASSUME NEW c \in DOMAIN b, b[c] = "CR", NEW k \in DOMAIN b, b[k] = "LF",
                      ~(k - 1 \in DOMAIN b /\ b[k - 1] = "CR")
               PROVE  MixedEnds(all)
    BY DEF Careful, MixedEnds, all
  <2>1. /\ n + c \in DOMAIN all /\ all[n + c] = "CR"
        /\ n + k \in DOMAIN all /\ all[n + k] = "LF"
    BY <1>1, <1>2
  <2>2. all[(n + k) - 1] # "CR"
    <3>1. CASE k = 1
      <4>1. (n + k) - 1 = n /\ n \in 1 .. n /\ a[n] = "LF"
        BY <1>1, <3>1 DEF n
      <4> QED
        BY <1>1, <4>1
    <3>2. CASE k # 1
      <4>1. k - 1 \in DOMAIN b /\ (n + k) - 1 = n + (k - 1)
        BY <1>1, <3>2
      <4> QED
        BY <1>1, <4>1
    <3> QED
      BY <3>1, <3>2
  <2> QED
    BY <2>1, <2>2 DEF MixedEnds
<1>5. ~Crowded(b)
  <2> SUFFICES ASSUME NEW j \in DOMAIN b, b[j] \in Command, NEW k \in DOMAIN b, b[k] \in Command,
                      j < k, \A h \in j .. k : b[h] # "LF"
               PROVE  Crowded(all)
    BY DEF Careful, Crowded, all
  <2>1. /\ n + j \in DOMAIN all /\ all[n + j] \in Command
        /\ n + k \in DOMAIN all /\ all[n + k] \in Command /\ n + j < n + k
    BY <1>1, <1>2
  <2>2. ASSUME NEW h \in n + j .. n + k
        PROVE  all[h] # "LF"
    <3>1. h - n \in j .. k /\ n + (h - n) = h /\ h - n \in DOMAIN b
      BY <1>1
    <3> QED
      BY <1>1, <3>1
  <2> QED
    BY <2>1, <2>2 DEF Crowded
<1> QED
  BY <1>3, <1>4, <1>5 DEF Careful

\* Who sent nothing was careful.
LEMMA NothingIsCareful == Careful(<<>>)
BY DEF Careful, LongLine, MixedEnds, Crowded

\* Before a buffer with no line end in it recv always leaves room.
LEMMA CarefulLeavesRoom ==
  ASSUME NEW inbuf \in Seq(Symbol), NEW more \in Seq(Symbol), Careful(inbuf \o more),
         LineEnds(inbuf) = {}
  PROVE  Len(inbuf) < INBUF - 1 - RECV
<1> DEFINE n == INBUF - 1 - RECV
           all == inbuf \o more
<1>1. /\ n \in Nat \ {0} /\ Len(inbuf) \in Nat /\ Len(more) \in Nat /\ DOMAIN inbuf = 1 .. Len(inbuf)
      /\ DOMAIN all = 1 .. Len(inbuf) + Len(more)
      /\ \A k \in 1 .. Len(inbuf) : all[k] = inbuf[k]
  BY RemoteAssumption, ConcatProperties, LenProperties
<1>2. \A k \in DOMAIN inbuf : inbuf[k] # "LF"
  BY DEF LineEnds, CRLFs, LFs
<1> HIDE DEF all
<1>3. SUFFICES ASSUME Len(inbuf) >= n
               PROVE  LongLine(all)
  BY <1>1 DEF Careful, all
<1>4. 1 \in DOMAIN all /\ 1 + n - 1 \in DOMAIN all
  BY <1>1, <1>3
<1>5. \A j \in 1 .. 1 + n - 1 : all[j] # "LF"
  BY <1>1, <1>2, <1>3
<1> QED
  BY <1>4, <1>5 DEF LongLine

\* A line cut: what is left follows a text that ends with LF and has the line's commands.
LEMMA CuttingALineOff ==
  ASSUME NEW inbuf \in Seq(Symbol), LineEnds(inbuf) # {}
  PROVE  /\ NextLine(inbuf) \in Seq(Symbol) /\ Len(NextLine(inbuf)) = Eol(inbuf) - 1
         /\ \A j \in 1 .. Eol(inbuf) - 1 : NextLine(inbuf)[j] = inbuf[j]
         /\ \E front \in Seq(Symbol) :
              /\ inbuf = front \o AfterLine(inbuf)
              /\ Len(front) > 0 /\ front[Len(front)] = "LF"
              /\ Commands(front) = Commands(NextLine(inbuf))
<1> DEFINE e == Eol(inbuf)
           line == NextLine(inbuf)
           n == Len(inbuf)
<1>1. n \in Nat /\ DOMAIN inbuf = 1 .. n /\ e \in 1 .. n /\ \A k \in 1 .. n : inbuf[k] \in Symbol
  BY EolInBuffer, LenProperties, ElementOfSeq
<1>2. e \in LineEnds(inbuf)
  <2>1. LineEnds(inbuf) \in SUBSET Nat
    BY DEF LineEnds, CRLFs, LFs
  <2>2. \E x \in LineEnds(inbuf) : \A y \in LineEnds(inbuf) : x <= y
    BY <2>1, FirstExists
  <2> QED
    BY <2>2 DEF Eol
<1>3. "CR" \in Symbol /\ "LF" \in Symbol /\ "CR" \notin Command /\ "LF" \notin Command
  BY DEF Symbol, EndOfLine, Command
<1>4. AfterLine(inbuf) = SubSeq(inbuf, e + (IF Ends(inbuf, e) THEN 2 ELSE 1), n)
  BY DEF AfterLine
<1>5. line = SubSeq(inbuf, 1, e - 1)
  BY DEF NextLine
<1> HIDE DEF e, n, line
<1>6. line \in Seq(Symbol) /\ Len(line) = e - 1 /\ \A j \in 1 .. e - 1 : line[j] = inbuf[j]
  <2>1. 1 \in Int /\ e - 1 \in Int /\ \A j \in 1 .. e - 1 : inbuf[j] \in Symbol
    BY <1>1
  <2> DEFINE sub == SubSeq(inbuf, 1, e - 1)
  <2>2. /\ sub \in Seq(Symbol) /\ Len(sub) = IF 1 <= e - 1 THEN (e - 1) - 1 + 1 ELSE 0
        /\ \A j \in 1 .. (e - 1) - 1 + 1 : sub[j] = inbuf[1 + j - 1]
    BY <2>1, SubSeqProperties
  <2> HIDE DEF sub
  <2>3. Len(sub) = e - 1 /\ (e - 1) - 1 + 1 = e - 1 /\ \A j \in 1 .. e - 1 : 1 + j - 1 = j
    BY <1>1, <2>2
  <2>4. \A j \in 1 .. e - 1 : sub[j] = inbuf[j]
    BY <2>2, <2>3
  <2>5. line = sub
    BY <1>5 DEF sub
  <2> QED
    BY <2>2, <2>3, <2>4, <2>5
<1>7. ASSUME NEW last \in 1 .. n, NEW a \in Seq(Symbol), inbuf[last] \in {"CR", "LF"},
             a = SubSeq(inbuf, 1, last - 1)
      PROVE  /\ SubSeq(inbuf, 1, last) \in Seq(Symbol)
             /\ Len(SubSeq(inbuf, 1, last)) = last
             /\ SubSeq(inbuf, 1, last)[last] = inbuf[last]
             /\ Commands(SubSeq(inbuf, 1, last)) = Commands(a)
  <2>1. SubSeq(inbuf, 1, last) = a \o <<inbuf[last]>>
    <3>1. 1 \in 1 .. Len(inbuf) /\ last \in 1 .. Len(inbuf)
      BY <1>1 DEF n
    <3> QED
      BY <1>7, <3>1, SubSeqRecursiveSecond
  <2>2. a \o <<inbuf[last]>> = Append(a, inbuf[last])
    BY <1>3, <1>7, AppendIsConcat
  <2>3. Commands(Append(a, inbuf[last])) = Commands(a) /\ Append(a, inbuf[last]) \in Seq(Symbol)
    BY <1>3, <1>7, CommandsAppended, AppendProperties
  <2>4. /\ Len(SubSeq(inbuf, 1, last)) = last
        /\ SubSeq(inbuf, 1, last)[last] = inbuf[last]
    <3>1. last \in Int /\ \A j \in 1 .. last : inbuf[j] \in Symbol
      BY <1>1
    <3>2. /\ Len(SubSeq(inbuf, 1, last)) = IF 1 <= last THEN last - 1 + 1 ELSE 0
          /\ \A j \in 1 .. last - 1 + 1 : SubSeq(inbuf, 1, last)[j] = inbuf[1 + j - 1]
      BY <3>1, SubSeqProperties
    <3>3. last \in 1 .. last - 1 + 1 /\ 1 + last - 1 = last /\ 1 <= last /\ last - 1 + 1 = last
      BY <1>1
    <3> HIDE <2>1, <2>2
    <3> QED
      BY <3>2, <3>3
  <2> QED
    BY <2>1, <2>2, <2>3, <2>4
<1>8. ASSUME NEW last \in 1 .. n
      PROVE  SubSeq(inbuf, 1, last) \o SubSeq(inbuf, last + 1, n) = inbuf
  <2>1. 1 \in 1 .. Len(inbuf) + 1 /\ last \in 1 - 1 .. Len(inbuf) /\ n \in last .. Len(inbuf)
    BY <1>1 DEF n
  <2>2. SubSeq(inbuf, 1, n) = inbuf
    BY SubSeqFull DEF n
  <2> QED
    BY <2>1, <2>2, ConcatAdjacentSubSeq
<1>9. CASE Ends(inbuf, e)
  <2>1. inbuf[e] = "CR" /\ e + 1 \in 1 .. n /\ inbuf[e + 1] = "LF" /\ (e + 1) - 1 = e
        /\ (e + 1) + 1 = e + 2
    BY <1>1, <1>9 DEF Ends, n
  <2> DEFINE cr == SubSeq(inbuf, 1, e)
             front == SubSeq(inbuf, 1, e + 1)
  <2>2. cr \in Seq(Symbol) /\ Commands(cr) = Commands(line)
    BY <1>1, <1>5, <1>6, <1>7, <2>1
  <2>3. /\ front \in Seq(Symbol) /\ Len(front) = e + 1 /\ front[e + 1] = "LF"
        /\ Commands(front) = Commands(cr)
    BY <1>7, <2>1, <2>2
  <2>4. inbuf = front \o AfterLine(inbuf)
    BY <1>4, <1>8, <1>9, <2>1
  <2> HIDE DEF cr, front
  <2>5. Len(front) > 0
    BY <1>1, <2>3
  <2> QED
    BY <1>6, <2>2, <2>3, <2>4, <2>5 DEF e, line
<1>10. CASE ~Ends(inbuf, e)
  <2>1. inbuf[e] = "LF"
    BY <1>2, <1>10 DEF LineEnds, CRLFs, LFs
  <2> DEFINE front == SubSeq(inbuf, 1, e)
  <2>2. /\ front \in Seq(Symbol) /\ Len(front) = e /\ front[e] = "LF"
        /\ Commands(front) = Commands(line)
    BY <1>1, <1>5, <1>6, <1>7, <2>1
  <2>3. inbuf = front \o AfterLine(inbuf)
    BY <1>1, <1>4, <1>8, <1>10
  <2> HIDE DEF front
  <2>4. Len(front) > 0
    BY <1>1, <2>2
  <2> QED
    BY <1>6, <2>2, <2>3, <2>4 DEF e, line
<1> QED
  BY <1>9, <1>10

\* The line cut from a careful client's buffer is a line it sent: it has no LF in it,
\* and so at most one command.
LEMMA CarefulLineIsSingle ==
  ASSUME NEW inbuf \in Seq(Symbol), LineEnds(inbuf) # {},
         NEW more \in Seq(Symbol), Careful(inbuf \o more)
  PROVE  Len(Commands(NextLine(inbuf))) <= 1
<1> DEFINE e == Eol(inbuf)
           n == Len(inbuf)
           all == inbuf \o more
           line == NextLine(inbuf)
<1>1. /\ n \in Nat /\ DOMAIN inbuf = 1 .. n /\ e \in 1 .. n /\ Len(more) \in Nat
      /\ DOMAIN all = 1 .. n + Len(more)
      /\ \A k \in 1 .. n : k \in DOMAIN all /\ all[k] = inbuf[k]
  BY EolInBuffer, LenProperties, ConcatProperties
<1>2. /\ line \in Seq(Symbol) /\ Len(line) = e - 1 /\ DOMAIN line = 1 .. Len(line)
      /\ \A j \in 1 .. e - 1 : line[j] = inbuf[j]
  BY CuttingALineOff, LenProperties
<1>3. e \in LineEnds(inbuf) /\ \A k \in LineEnds(inbuf) : e <= k
  <2>1. LineEnds(inbuf) \in SUBSET Nat
    BY DEF LineEnds, CRLFs, LFs
  <2>2. \E x \in LineEnds(inbuf) : \A y \in LineEnds(inbuf) : x <= y
    BY <2>1, FirstExists
  <2> QED
    BY <2>2 DEF Eol
<1>4. ~MixedEnds(all) /\ ~Crowded(all)
  BY DEF Careful
<1> HIDE DEF e, all, line
<1>5. ASSUME NEW j \in 1 .. e - 1
      PROVE  inbuf[j] # "LF"
  <2> SUFFICES ASSUME inbuf[j] = "LF"
               PROVE  FALSE
    OBVIOUS
  <2>1. j \in 1 .. n /\ j < e /\ j \in DOMAIN all /\ all[j] = "LF"
    BY <1>1
  <2>2. CASE CRLFs(inbuf) = {}
    <3>1. j \in LineEnds(inbuf)
      BY <1>1, <2>1, <2>2 DEF LineEnds, LFs
    <3> QED
      BY <1>1, <1>3, <2>1, <3>1
  <2>3. CASE CRLFs(inbuf) # {}
    <3>1. e \in DOMAIN all /\ all[e] = "CR"
      BY <1>1, <1>3, <2>3 DEF LineEnds, CRLFs, Ends
    <3>2. j - 1 \in DOMAIN all /\ all[j - 1] = "CR"
      BY <1>4, <2>1, <3>1 DEF MixedEnds
    <3>3. j - 1 \in 1 .. n /\ (j - 1) + 1 = j /\ j - 1 < n
      BY <1>1, <2>1, <3>2
    <3>4. j - 1 \in CRLFs(inbuf)
      BY <1>1, <2>1, <3>2, <3>3 DEF CRLFs, Ends
    <3>5. j - 1 \in LineEnds(inbuf)
      BY <3>4 DEF LineEnds
    <3> QED
      BY <1>1, <1>3, <2>1, <3>5
  <2> QED
    BY <2>2, <2>3
<1>6. ASSUME NEW j \in DOMAIN line, NEW k \in DOMAIN line, j < k
      PROVE  line[j] \notin Command \/ line[k] \notin Command
  <2> SUFFICES ASSUME line[j] \in Command, line[k] \in Command
               PROVE  FALSE
    OBVIOUS
  <2>1. j \in 1 .. e - 1 /\ k \in 1 .. e - 1
    BY <1>2
  <2>2. /\ j \in DOMAIN all /\ all[j] \in Command /\ k \in DOMAIN all /\ all[k] \in Command
    BY <1>1, <1>2, <2>1
  <2>3. \A h \in j .. k : all[h] # "LF"
    BY <1>1, <1>5, <2>1
  <2> QED
    BY <1>4, <1>6, <2>2, <2>3 DEF Crowded
<1> QED
  BY <1>2, <1>6, OneCommandInALine DEF line

\* A prefix of two texts is the first, what follows it the second.
LEMMA JoinedParts ==
  ASSUME NEW S, NEW a \in Seq(S), NEW b \in Seq(S)
  PROVE  /\ SubSeq(a \o b, 1, Len(a)) = a
         /\ SubSeq(a \o b, Len(a) + 1, Len(a \o b)) = b
         /\ a # <<>> => a \o b # <<>> /\ Head(a \o b) = Head(a)
<1>1. /\ Len(a) \in Nat /\ Len(b) \in Nat /\ a \o b \in Seq(S) /\ Len(a \o b) = Len(a) + Len(b)
      /\ \A k \in 1 .. Len(a) + Len(b) :
           (a \o b)[k] = IF k <= Len(a) THEN a[k] ELSE b[k - Len(a)]
  BY LenProperties, ConcatProperties
<1> DEFINE ab == a \o b
<1>2. \A k \in 1 .. Len(a) + Len(b) : ab[k] \in S
  BY <1>1, ElementOfSeq
<1> HIDE DEF ab
<1>3. SubSeq(ab, 1, Len(a)) = a
  <2>1. /\ SubSeq(ab, 1, Len(a)) \in Seq(S)
        /\ Len(SubSeq(ab, 1, Len(a))) = IF 1 <= Len(a) THEN Len(a) - 1 + 1 ELSE 0
        /\ \A k \in 1 .. Len(a) - 1 + 1 : SubSeq(ab, 1, Len(a))[k] = ab[1 + k - 1]
    BY <1>1, <1>2, SubSeqProperties
  <2>2. Len(SubSeq(ab, 1, Len(a))) = Len(a)
    BY <1>1, <2>1
  <2>3. ASSUME NEW k \in 1 .. Len(a)
        PROVE  SubSeq(ab, 1, Len(a))[k] = a[k]
    <3>1. k \in 1 .. Len(a) - 1 + 1 /\ 1 + k - 1 = k /\ k \in 1 .. Len(a) + Len(b) /\ k <= Len(a)
      BY <1>1
    <3> QED
      BY <1>1, <2>1, <3>1 DEF ab
  <2> QED
    BY <2>1, <2>2, <2>3, SeqEqual
<1>4. SubSeq(ab, Len(a) + 1, Len(a) + Len(b)) = b
  <2> DEFINE m == Len(a) + 1
             n == Len(a) + Len(b)
             sub == SubSeq(ab, m, n)
  <2>1. /\ sub \in Seq(S) /\ Len(sub) = IF m <= n THEN n - m + 1 ELSE 0
        /\ \A k \in 1 .. n - m + 1 : sub[k] = ab[m + k - 1]
    BY <1>1, <1>2, SubSeqProperties
  <2> HIDE DEF sub
  <2>2. Len(sub) = Len(b)
    BY <1>1, <2>1
  <2>3. ASSUME NEW k \in 1 .. Len(b)
        PROVE  sub[k] = b[k]
    <3>1. k \in 1 .. n - m + 1 /\ m + k - 1 = Len(a) + k /\ Len(a) + k \in 1 .. Len(a) + Len(b)
          /\ ~(Len(a) + k <= Len(a)) /\ (Len(a) + k) - Len(a) = k
      BY <1>1
    <3>2. ab[Len(a) + k] = b[k]
      BY <1>1, <3>1 DEF ab
    <3> QED
      BY <2>1, <3>1, <3>2
  <2> QED
    BY <2>1, <2>2, <2>3, SeqEqual DEF sub
<1>5. ASSUME a # <<>>
      PROVE  ab # <<>> /\ Head(ab) = Head(a)
  <2>1. Len(a) > 0
    BY <1>5, EmptySeq
  <2>2. Len(ab) > 0 /\ 1 \in 1 .. Len(a) + Len(b) /\ 1 <= Len(a)
    BY <1>1, <2>1 DEF ab
  <2>3. Head(a) = a[1]
    OBVIOUS
  <2>4. ab # <<>> /\ Head(ab) = ab[1]
    BY <1>1, <2>2, EmptySeq DEF ab
  <2>5. ab[1] = a[1]
    BY <1>1, <2>2 DEF ab
  <2> QED
    BY <2>3, <2>4, <2>5
<1> QED
  BY <1>1, <1>3, <1>4, <1>5 DEF ab

-----------------------------------------------------------------------------
(* The session of one client *)

\* Only the client whose turn it is has a whole line in its buffer; and what a
\* careful client sent stays careful while it is received and cut.
TextInv ==
  /\ \A k \in DOMAIN clients : LineEnds(clients[k].inbuf) # {} => pc = "cut" /\ k = i
  /\ \A s \in Sockets : careless[s] \/ Careful(Uncut(s))

SessionsStep == \A s \in Sockets : [Session(s)!Next]_(Session(s)!vars)

\* A step of the server moves no session as a client does.
SessionsServed == \A s \in Sockets : [Session(s)!Server]_(Session(s)!vars)

\* The entry of a client is the one with its socket.
EntriesFound ==
  /\ \A k \in DOMAIN clients :
       clients[k].sock \in InTable /\ Entry(clients[k].sock) = clients[k]
  /\ \A s \in InTable : s \in Sockets /\ Entry(s) \in ClientInfo

\* Sockets tell the entries of the table apart.
LEMMA EntryFound == RemoteInv => EntriesFound
<1> SUFFICES ASSUME RemoteInv
             PROVE  EntriesFound
  OBVIOUS
<1>1. ASSUME NEW k \in DOMAIN clients
      PROVE  clients[k].sock \in InTable /\ Entry(clients[k].sock) = clients[k]
  <2>1. (CHOOSE j \in DOMAIN clients : clients[j].sock = clients[k].sock) = k
    BY DEF RemoteInv, TableMatchesSockets
  <2> QED
    BY <2>1 DEF Entry, InTable
<1>2. \A k \in DOMAIN clients : clients[k] \in ClientInfo /\ clients[k].sock \in Sockets
  BY EntryTypes DEF RemoteInv, TypeOK
<1> QED
  BY <1>1, <1>2 DEF EntriesFound, InTable

\* A client nothing happens to, whatever happens to others.
LEMMA SessionStays ==
  ASSUME NEW s \in Sockets, peer'[s] = peer[s], wire'[s] = wire[s], mail'[s] = mail[s],
         careless'[s] = careless[s], (s \in InTable)' <=> s \in InTable,
         s \in InTable => Entry(s)' = Entry(s)
  PROVE  UNCHANGED Session(s)!vars /\ Uncut(s)' = Uncut(s)
<1>1. (s \in InTable)' = (s \in InTable)
  OBVIOUS
<1>2. Uncut(s)' = Uncut(s) /\ RoleOf(s)' = RoleOf(s) /\ IsWatching(s)' = IsWatching(s)
  BY <1>1 DEF Uncut, RoleOf, IsWatching
<1> QED
  BY <1>1, <1>2 DEF Session!vars

-----------------------------------------------------------------------------
(* What a client does is what its session allows *)

\* What a client sends comes after what it sent before.
LEMMA PutIsSend ==
  ASSUME RemoteInv, TextInv, NEW s \in Sockets, NEW text \in Seq(Symbol), Put(s, text)
  PROVE  Session(s)!Send /\ (careless'[s] \/ Careful(Uncut(s)'))
<1>1. /\ wire \in [Sockets -> Seq(Symbol)] /\ careless \in [Sockets -> BOOLEAN]
      /\ wire[s] \in Seq(Symbol)
  BY DEF RemoteInv, TypeOK
<1>2. /\ peer[s] = "on" /\ UNCHANGED <<clients, peer, mail>>
      /\ wire' = [wire EXCEPT ![s] = wire[s] \o text]
      /\ careless' = [careless EXCEPT ![s] = careless[s] \/ ~Careful(Uncut(s) \o text)]
  BY DEF Put
<1>3. /\ (s \in InTable)' = (s \in InTable) /\ Entry(s)' = Entry(s)
      /\ RoleOf(s)' = RoleOf(s) /\ IsWatching(s)' = IsWatching(s)
  BY <1>2 DEF InTable, Entry, RoleOf, IsWatching
<1>4. Uncut(s)' = Uncut(s) \o text /\ Uncut(s) \in Seq(Symbol)
  <2>1. wire'[s] = wire[s] \o text
    BY <1>1, <1>2
  <2>2. CASE s \in InTable
    <3>1. Entry(s).inbuf \in Seq(Symbol)
      BY <2>2, EntryFound DEF EntriesFound, ClientInfo
    <3>2. Uncut(s)' = Entry(s).inbuf \o (wire[s] \o text) /\ Uncut(s) = Entry(s).inbuf \o wire[s]
      BY <1>3, <2>1, <2>2 DEF Uncut
    <3>3. /\ (Entry(s).inbuf \o wire[s]) \o text = Entry(s).inbuf \o (wire[s] \o text)
          /\ Entry(s).inbuf \o wire[s] \in Seq(Symbol)
      <4> DEFINE a == Entry(s).inbuf
                 b == wire[s]
      <4>1. a \in Seq(Symbol) /\ b \in Seq(Symbol)
        BY <1>1, <3>1
      <4> HIDE DEF a, b
      <4>2. (a \o b) \o text = a \o (b \o text) /\ a \o b \in Seq(Symbol)
        BY <4>1, ConcatAssociative, ConcatProperties
      <4> QED
        BY <4>2 DEF a, b
    <3> QED
      BY <3>2, <3>3
  <2>3. CASE s \notin InTable
    BY <1>1, <1>3, <2>1, <2>3 DEF Uncut
  <2> QED
    BY <2>2, <2>3
<1>5. careless'[s] = (careless[s] \/ ~Careful(Uncut(s) \o text))
  BY <1>1, <1>2
<1>6. Session(s)!Extends(Commands(Uncut(s)'), Commands(Uncut(s)))
  <2>1. Commands(Uncut(s)) \in Seq(Command) /\ Commands(text) \in Seq(Command)
    BY <1>4, CommandsTypes
  <2>2. Commands(Uncut(s)') = Commands(Uncut(s)) \o Commands(text)
    BY <1>4, CommandsJoin
  <2> DEFINE a == Commands(Uncut(s))
             b == Commands(text)
  <2> HIDE DEF a, b
  <2>3. a \in Seq(Command) /\ b \in Seq(Command)
    BY <2>1 DEF a, b
  <2>4. Len(a \o b) >= Len(a) /\ SubSeq(a \o b, 1, Len(a)) = a
    BY <2>3, ConcatProperties, LenProperties, JoinedParts
  <2> QED
    BY <2>2, <2>4 DEF Session!Extends, a, b
<1>7. Session(s)!Send
  BY <1>2, <1>3, <1>5, <1>6 DEF Session!Send
<1> QED
  BY <1>4, <1>5, <1>7

\* A client moves its own session and no other.
LEMMA ClientSteps ==
  ASSUME RemoteInv, TextInv, NEW s \in Sockets, Client(s)
  PROVE  SessionsStep /\ TextInv'
<1>1. UNCHANGED <<clients, loop>> /\ InTable' = InTable /\ \A r : Entry(r)' = Entry(r)
  <2>1. UNCHANGED <<clients, loop>>
    BY DEF Client, Connect, Choose, SendText, Put, Receive, Leave
  <2> QED
    BY <2>1 DEF InTable, Entry
<1>2. /\ peer \in [Sockets -> {"off", "on", "gone", "refused"}]
      /\ wire \in [Sockets -> Seq(Symbol)] /\ mail \in [Sockets -> Seq(Answer)]
      /\ careless \in [Sockets -> BOOLEAN] /\ server \in Setups
  BY DEF RemoteInv, TypeOK
<1>3. ASSUME NEW r \in Sockets, r # s
      PROVE  peer'[r] = peer[r] /\ wire'[r] = wire[r] /\ mail'[r] = mail[r] /\ careless'[r] = careless[r]
  BY <1>2, <1>3 DEF Client, Connect, Choose, SendText, Put, Receive, Leave
<1>4. ASSUME UNCHANGED <<wire, careless>>
      PROVE  UNCHANGED <<Uncut(s), RoleOf(s), IsWatching(s), careless[s]>>
  BY <1>1, <1>4 DEF Uncut, RoleOf, IsWatching
<1>5. Session(s)!Next /\ (careless'[s] \/ Careful(Uncut(s)'))
  <2>1. CASE Connect(s)
    <3>1. peer[s] = "off" /\ peer'[s] = "on" /\ UNCHANGED <<wire, mail, careless>>
      BY <1>2, <2>1 DEF Connect
    <3>2. Session(s)!Connect
      BY <1>1, <1>4, <3>1 DEF Session!Connect
    <3> QED
      BY <1>4, <3>1, <3>2 DEF Session!Next, TextInv
  <2>2. CASE Choose(s)
    <3>1. PICK cmd \in {"STATUS", "CALL", "CALL bad", "other"} : Put(s, <<cmd, "CR", "LF">>)
      BY <2>2 DEF Choose
    <3>2. cmd \in Symbol /\ "CR" \in Symbol /\ "LF" \in Symbol
      BY DEF Symbol, Command, EndOfLine
    <3>3. <<cmd, "CR", "LF">> \in Seq(Symbol)
      BY <3>2, ThreeAreASeq
    <3> QED
      BY <3>1, <3>3, PutIsSend DEF Session!Next
  <2>3. CASE SendText(s)
    <3>1. PICK text \in server.texts[s] : Put(s, text)
      BY <2>3 DEF SendText
    <3>2. text \in Seq(Symbol)
      BY <1>2, <3>1, RemoteAssumption
    <3> QED
      BY <3>1, <3>2, PutIsSend DEF Session!Next
  <2>4. CASE Receive(s)
    <3>1. /\ mail[s] # <<>> /\ UNCHANGED <<peer, wire, careless>>
          /\ \E n \in 1 .. Len(mail[s]) : mail'[s] = SubSeq(mail[s], n + 1, Len(mail[s]))
      BY <1>2, <2>4 DEF Receive
    <3>2. Session(s)!Read
      BY <1>1, <1>4, <3>1 DEF Session!Read
    <3> QED
      BY <1>4, <3>1, <3>2 DEF Session!Next, TextInv
  <2>5. CASE Leave(s)
    <3>1. /\ \/ peer[s] = "on" /\ peer'[s] = "gone"
             \/ peer[s] = "refused" /\ peer'[s] = "off"
          /\ mail'[s] = <<>> /\ UNCHANGED <<wire, careless>>
      BY <1>2, <2>5 DEF Leave
    <3>2. Session(s)!Leave
      BY <1>1, <1>4, <3>1 DEF Session!Leave
    <3> QED
      BY <1>4, <3>1, <3>2 DEF Session!Next, TextInv
  <2> QED
    BY <2>1, <2>2, <2>3, <2>4, <2>5 DEF Client
<1>6. ASSUME NEW r \in Sockets, r # s
      PROVE  UNCHANGED Session(r)!vars /\ (careless'[r] \/ Careful(Uncut(r)'))
  <2>1. UNCHANGED Session(r)!vars /\ Uncut(r)' = Uncut(r)
    BY <1>1, <1>3, <1>6, SessionStays
  <2> QED
    BY <1>3, <1>6, <2>1 DEF TextInv
<1>7. SessionsStep
  BY <1>5, <1>6 DEF SessionsStep
<1>8. TextInv'
  BY <1>1, <1>5, <1>6 DEF TextInv, loop
<1> QED
  BY <1>7, <1>8

\* Nothing happens to any client but s, wherever in the table the others are.
OnlyMoves(s) ==
  /\ \A r \in Sockets \ {s} :
       peer'[r] = peer[r] /\ wire'[r] = wire[r] /\ mail'[r] = mail[r] /\ careless'[r] = careless[r]
  /\ \A k \in DOMAIN clients :
       clients[k].sock # s => \E j \in DOMAIN clients' : clients'[j] = clients[k]
  /\ \A j \in DOMAIN clients' :
       clients'[j].sock # s => \E k \in DOMAIN clients : clients[k] = clients'[j]

\* One session moves as it may, the others stay as they are.
LEMMA OneSessionMoves ==
  ASSUME RemoteInv, RemoteInv', TextInv, NEW s \in Sockets, OnlyMoves(s),
         [Session(s)!Server]_(Session(s)!vars), careless'[s] \/ Careful(Uncut(s)'),
         \A k \in DOMAIN clients' : LineEnds(clients'[k].inbuf) # {} => pc' = "cut" /\ k = i'
  PROVE  SessionsServed /\ TextInv'
<1>1. EntriesFound /\ EntriesFound'
  BY EntryFound, PTL
<1>2. ASSUME NEW r \in Sockets, r # s
      PROVE  UNCHANGED Session(r)!vars /\ (careless'[r] \/ Careful(Uncut(r)'))
  <2>1. ASSUME r \in InTable
        PROVE  (r \in InTable)' /\ Entry(r)' = Entry(r)
    <3>1. PICK k \in DOMAIN clients : clients[k].sock = r
      BY <2>1 DEF InTable
    <3>2. PICK j \in DOMAIN clients' : clients'[j] = clients[k]
      BY <1>2, <3>1 DEF OnlyMoves
    <3>3. (r \in InTable)' /\ Entry(r)' = clients'[j] /\ Entry(r) = clients[k]
      BY <1>1, <3>1, <3>2 DEF EntriesFound
    <3> QED
      BY <3>2, <3>3
  <2>2. ASSUME (r \in InTable)'
        PROVE  r \in InTable
    <3>1. PICK j \in DOMAIN clients' : clients'[j].sock = r
      BY <2>2 DEF InTable
    <3>2. PICK k \in DOMAIN clients : clients[k] = clients'[j]
      BY <1>2, <3>1 DEF OnlyMoves
    <3> QED
      BY <3>1, <3>2 DEF InTable
  <2>3. peer'[r] = peer[r] /\ wire'[r] = wire[r] /\ mail'[r] = mail[r] /\ careless'[r] = careless[r]
    BY <1>2 DEF OnlyMoves
  <2>4. UNCHANGED Session(r)!vars /\ Uncut(r)' = Uncut(r)
    BY <2>1, <2>2, <2>3, SessionStays
  <2> QED
    BY <2>3, <2>4 DEF TextInv
<1>3. SessionsServed
  BY <1>2 DEF SessionsServed
<1>4. TextInv'
  BY <1>2 DEF TextInv
<1> QED
  BY <1>3, <1>4

\* What is told reaches its client and nobody else.
LEMMA TellIsSays ==
  ASSUME mail \in [Sockets -> Seq(Answer)], NEW s \in Sockets, NEW lines, Tell(s, lines)
  PROVE  Session(s)!Says(lines) /\ \A r \in Sockets \ {s} : mail'[r] = mail[r]
BY DEF Tell, Session!Says

\* Nothing happens to anybody.
LEMMA NobodyMoves ==
  ASSUME RemoteInv, RemoteInv', TextInv, UNCHANGED <<clients, peer, wire, mail, careless>>,
         pc # "cut" \/ UNCHANGED <<pc, i>>
  PROVE  SessionsServed /\ TextInv'
<1>1. ASSUME NEW r \in Sockets
      PROVE  UNCHANGED Session(r)!vars /\ (careless'[r] \/ Careful(Uncut(r)'))
  <2>1. (r \in InTable)' = (r \in InTable) /\ Entry(r)' = Entry(r)
    BY DEF InTable, Entry
  <2>2. UNCHANGED Session(r)!vars /\ Uncut(r)' = Uncut(r)
    BY <2>1, SessionStays
  <2> QED
    BY <2>2 DEF TextInv
<1>2. SessionsServed
  BY <1>1 DEF SessionsServed
<1>3. TextInv'
  BY <1>1 DEF TextInv
<1> QED
  BY <1>2, <1>3

-----------------------------------------------------------------------------
(* What select and accept do to the sessions *)

\* A new entry at the end of the table starts a session with the two lines of welcome.
LEMMA WelcomeIsGreet ==
  ASSUME RemoteInv, RemoteInv', TextInv, NEW s \in Knocking, Select, Welcome(s)
  PROVE  SessionsServed /\ TextInv'
<1> DEFINE new == [sock |-> s, type |-> "UNKNOWN", watching |-> FALSE, inbuf |-> <<>>]
           n == Len(clients)
<1>1. /\ clients \in Seq(ClientInfo) /\ n \in Nat /\ mail \in [Sockets -> Seq(Answer)]
      /\ wire[s] \in Seq(Symbol) /\ EntriesFound /\ EntriesFound'
      /\ s \in Sockets /\ s \notin InTable /\ peer[s] \in {"on", "gone"} /\ pc = "select"
  <2>1. EntriesFound /\ EntriesFound'
    BY EntryFound, PTL
  <2> QED
    BY <2>1 DEF RemoteInv, TypeOK, TableMatchesSockets, Knocking, Select
<1>2. new \in ClientInfo
  BY <1>1 DEF ClientInfo, Role
<1>3. /\ UNCHANGED <<peer, wire, careless>> /\ clients' = Append(clients, new)
      /\ Tell(s, <<"WELCOME", "Please declare role">>)
  BY DEF Welcome
<1>4. new.sock = s /\ new.type = "UNKNOWN" /\ new.watching = FALSE /\ new.inbuf = <<>>
  OBVIOUS
<1> HIDE DEF new
<1>5. /\ DOMAIN clients = 1 .. n /\ DOMAIN clients' = 1 .. n + 1
      /\ \A k \in 1 .. n : clients'[k] = clients[k]
      /\ clients'[n + 1] = new
  <2>1. /\ clients' \in Seq(ClientInfo) /\ Len(clients') = n + 1
        /\ \A k \in 1 .. n : clients'[k] = clients[k]
        /\ clients'[n + 1] = new
    <3>1. clients \in Seq(ClientInfo) /\ clients' = Append(clients, new)
      BY <1>1, <1>3
    <3> QED
      BY <1>2, <3>1, AppendProperties
  <2>2. DOMAIN clients = 1 .. Len(clients) /\ DOMAIN clients' = 1 .. Len(clients')
    BY <1>1, <2>1, LenProperties
  <2> QED
    BY <2>1, <2>2
<1>6. (s \in InTable)' /\ Entry(s)' = new
  BY <1>1, <1>4, <1>5 DEF EntriesFound
<1>7. Uncut(s)' = Uncut(s)
  <2>1. <<>> \o wire[s] = wire[s]
    BY <1>1, ConcatEmptySeq
  <2>2. Uncut(s)' = <<>> \o wire[s]
    BY <1>3, <1>4, <1>6 DEF Uncut
  <2>3. Uncut(s) = wire[s]
    BY <1>1 DEF Uncut
  <2> QED
    BY <2>1, <2>2, <2>3
<1>8. RoleOf(s)' = RoleOf(s) /\ IsWatching(s)' = IsWatching(s)
  BY <1>1, <1>4, <1>6 DEF RoleOf, IsWatching
<1>9. /\ Session(s)!Says(<<"WELCOME", "Please declare role">>)
      /\ \A r \in Sockets \ {s} : mail'[r] = mail[r]
  BY <1>1, <1>3, TellIsSays
<1>10. Session(s)!Server
  BY <1>1, <1>3, <1>6, <1>7, <1>8, <1>9 DEF Session!Greet, Session!Server
<1>11. OnlyMoves(s)
  <2>1. \A r \in Sockets \ {s} :
          peer'[r] = peer[r] /\ wire'[r] = wire[r] /\ mail'[r] = mail[r] /\ careless'[r] = careless[r]
    BY <1>3, <1>9
  <2>2. \A k \in DOMAIN clients : \E j \in DOMAIN clients' : clients'[j] = clients[k]
    BY <1>1, <1>5
  <2>3. \A j \in DOMAIN clients' :
          clients'[j].sock # s => \E k \in DOMAIN clients : clients[k] = clients'[j]
    <3>1. ASSUME NEW j \in DOMAIN clients', clients'[j].sock # s
          PROVE  j \in DOMAIN clients /\ clients[j] = clients'[j]
      <4>1. j # n + 1
        BY <1>4, <1>5, <3>1
      <4> QED
        BY <1>1, <1>5, <4>1
    <3> QED
      BY <3>1
  <2> QED
    BY <2>1, <2>2, <2>3 DEF OnlyMoves
<1>12. careless'[s] \/ Careful(Uncut(s)')
  BY <1>1, <1>3, <1>7 DEF TextInv
<1>13. \A k \in DOMAIN clients' : LineEnds(clients'[k].inbuf) = {}
  <2>1. LineEnds(<<>>) = {}
    BY DEF LineEnds, CRLFs, LFs
  <2>2. ASSUME NEW k \in DOMAIN clients', k # n + 1
        PROVE  LineEnds(clients'[k].inbuf) = {}
    <3>1. k \in DOMAIN clients /\ clients'[k] = clients[k]
      BY <1>1, <1>5, <2>2
    <3> QED
      BY <1>1, <3>1 DEF TextInv
  <2> QED
    BY <1>4, <1>5, <2>1, <2>2
<1> QED
  BY <1>1, <1>10, <1>11, <1>12, <1>13, OneSessionMoves

\* Select moves at most the session of the client that is accepted or turned away.
LEMMA SelectSteps ==
  ASSUME RemoteInv, RemoteInv', TextInv, Select
  PROVE  SessionsServed /\ TextInv'
<1>1. pc = "select" /\ Accept
  BY DEF Select
<1>2. CASE Knocking = {}
  BY <1>1, <1>2, NobodyMoves DEF Accept
<1>3. CASE Knocking # {}
  <2>1. PICK s \in Knocking : Welcome(s) \/ TurnAway(s)
    BY <1>1, <1>3 DEF Accept
  <2>2. CASE Welcome(s)
    BY <2>2, WelcomeIsGreet
  <2>3. CASE TurnAway(s)
    <3>1. /\ s \in Sockets /\ s \notin InTable /\ peer[s] \in {"on", "gone"}
          /\ peer \in [Sockets -> {"off", "on", "gone", "refused"}]
          /\ wire \in [Sockets -> Seq(Symbol)] /\ mail \in [Sockets -> Seq(Answer)]
          /\ careless \in [Sockets -> BOOLEAN]
      BY DEF Knocking, RemoteInv, TypeOK, TableMatchesSockets
    <3>2. /\ Tell(s, <<"SERVER_BUSY">>)
          /\ peer' = [peer EXCEPT ![s] = IF @ = "on" THEN "refused" ELSE "off"]
          /\ wire' = [wire EXCEPT ![s] = <<>>] /\ careless' = [careless EXCEPT ![s] = FALSE]
          /\ UNCHANGED clients
      BY <2>3 DEF TurnAway
    <3>3. InTable' = InTable
      BY <3>2 DEF InTable
    <3>4. Uncut(s)' = <<>> /\ RoleOf(s)' = RoleOf(s) /\ IsWatching(s)' = IsWatching(s)
      BY <3>1, <3>2, <3>3 DEF Uncut, RoleOf, IsWatching
    <3>5. /\ Session(s)!Says(<<"SERVER_BUSY">>)
          /\ \A r \in Sockets \ {s} : mail'[r] = mail[r]
      BY <3>1, <3>2, TellIsSays
    <3>6. Commands(Uncut(s)') = <<>> /\ Careful(Uncut(s)')
      BY <3>4, NoCommands, NothingIsCareful
    <3>7. Session(s)!Server
      BY <3>1, <3>2, <3>3, <3>4, <3>5, <3>6 DEF Session!TurnAway, Session!Server
    <3>8. OnlyMoves(s)
      BY <3>1, <3>2, <3>5 DEF OnlyMoves
    <3>9. \A k \in DOMAIN clients' : LineEnds(clients'[k].inbuf) = {}
      BY <1>1, <3>2 DEF TextInv
    <3> QED
      BY <3>1, <3>6, <3>7, <3>8, <3>9, OneSessionMoves
  <2> QED
    BY <2>1, <2>2, <2>3
<1> QED
  BY <1>2, <1>3

-----------------------------------------------------------------------------
(* What the sweep and the broadcast do to the sessions *)

\* Removing a client ends its session, and those that move up in the table keep theirs.
LEMMA RemoveIsEnd ==
  ASSUME RemoteInv, RemoteInv', TextInv, NEW k \in DOMAIN clients, Remove(k)
  PROVE  SessionsServed /\ TextInv'
<1> DEFINE n == Len(clients)
<1>0. PICK s \in Sockets : s = clients[k].sock
  BY EntryTypes DEF RemoteInv, TypeOK
<1>1. /\ clients \in Seq(ClientInfo) /\ n \in Nat /\ DOMAIN clients = 1 .. n
      /\ k \in 1 .. n
      /\ peer \in [Sockets -> {"off", "on", "gone", "refused"}]
      /\ wire \in [Sockets -> Seq(Symbol)] /\ careless \in [Sockets -> BOOLEAN]
  BY EntryTypes DEF RemoteInv, TypeOK
<1>2. EntriesFound /\ EntriesFound'
  BY EntryFound, PTL
<1>3. /\ pc = "sweep" /\ peer[s] = "gone" /\ peer' = [peer EXCEPT ![s] = "off"]
      /\ wire' = [wire EXCEPT ![s] = <<>>] /\ careless' = [careless EXCEPT ![s] = FALSE]
      /\ UNCHANGED mail
  BY <1>0 DEF Remove, Close
<1>4. /\ DOMAIN clients' = 1 .. n - 1
      /\ \A j \in 1 .. n - 1 : clients'[j] = IF j < k THEN clients[j] ELSE clients[j + 1]
  <2>1. /\ clients' \in Seq(ClientInfo) /\ Len(clients') = n - 1
        /\ \A j \in 1 .. n - 1 : clients'[j] = IF j < k THEN clients[j] ELSE clients[j + 1]
    BY <1>1, WithoutMovesUp DEF Remove
  <2> QED
    BY <2>1, LenProperties
<1>5. \A h, j \in DOMAIN clients : clients[h].sock = clients[j].sock => h = j
  BY DEF RemoteInv, TableMatchesSockets
<1>6. ASSUME NEW j \in DOMAIN clients'
      PROVE  \E h \in DOMAIN clients : h # k /\ clients[h] = clients'[j]
  <2>1. (IF j < k THEN j ELSE j + 1) \in DOMAIN clients \ {k}
    BY <1>1, <1>4
  <2> QED
    BY <1>4, <2>1
<1>7. ASSUME NEW h \in DOMAIN clients, h # k
      PROVE  \E j \in DOMAIN clients' : clients'[j] = clients[h]
  <2>1. CASE h < k
    <3>1. h \in 1 .. n - 1
      BY <1>1, <2>1
    <3> QED
      BY <1>4, <2>1, <3>1
  <2>2. CASE h > k
    <3>1. h - 1 \in 1 .. n - 1 /\ ~(h - 1 < k) /\ (h - 1) + 1 = h
      BY <1>1, <2>2
    <3> QED
      BY <1>4, <3>1
  <2> QED
    BY <1>1, <1>7, <2>1, <2>2
<1>8. (s \notin InTable)' /\ s \in InTable
  <2>1. \A j \in DOMAIN clients' : clients'[j].sock # s
    BY <1>0, <1>5, <1>6
  <2> QED
    BY <1>0, <2>1 DEF InTable
<1>9. OnlyMoves(s)
  <2>1. \A r \in Sockets \ {s} :
          peer'[r] = peer[r] /\ wire'[r] = wire[r] /\ mail'[r] = mail[r] /\ careless'[r] = careless[r]
    BY <1>1, <1>3
  <2>2. \A h \in DOMAIN clients :
          clients[h].sock # s => \E j \in DOMAIN clients' : clients'[j] = clients[h]
    BY <1>0, <1>7
  <2>3. \A j \in DOMAIN clients' : \E h \in DOMAIN clients : clients[h] = clients'[j]
    BY <1>6
  <2> QED
    BY <2>1, <2>2, <2>3 DEF OnlyMoves
<1>10. Uncut(s)' = <<>> /\ RoleOf(s)' = "UNKNOWN" /\ IsWatching(s)' = FALSE
  BY <1>1, <1>3, <1>8 DEF Uncut, RoleOf, IsWatching
<1>11. Commands(Uncut(s)') = <<>> /\ Careful(Uncut(s)')
  BY <1>10, NoCommands, NothingIsCareful
<1>12. Session(s)!Server
  BY <1>1, <1>3, <1>8, <1>10, <1>11 DEF Session!End, Session!Server
<1>13. \A j \in DOMAIN clients' : LineEnds(clients'[j].inbuf) = {}
  BY <1>3, <1>6 DEF TextInv
<1> QED
  BY <1>1, <1>9, <1>11, <1>12, <1>13, OneSessionMoves

\* What happens to one entry but its socket.
LEMMA EntryReplaced ==
  ASSUME RemoteInv, RemoteInv', TextInv, NEW s \in Sockets,
         NEW k \in DOMAIN clients, NEW c, clients[k].sock = s, c.sock = s,
         clients' = [clients EXCEPT ![k] = c], CutOn(k, c.inbuf),
         pc = "cut" => k = i,
         \A r \in Sockets \ {s} :
           /\ peer'[r] = peer[r] /\ wire'[r] = wire[r]
           /\ mail'[r] = mail[r] /\ careless'[r] = careless[r]
  PROVE  /\ OnlyMoves(s)
         /\ s \in InTable /\ (s \in InTable)'
         /\ Entry(s) = clients[k] /\ Entry(s)' = c
         /\ \A j \in DOMAIN clients' : LineEnds(clients'[j].inbuf) # {} => pc' = "cut" /\ j = i'
<1>1. /\ DOMAIN clients' = DOMAIN clients /\ clients'[k] = c
      /\ \A j \in DOMAIN clients : j # k => clients'[j] = clients[j]
  OBVIOUS
<1>2. EntriesFound /\ EntriesFound'
  BY EntryFound, PTL
<1>3. OnlyMoves(s)
  BY <1>1 DEF OnlyMoves
<1>4. \A j \in DOMAIN clients' : LineEnds(clients'[j].inbuf) # {} => pc' = "cut" /\ j = i'
  <2>1. ASSUME NEW j \in DOMAIN clients', j # k
        PROVE  LineEnds(clients'[j].inbuf) = {}
    BY <1>1, <2>1 DEF TextInv
  <2>2. LineEnds(clients'[k].inbuf) # {} => pc' = "cut" /\ k = i'
    BY <1>1 DEF CutOn
  <2> QED
    BY <2>1, <2>2
<1>5. /\ s \in InTable /\ (s \in InTable)'
      /\ Entry(s) = clients[k] /\ Entry(s)' = c
  <2>1. s \in InTable /\ Entry(s) = clients[k]
    BY <1>2 DEF EntriesFound
  <2>2. (s \in InTable)' /\ Entry(s)' = c
    BY <1>1, <1>2 DEF EntriesFound
  <2> QED
    BY <2>1, <2>2
<1> QED
  BY <1>3, <1>4, <1>5

\* The commands at the front of a client's text are gone.
LEMMA FrontConsumed ==
  ASSUME NEW s \in Sockets, NEW a \in Seq(Command), NEW b \in Seq(Command), a # <<>>,
         Commands(Uncut(s)) = a \o b, Commands(Uncut(s)') = b
  PROVE  /\ Session(s)!Consume(Len(a)) /\ Len(a) \in DOMAIN Commands(Uncut(s))
         /\ Commands(Uncut(s)) # <<>> /\ Head(Commands(Uncut(s))) = Head(a)
<1> DEFINE ab == a \o b
<1>1. /\ SubSeq(ab, Len(a) + 1, Len(ab)) = b /\ ab # <<>> /\ Head(ab) = Head(a)
  BY JoinedParts
<1>2. Len(a) \in 1 .. Len(ab) /\ DOMAIN ab = 1 .. Len(ab)
  <2>1. ab \in Seq(Command) /\ Len(ab) = Len(a) + Len(b) /\ Len(a) \in Nat /\ Len(b) \in Nat
    BY ConcatProperties, LenProperties
  <2>2. Len(a) # 0
    BY EmptySeq
  <2>3. DOMAIN ab = 1 .. Len(ab)
    BY <2>1, LenProperties
  <2> HIDE DEF ab
  <2> QED
    BY <2>1, <2>2, <2>3
<1>3. Commands(Uncut(s)) = ab
  OBVIOUS
<1> HIDE DEF ab
<1> QED
  BY <1>1, <1>2, <1>3 DEF Session!Consume

\* The broadcast reaches a guard that watches, and nobody else.
LEMMA BroadcastIsStatus ==
  ASSUME RemoteInv, RemoteInv', TextInv, NEW k \in DOMAIN clients, Broadcast(k)
  PROVE  SessionsServed /\ TextInv'
<1>1. EntriesFound /\ mail \in [Sockets -> Seq(Answer)]
  BY EntryFound DEF RemoteInv, TypeOK
<1>2. PICK s \in Sockets : s = clients[k].sock /\ s \in InTable /\ Entry(s) = clients[k]
  BY <1>1 DEF EntriesFound
<1>3. /\ pc = "broadcast" /\ clients[k].type = "GUARD" /\ clients[k].watching
      /\ Tell(s, <<"status">>) /\ UNCHANGED <<clients, peer, wire, careless>>
  BY <1>2 DEF Broadcast, FirstFrom, Watchers
<1>4. InTable' = InTable /\ Entry(s)' = Entry(s)
  BY <1>3 DEF InTable, Entry
<1>5. RoleOf(s) = "GUARD" /\ IsWatching(s)
  BY <1>2, <1>3 DEF RoleOf, IsWatching
<1>6. /\ Uncut(s)' = Uncut(s) /\ RoleOf(s)' = RoleOf(s) /\ IsWatching(s)' = IsWatching(s)
  BY <1>3, <1>4 DEF Uncut, RoleOf, IsWatching
<1>7. /\ Session(s)!Says(<<"status">>)
      /\ \A r \in Sockets \ {s} : mail'[r] = mail[r]
  BY <1>1, <1>2, <1>3, TellIsSays
<1>8. Session(s)!Server
  BY <1>2, <1>3, <1>4, <1>5, <1>6, <1>7 DEF Session!Status, Session!Server
<1>9. OnlyMoves(s)
  BY <1>3, <1>7 DEF OnlyMoves
<1>10. careless'[s] \/ Careful(Uncut(s)')
  BY <1>2, <1>3, <1>6 DEF TextInv
<1>11. \A j \in DOMAIN clients' : LineEnds(clients'[j].inbuf) = {}
  BY <1>3 DEF TextInv
<1> QED
  BY <1>2, <1>8, <1>9, <1>10, <1>11, OneSessionMoves

\* Whatever is put after a text, it is the same in one piece or two.
LEMMA TextsJoin ==
  \A x, y, z \in Seq(Symbol) : (x \o y) \o z = x \o (y \o z) /\ x \o y \in Seq(Symbol)
<1> SUFFICES ASSUME NEW x \in Seq(Symbol), NEW y \in Seq(Symbol), NEW z \in Seq(Symbol)
             PROVE  (x \o y) \o z = x \o (y \o z) /\ x \o y \in Seq(Symbol)
  OBVIOUS
<1>1. (x \o y) \o z = x \o (y \o z)
  BY ConcatAssociative
<1>2. x \o y \in Seq(Symbol)
  BY ConcatProperties
<1> QED
  BY <1>1, <1>2

\* What is received moves from the wire to the buffer; if it does not fit there, the
\* client was careless, and loses what the buffer held.
LEMMA RecvSteps ==
  ASSUME RemoteInv, RemoteInv', TextInv, NEW k \in DOMAIN clients, Recv(k)
  PROVE  SessionsServed /\ TextInv'
<1>1. PICK s \in Sockets : s = clients[k].sock
  BY EntryTypes DEF RemoteInv, TypeOK
<1>2. PICK inbuf \in Seq(Symbol) : inbuf = clients[k].inbuf
  BY EntryTypes DEF RemoteInv, TypeOK
<1>3. PICK w \in Seq(Symbol) : w = wire[s]
  BY DEF RemoteInv, TypeOK
<1>4. PICK m \in 1 .. Len(w) :
        /\ m <= RECV
        /\ clients' = [clients EXCEPT ![k].inbuf = Buffered(@, SubSeq(w, 1, m))]
        /\ wire' = [wire EXCEPT ![s] = SubSeq(@, m + 1, Len(@))]
  BY <1>1, <1>3 DEF Recv
<1>5. PICK chunk \in Seq(Symbol), rest \in Seq(Symbol) :
        /\ chunk = SubSeq(w, 1, m) /\ rest = SubSeq(w, m + 1, Len(w))
        /\ Len(chunk) = m /\ chunk \o rest = w
  <2>1. m \in Int /\ m + 1 \in Int /\ Len(w) \in Nat /\ 1 <= m /\ m <= Len(w)
        /\ (\A j \in 1 .. m : w[j] \in Symbol) /\ (\A j \in m + 1 .. Len(w) : w[j] \in Symbol)
    BY ElementOfSeq, LenProperties
  <2>2. SubSeq(w, 1, m) \in Seq(Symbol) /\ SubSeq(w, m + 1, Len(w)) \in Seq(Symbol)
    BY <2>1, SubSeqProperties
  <2>3. Len(SubSeq(w, 1, m)) = m
    <3>1. Len(SubSeq(w, 1, m)) = IF 1 <= m THEN m - 1 + 1 ELSE 0
      BY <2>1, SubSeqProperties
    <3> QED
      BY <2>1, <3>1
  <2>4. SubSeq(w, 1, m) \o SubSeq(w, m + 1, Len(w)) = w
    <3>1. 1 \in 1 .. Len(w) + 1 /\ m \in 1 - 1 .. Len(w) /\ Len(w) \in m .. Len(w)
      BY <2>1
    <3>2. SubSeq(w, 1, Len(w)) = w
      BY SubSeqFull
    <3> QED
      BY <3>1, <3>2, ConcatAdjacentSubSeq
  <2> QED
    BY <2>2, <2>3, <2>4
<1>6. PICK c : c = [clients[k] EXCEPT !.inbuf = Buffered(inbuf, chunk)]
  OBVIOUS
<1>7. /\ clients' = [clients EXCEPT ![k] = c] /\ wire' = [wire EXCEPT ![s] = rest]
      /\ clients[k] \in ClientInfo /\ wire \in [Sockets -> Seq(Symbol)]
  BY <1>2, <1>3, <1>4, <1>5, <1>6, EntryTypes DEF RemoteInv, TypeOK
<1>8. /\ c.sock = s /\ c.inbuf = Buffered(inbuf, chunk)
      /\ c.type = clients[k].type /\ c.watching = clients[k].watching
  BY <1>1, <1>6, <1>7 DEF ClientInfo
<1>9. /\ pc = "sweep" /\ CutOn(k, c.inbuf) /\ UNCHANGED <<peer, mail, careless>>
  <2>1. clients'[k] = c
    BY <1>7
  <2> QED
    BY <2>1 DEF Recv
<1>10. wire'[s] = rest /\ \A r \in Sockets \ {s} : wire'[r] = wire[r]
  BY <1>7
<1>11. /\ OnlyMoves(s) /\ s \in InTable /\ (s \in InTable)'
       /\ Entry(s) = clients[k] /\ Entry(s)' = c
       /\ \A j \in DOMAIN clients' : LineEnds(clients'[j].inbuf) # {} => pc' = "cut" /\ j = i'
  <2>1. /\ clients[k].sock = s /\ c.sock = s /\ clients' = [clients EXCEPT ![k] = c]
        /\ CutOn(k, c.inbuf) /\ (pc = "cut" => k = i)
        /\ \A r \in Sockets \ {s} :
             /\ peer'[r] = peer[r] /\ wire'[r] = wire[r]
             /\ mail'[r] = mail[r] /\ careless'[r] = careless[r]
    BY <1>1, <1>7, <1>8, <1>9, <1>10
  <2> QED
    BY <2>1, EntryReplaced
<1>12. RoleOf(s)' = RoleOf(s) /\ IsWatching(s)' = IsWatching(s)
  BY <1>8, <1>11 DEF RoleOf, IsWatching
<1>13. Uncut(s)' = Buffered(inbuf, chunk) \o rest /\ Uncut(s) = inbuf \o w
  BY <1>2, <1>3, <1>8, <1>10, <1>11 DEF Uncut
<1>14. inbuf \o w = (inbuf \o chunk) \o rest /\ inbuf \o chunk \in Seq(Symbol)
  <2>1. (inbuf \o chunk) \o rest = inbuf \o (chunk \o rest) /\ inbuf \o chunk \in Seq(Symbol)
    BY TextsJoin
  <2> QED
    BY <1>5, <2>1
<1>15. CASE Len(inbuf) + Len(chunk) < INBUF - 1
  <2>1. Uncut(s)' = Uncut(s)
    BY <1>13, <1>14, <1>15 DEF Buffered
  <2>2. UNCHANGED Session(s)!vars
    BY <1>9, <1>11, <1>12, <2>1 DEF Session!vars
  <2>3. careless'[s] \/ Careful(Uncut(s)')
    BY <1>9, <2>1 DEF TextInv
  <2> QED
    BY <1>11, <2>2, <2>3, OneSessionMoves
<1>16. CASE ~(Len(inbuf) + Len(chunk) < INBUF - 1)
  <2>1. Uncut(s)' = rest
    BY <1>13, <1>16, ConcatEmptySeq DEF Buffered
  <2>2. careless[s]
    <3>1. LineEnds(inbuf) = {}
      BY <1>2, <1>9 DEF TextInv
    <3>2. SUFFICES ASSUME Careful(inbuf \o w)
                   PROVE  FALSE
      BY <1>13 DEF TextInv
    <3>3. Len(inbuf) < INBUF - 1 - RECV
      BY <3>1, <3>2, CarefulLeavesRoom
    <3>4. Len(inbuf) \in Nat /\ RECV \in Nat /\ INBUF \in Nat
      BY RemoteAssumption, LenProperties
    <3> QED
      BY <1>4, <1>5, <1>16, <3>3, <3>4
  <2>3. PICK a \in Seq(Command) : a = Commands(inbuf \o chunk)
    BY <1>14, CommandsTypes
  <2>4. PICK b \in Seq(Command) : b = Commands(rest)
    BY CommandsTypes
  <2>5. Commands(Uncut(s)) = a \o b /\ Commands(Uncut(s)') = b
    BY <1>13, <1>14, <2>1, <2>3, <2>4, CommandsJoin
  <2>6. careless'[s]
    BY <1>9, <2>2
  <2>7. CASE a = <<>>
    <3>1. Commands(Uncut(s)') = Commands(Uncut(s))
      BY <2>5, <2>7, ConcatEmptySeq
    <3>2. UNCHANGED Session(s)!vars
      BY <1>9, <1>11, <1>12, <3>1 DEF Session!vars
    <3> QED
      BY <1>11, <2>6, <3>2, OneSessionMoves
  <2>8. CASE a # <<>>
    <3>1. Session(s)!Consume(Len(a)) /\ Len(a) \in DOMAIN Commands(Uncut(s))
      BY <2>5, <2>8, FrontConsumed
    <3>2. Session(s)!Server
      BY <1>9, <1>11, <1>12, <2>2, <3>1 DEF Session!Drop, Session!Server
    <3> QED
      BY <1>11, <2>6, <3>2, OneSessionMoves
  <2> QED
    BY <2>7, <2>8
<1> QED
  BY <1>15, <1>16

\* The command of a line is answered, and only a careless client's line holds others.
LEMMA HandleLineSteps ==
  ASSUME RemoteInv, RemoteInv', TextInv, HandleLine
  PROVE  SessionsServed /\ TextInv'
<1>1. PICK k \in DOMAIN clients : k = i /\ pc = "cut" /\ LineEnds(clients[k].inbuf) # {}
  BY DEF HandleLine, RemoteInv, CuttingALine
<1>2. PICK s \in Sockets : s = clients[k].sock
  BY EntryTypes DEF RemoteInv, TypeOK
<1>3. PICK inbuf \in Seq(Symbol) : inbuf = clients[k].inbuf /\ LineEnds(inbuf) # {}
  BY <1>1, EntryTypes DEF RemoteInv, TypeOK
<1>4. PICK w \in Seq(Symbol) : w = wire[s]
  BY DEF RemoteInv, TypeOK
<1>5. PICK line \in Seq(Symbol) : line = NextLine(inbuf)
  BY <1>3, CuttingALineOff
<1>6. PICK rest \in Seq(Symbol) : rest = AfterLine(inbuf)
  BY <1>3, RestIsShorter
<1>7. PICK front \in Seq(Symbol) :
        /\ inbuf = front \o rest /\ Len(front) > 0 /\ front[Len(front)] = "LF"
        /\ Commands(front) = Commands(line)
  BY <1>3, <1>5, <1>6, CuttingALineOff
<1>8. /\ CutOn(k, rest) /\ UNCHANGED <<peer, wire, careless>>
      /\ clients \in Seq(ClientInfo) /\ clients[k] \in ClientInfo
      /\ clients[k].type \in Role /\ clients[k].watching \in BOOLEAN
      /\ mail \in [Sockets -> Seq(Answer)]
      /\ \/ /\ FirstWord(line) = {}
            /\ clients' = [clients EXCEPT ![k].inbuf = rest]
            /\ UNCHANGED mail
         \/ \E cmd \in FirstWord(line) :
              /\ clients' = [clients EXCEPT ![k] =
                   [clients[k] EXCEPT !.inbuf = rest, !.type = RoleAfter(@, cmd),
                             !.watching = WatchingAfter(clients[k].type, @, cmd)]]
              /\ Reply(clients[k], cmd)
  BY <1>1, <1>3, <1>5, <1>6, EntryTypes DEF HandleLine, RemoteInv, TypeOK
<1>9. front \o (rest \o w) = inbuf \o w /\ rest \o w \in Seq(Symbol)
  <2>1. (front \o rest) \o w = front \o (rest \o w) /\ rest \o w \in Seq(Symbol)
    BY TextsJoin
  <2> QED
    BY <1>7, <2>1
<1>10. PICK a \in Seq(Command) : a = Commands(line)
  BY CommandsTypes
<1>11. PICK b \in Seq(Command) : b = Commands(rest \o w)
  BY <1>9, CommandsTypes
<1>12. Commands(inbuf \o w) = a \o b
  BY <1>7, <1>9, <1>10, <1>11, CommandsJoin
<1>13. FirstWord(line) = IF a = <<>> THEN {} ELSE {Head(a)}
  BY <1>10, FirstWordIsFirst
<1>14. ASSUME NEW c, c.sock = s, c.inbuf = rest, clients' = [clients EXCEPT ![k] = c],
              \A r \in Sockets \ {s} : mail'[r] = mail[r]
       PROVE  /\ OnlyMoves(s) /\ s \in InTable /\ (s \in InTable)'
              /\ Entry(s) = clients[k] /\ Entry(s)' = c
              /\ \A j \in DOMAIN clients' :
                   LineEnds(clients'[j].inbuf) # {} => pc' = "cut" /\ j = i'
              /\ Uncut(s) = inbuf \o w /\ Uncut(s)' = rest \o w
              /\ careless'[s] \/ Careful(Uncut(s)')
  <2>1. /\ OnlyMoves(s) /\ s \in InTable /\ (s \in InTable)'
        /\ Entry(s) = clients[k] /\ Entry(s)' = c
        /\ \A j \in DOMAIN clients' :
             LineEnds(clients'[j].inbuf) # {} => pc' = "cut" /\ j = i'
    BY <1>1, <1>2, <1>8, <1>14, EntryReplaced
  <2>2. Uncut(s) = inbuf \o w /\ Uncut(s)' = rest \o w
    BY <1>3, <1>4, <1>8, <1>14, <2>1 DEF Uncut
  <2>3. Careful(inbuf \o w) => Careful(rest \o w)
    BY <1>7, <1>9, CarefulAfterALine
  <2>4. careless'[s] \/ Careful(Uncut(s)')
    BY <1>8, <2>2, <2>3 DEF TextInv
  <2> QED
    BY <2>1, <2>2, <2>4
<1>15. ASSUME a # <<>>, Careful(inbuf \o w)
       PROVE  Len(a) = 1
  <2>1. Len(a) <= 1
    BY <1>3, <1>5, <1>10, <1>15, CarefulLineIsSingle
  <2>2. Len(a) \in Nat /\ Len(a) # 0
    BY <1>15, EmptySeq, LenProperties
  <2> DEFINE n == Len(a)
  <2>3. n \in Nat /\ n # 0 /\ n <= 1
    BY <2>1, <2>2
  <2> HIDE DEF n
  <2>4. n = 1
    BY <2>3
  <2> QED
    BY <2>4 DEF n
<1>16. CASE FirstWord(line) = {}
  <2>1. clients' = [clients EXCEPT ![k].inbuf = rest] /\ UNCHANGED mail
    BY <1>8, <1>16
  <2>2. PICK c : c = [clients[k] EXCEPT !.inbuf = rest]
    OBVIOUS
  <2>3. /\ c.sock = s /\ c.inbuf = rest /\ clients' = [clients EXCEPT ![k] = c]
        /\ c.type = clients[k].type /\ c.watching = clients[k].watching
    BY <1>2, <1>8, <2>1, <2>2 DEF ClientInfo
  <2>4. /\ OnlyMoves(s) /\ s \in InTable /\ (s \in InTable)'
        /\ Entry(s) = clients[k] /\ Entry(s)' = c
        /\ \A j \in DOMAIN clients' :
             LineEnds(clients'[j].inbuf) # {} => pc' = "cut" /\ j = i'
        /\ Uncut(s) = inbuf \o w /\ Uncut(s)' = rest \o w
        /\ careless'[s] \/ Careful(Uncut(s)')
    BY <1>14, <2>1, <2>3
  <2>5. Commands(Uncut(s)') = Commands(Uncut(s))
    BY <1>11, <1>12, <1>13, <1>16, <2>4, ConcatEmptySeq
  <2>6. RoleOf(s)' = RoleOf(s) /\ IsWatching(s)' = IsWatching(s)
    BY <2>3, <2>4 DEF RoleOf, IsWatching
  <2>7. UNCHANGED Session(s)!vars
    BY <1>8, <2>1, <2>4, <2>5, <2>6 DEF Session!vars
  <2> QED
    BY <2>4, <2>7, OneSessionMoves
<1>17. CASE FirstWord(line) # {}
  <2>1. PICK cmd \in FirstWord(line) :
          /\ clients' = [clients EXCEPT ![k] =
               [clients[k] EXCEPT !.inbuf = rest, !.type = RoleAfter(@, cmd),
                         !.watching = WatchingAfter(clients[k].type, @, cmd)]]
          /\ Reply(clients[k], cmd)
    BY <1>8, <1>17
  <2>2. a # <<>> /\ cmd = Head(a)
    BY <1>13, <2>1
  <2>3. PICK c : c = [clients[k] EXCEPT !.inbuf = rest, !.type = RoleAfter(@, cmd),
                         !.watching = WatchingAfter(clients[k].type, @, cmd)]
    OBVIOUS
  <2>4. /\ c.sock = s /\ c.inbuf = rest /\ clients' = [clients EXCEPT ![k] = c]
        /\ c.type = RoleAfter(clients[k].type, cmd)
        /\ c.watching = WatchingAfter(clients[k].type, clients[k].watching, cmd)
    BY <1>2, <1>8, <2>1, <2>3 DEF ClientInfo
  <2>5. PICK answer \in Answers(clients[k].type, cmd) : Tell(s, <<answer>>)
    BY <1>2, <2>1 DEF Reply
  <2>6. Session(s)!Says(<<answer>>) /\ \A r \in Sockets \ {s} : mail'[r] = mail[r]
    BY <1>8, <2>5, TellIsSays
  <2>7. /\ OnlyMoves(s) /\ s \in InTable /\ (s \in InTable)'
        /\ Entry(s) = clients[k] /\ Entry(s)' = c
        /\ \A j \in DOMAIN clients' :
             LineEnds(clients'[j].inbuf) # {} => pc' = "cut" /\ j = i'
        /\ Uncut(s) = inbuf \o w /\ Uncut(s)' = rest \o w
        /\ careless'[s] \/ Careful(Uncut(s)')
    BY <1>14, <2>4, <2>6
  <2>8. /\ Session(s)!Consume(Len(a)) /\ Len(a) \in DOMAIN Commands(Uncut(s))
        /\ Commands(Uncut(s)) # <<>> /\ Head(Commands(Uncut(s))) = cmd
    BY <1>11, <1>12, <2>2, <2>7, FrontConsumed
  <2>9. Len(a) = 1 \/ careless[s]
    <3>1. careless[s] \/ Careful(inbuf \o w)
      BY <2>7 DEF TextInv
    <3> QED
      BY <1>15, <2>2, <3>1
  <2>10. RoleOf(s) = clients[k].type /\ IsWatching(s) = clients[k].watching
    BY <1>8, <2>7 DEF RoleOf, IsWatching
  <2>11. /\ RoleOf(s)' = RoleAfter(RoleOf(s), cmd)
         /\ IsWatching(s)' = WatchingAfter(RoleOf(s), IsWatching(s), cmd)
    <3>1. c.watching \in BOOLEAN
      BY <1>8, <2>4 DEF WatchingAfter
    <3> QED
      BY <2>4, <2>7, <2>10, <3>1 DEF RoleOf, IsWatching
  <2>12. answer \in Session(s)!Answers(RoleOf(s), cmd)
    BY <2>5, <2>10
      DEF Session!Answers, Session!GuardAnswers, Session!ButtonAnswers, Session!CallAnswers,
          Session!RoleAfter, Answers, GuardAnswers, ButtonAnswers, CallAnswers, RoleAfter
  <2>13. /\ RoleOf(s)' = Session(s)!RoleAfter(RoleOf(s), cmd)
         /\ IsWatching(s)' = Session(s)!WatchingAfter(RoleOf(s), IsWatching(s), cmd)
    BY <2>11 DEF RoleAfter, WatchingAfter, Session!RoleAfter, Session!WatchingAfter
  <2>14. Session(s)!Handle
    BY <1>8, <2>6, <2>7, <2>8, <2>9, <2>12, <2>13 DEF Session!Handle
  <2> QED
    BY <2>7, <2>14, OneSessionMoves DEF Session!Server
<1> QED
  BY <1>16, <1>17

-----------------------------------------------------------------------------
(* The sessions *)

\* At first there is no session.
LEMMA SessionsBegin == Init => TextInv /\ \A s \in Sockets : Session(s)!Init
<1> SUFFICES ASSUME Init
             PROVE  TextInv /\ \A s \in Sockets : Session(s)!Init
  OBVIOUS
<1>1. clients = <<>> /\ DOMAIN clients = {} /\ InTable = {}
  BY DEF Init, InTable
<1>2. ASSUME NEW s \in Sockets
      PROVE  Uncut(s) = <<>> /\ RoleOf(s) = "UNKNOWN" /\ IsWatching(s) = FALSE
  BY <1>1 DEF Init, Uncut, RoleOf, IsWatching
<1>3. TextInv
  BY <1>1, <1>2, NothingIsCareful DEF TextInv
<1>4. ASSUME NEW s \in Sockets
      PROVE  Session(s)!Init
  <2>1. Commands(Uncut(s)) = <<>>
    BY <1>2, NoCommands
  <2> QED
    BY <1>1, <1>2, <2>1 DEF Init, Session!Init
<1> QED
  BY <1>3, <1>4

\* The server moves sessions only as the server may.
LEMMA ServerSteps ==
  ASSUME RemoteInv, RemoteInv', TextInv, run_remote_server
  PROVE  SessionsServed /\ TextInv' /\ UNCHANGED at
<1>1. CASE Select
  BY <1>1, SelectSteps DEF Select
<1>2. ASSUME NEW k \in DOMAIN clients, Remove(k)
      PROVE  SessionsServed /\ TextInv' /\ UNCHANGED at
  BY <1>2, RemoveIsEnd DEF Remove, Close
<1>3. ASSUME NEW k \in DOMAIN clients, Recv(k)
      PROVE  SessionsServed /\ TextInv' /\ UNCHANGED at
  BY <1>3, RecvSteps DEF Recv
<1>4. ASSUME NEW k \in DOMAIN clients, Broadcast(k)
      PROVE  SessionsServed /\ TextInv' /\ UNCHANGED at
  BY <1>4, BroadcastIsStatus DEF Broadcast
<1>5. CASE HandleLine
  BY <1>5, HandleLineSteps DEF HandleLine
<1>6. CASE SweepDone \/ BroadcastDone
  BY <1>6, NobodyMoves DEF SweepDone, BroadcastDone, network
<1> QED
  BY <1>1, <1>2, <1>3, <1>4, <1>5, <1>6 DEF run_remote_server

\* Every step moves each session as it may, or leaves it.
LEMMA SessionsMoveOn ==
  RemoteInv /\ RemoteInv' /\ TextInv /\ [Next]_vars => SessionsStep /\ TextInv'
<1> SUFFICES ASSUME RemoteInv, RemoteInv', TextInv, [Next]_vars
             PROVE  SessionsStep /\ TextInv'
  OBVIOUS
<1>1. SessionsServed => SessionsStep
  BY DEF SessionsServed, SessionsStep, Session!Next
<1>2. CASE run_remote_server
  BY <1>1, <1>2, ServerSteps
<1>3. ASSUME NEW s \in Sockets, Client(s)
      PROVE  SessionsStep /\ TextInv'
  BY <1>3, ClientSteps
<1>4. CASE UNCHANGED vars
  BY <1>1, <1>4, NobodyMoves DEF vars, loop, network
<1> QED
  BY <1>2, <1>3, <1>4 DEF Next

\* In every state a client whose buffer holds a whole line is the one lines are cut
\* for, and whatever a careful client sent and was not cut yet is careful.
THEOREM TextInvHolds == Spec => []TextInv
BY RemoteInvHolds, SessionsBegin, SessionsMoveOn, PTL DEF Spec

\* The server keeps the session of every client, whatever the others do: it refines
\* ClientSession for each socket at once.
THEOREM SessionsAreKept == Spec => SessionsKept
<1>1. RemoteInv /\ RemoteInv' /\ TextInv /\ [Next]_vars => [SessionsStep]_vars
  BY SessionsMoveOn
<1>2. Spec => [][SessionsStep]_vars
  BY <1>1, RemoteInvHolds, TextInvHolds, PTL DEF Spec
<1>3. Spec => \A s \in Sockets : Session(s)!Init
  BY SessionsBegin DEF Spec
<1> QED
  BY <1>2, <1>3 DEF SessionsKept, SessionsStep

-----------------------------------------------------------------------------
(* How far guard_client is behind *)

MenuCommand == {"STATUS", "CALL", "CALL bad", "other"}

\* A guard client's commands to come are from its menu, so that it never has the role
\* of a guard and no status reaches it unasked; and nothing is left of an earlier connection.
MenuInv(s) ==
  /\ Commands(Uncut(s)) \in Seq(MenuCommand)
  /\ RoleOf(s) # "GUARD"
  /\ peer[s] \in {"off", "gone"} => mail[s] = <<>>
  /\ peer[s] \in {"off", "refused"} => Commands(Uncut(s)) = <<>>
  /\ peer[s] = "on" =>
       IF s \in InTable
       THEN /\ Len(mail[s]) + Len(Commands(Uncut(s))) <= 3
            /\ at[s] = "menu" => Len(mail[s]) + Len(Commands(Uncut(s))) <= 2
       ELSE /\ Len(mail[s]) + Len(Commands(Uncut(s))) <= 1
            /\ at[s] = "menu" => Len(mail[s]) + Len(Commands(Uncut(s))) <= 0

GuardsInv == \A s \in server.guards : MenuInv(s)

\* What is left of a sequence when its first n members are gone.
LEMMA FrontGone ==
  ASSUME NEW S, NEW q \in Seq(S), NEW n \in 1 .. Len(q)
  PROVE  SubSeq(q, n + 1, Len(q)) \in Seq(S) /\ Len(SubSeq(q, n + 1, Len(q))) = Len(q) - n
<1>1. Len(q) \in Nat /\ n + 1 \in Int /\ \A j \in n + 1 .. Len(q) : q[j] \in S
  BY ElementOfSeq, LenProperties
<1>2. /\ SubSeq(q, n + 1, Len(q)) \in Seq(S)
      /\ Len(SubSeq(q, n + 1, Len(q))) = IF n + 1 <= Len(q) THEN Len(q) - (n + 1) + 1 ELSE 0
  BY <1>1, SubSeqProperties
<1> QED
  BY <1>1, <1>2

\* What is said to a client that is there waits behind the rest.
LEMMA SaidLines ==
  ASSUME NEW s \in Sockets, mail[s] \in Seq(Answer), NEW lines \in Seq(Answer),
         Session(s)!Says(lines)
  PROVE  IF peer[s] = "on" THEN Len(mail'[s]) = Len(mail[s]) + Len(lines)
                           ELSE mail'[s] = mail[s]
<1>1. Len(mail[s] \o lines) = Len(mail[s]) + Len(lines)
  BY ConcatProperties
<1> QED
  BY <1>1 DEF Session!Says

\* A session the server moves as it may keeps the guard client's commands and lines few.
LEMMA ServerKeepsMenu ==
  ASSUME RemoteInv, NEW s \in Sockets, MenuInv(s), UNCHANGED at,
         [Session(s)!Server]_(Session(s)!vars)
  PROVE  MenuInv(s)'
<1> DEFINE input == Commands(Uncut(s))
<1>0. /\ RoleOf(s) # "GUARD"
      /\ peer[s] \in {"off", "gone"} => mail[s] = <<>>
      /\ peer[s] \in {"off", "refused"} => input = <<>>
      /\ peer[s] = "on" =>
           IF s \in InTable
           THEN /\ Len(mail[s]) + Len(input) <= 3
                /\ at[s] = "menu" => Len(mail[s]) + Len(input) <= 2
           ELSE /\ Len(mail[s]) + Len(input) <= 1
                /\ at[s] = "menu" => Len(mail[s]) + Len(input) <= 0
  BY DEF MenuInv
<1>1. /\ mail[s] \in Seq(Answer) /\ Len(mail[s]) \in Nat
      /\ input \in Seq(MenuCommand) /\ Len(input) \in Nat
      /\ s \in InTable => peer[s] \in {"on", "gone"}
  BY LenProperties DEF RemoteInv, TypeOK, MenuInv, TableMatchesSockets, InTable
<1>2. CASE UNCHANGED Session(s)!vars
  BY <1>2 DEF MenuInv, Session!vars
<1>3. ASSUME NEW n \in DOMAIN input, Session(s)!Consume(n)
      PROVE  /\ input' \in Seq(MenuCommand) /\ Len(input') \in Nat /\ Len(input') <= Len(input) - 1
             /\ input # <<>>
  <2>1. n \in 1 .. Len(input) /\ input' = SubSeq(input, n + 1, Len(input))
    BY <1>1, <1>3 DEF Session!Consume
  <2> HIDE DEF input
  <2>2. SubSeq(input, n + 1, Len(input)) \in Seq(MenuCommand)
        /\ Len(SubSeq(input, n + 1, Len(input))) = Len(input) - n
    BY <1>1, <2>1, FrontGone
  <2> QED
    BY <1>1, <2>1, <2>2, EmptySeq
<1>4. CASE Session(s)!Greet
  <2>1. /\ peer[s] \in {"on", "gone"} /\ s \notin InTable /\ (s \in InTable)'
        /\ Session(s)!Says(<<"WELCOME", "Please declare role">>)
        /\ peer'[s] = peer[s] /\ input' = input /\ RoleOf(s)' = RoleOf(s)
    BY <1>4 DEF Session!Greet
  <2>2. /\ <<"WELCOME", "Please declare role">> \in Seq(Answer)
        /\ Len(<<"WELCOME", "Please declare role">>) = 2
    BY DEF Answer
  <2>3. IF peer[s] = "on" THEN Len(mail'[s]) = Len(mail[s]) + 2 ELSE mail'[s] = mail[s]
    BY <1>1, <2>1, <2>2, SaidLines
  <2> HIDE DEF input
  <2>4. peer'[s] = "on" =>
          IF (s \in InTable)'
          THEN /\ Len(mail'[s]) + Len(input') <= 3
               /\ at'[s] = "menu" => Len(mail'[s]) + Len(input') <= 2
          ELSE /\ Len(mail'[s]) + Len(input') <= 1
               /\ at'[s] = "menu" => Len(mail'[s]) + Len(input') <= 0
    <3> SUFFICES ASSUME peer'[s] = "on"
                 PROVE  /\ Len(mail'[s]) + Len(input') <= 3
                        /\ at'[s] = "menu" => Len(mail'[s]) + Len(input') <= 2
      BY <2>1
    <3>1. Len(mail'[s]) = Len(mail[s]) + 2 /\ Len(input') = Len(input) /\ at'[s] = at[s]
      BY <2>1, <2>3
    <3>2. /\ Len(mail[s]) + Len(input) <= 1
          /\ at[s] = "menu" => Len(mail[s]) + Len(input) <= 0
      BY <1>0, <2>1
    <3> QED
      BY <1>1, <3>1, <3>2
  <2> QED
    BY <1>0, <1>1, <2>1, <2>3, <2>4 DEF MenuInv, input
<1>5. CASE Session(s)!TurnAway
  <2>1. /\ peer[s] \in {"on", "gone"} /\ peer'[s] = IF peer[s] = "on" THEN "refused" ELSE "off"
        /\ input' = <<>> /\ Session(s)!Says(<<"SERVER_BUSY">>) /\ RoleOf(s)' = RoleOf(s)
    BY <1>5 DEF Session!TurnAway
  <2>2. peer[s] = "gone" => mail'[s] = mail[s]
    BY <2>1 DEF Session!Says
  <2>3. <<>> \in Seq(MenuCommand)
    BY EmptySeq
  <2> QED
    BY <2>1, <2>2, <2>3 DEF MenuInv
<1>6. CASE Session(s)!Handle
  <2>1. PICK n \in DOMAIN input : Session(s)!Consume(n)
    BY <1>6 DEF Session!Handle
  <2>2. /\ input # <<>> /\ Head(input) \in MenuCommand
        /\ input' \in Seq(MenuCommand) /\ Len(input') \in Nat /\ Len(input') <= Len(input) - 1
    <3>1. input # <<>> /\ input' \in Seq(MenuCommand) /\ Len(input') \in Nat
          /\ Len(input') <= Len(input) - 1
      BY <1>3, <2>1
    <3> HIDE DEF input
    <3>2. Head(input) \in MenuCommand
      BY <1>1, <3>1, HeadTailProperties
    <3> QED
      BY <3>1, <3>2
  <2>3. /\ peer'[s] = peer[s] /\ (s \in InTable)' = (s \in InTable) /\ s \in InTable
        /\ RoleOf(s)' = Session(s)!RoleAfter(RoleOf(s), Head(input))
    BY <1>6 DEF Session!Handle
  <2>4. RoleOf(s)' # "GUARD"
    BY <2>2, <2>3 DEF MenuInv, MenuCommand, Session!RoleAfter
  <2>5. PICK answer : /\ answer \in Session(s)!Answers(RoleOf(s), Head(input))
                      /\ Session(s)!Says(<<answer>>)
    BY <1>6 DEF Session!Handle
  <2>6. answer \in Answer
    <3>1. RoleOf(s) # "GUARD"
      BY DEF MenuInv
    <3> QED
      BY <2>2, <2>5, <3>1
        DEF MenuCommand, Answer, Session!Answers, Session!GuardAnswers, Session!ButtonAnswers,
            Session!CallAnswers, Session!RoleAfter
  <2>7. <<answer>> \in Seq(Answer) /\ Len(<<answer>>) = 1
    BY <2>6
  <2>8. IF peer[s] = "on" THEN Len(mail'[s]) = Len(mail[s]) + 1 ELSE mail'[s] = mail[s]
    BY <1>1, <2>5, <2>7, SaidLines
  <2>9. peer[s] \in {"on", "gone"}
    BY <1>1, <2>3
  <2> HIDE DEF input
  <2>10. peer'[s] = "on" =>
          IF (s \in InTable)'
          THEN /\ Len(mail'[s]) + Len(input') <= 3
               /\ at'[s] = "menu" => Len(mail'[s]) + Len(input') <= 2
          ELSE /\ Len(mail'[s]) + Len(input') <= 1
               /\ at'[s] = "menu" => Len(mail'[s]) + Len(input') <= 0
    BY <1>0, <1>1, <2>2, <2>3, <2>4, <2>8, <2>9
  <2> QED
    BY <1>0, <1>1, <2>2, <2>3, <2>4, <2>8, <2>9, <2>10 DEF MenuInv, input
<1>7. CASE Session(s)!Drop
  <2>1. PICK n \in DOMAIN input : Session(s)!Consume(n)
    BY <1>7 DEF Session!Drop
  <2>2. /\ input' \in Seq(MenuCommand) /\ Len(input') \in Nat /\ Len(input') <= Len(input) - 1
    BY <1>3, <2>1
  <2>3. /\ peer'[s] = peer[s] /\ (s \in InTable)' = (s \in InTable) /\ s \in InTable
        /\ RoleOf(s)' = RoleOf(s) /\ mail'[s] = mail[s]
    BY <1>7 DEF Session!Drop
  <2>4. peer[s] \in {"on", "gone"}
    BY <1>1, <2>3
  <2> HIDE DEF input
  <2>5. peer'[s] = "on" =>
          IF (s \in InTable)'
          THEN /\ Len(mail'[s]) + Len(input') <= 3
               /\ at'[s] = "menu" => Len(mail'[s]) + Len(input') <= 2
          ELSE /\ Len(mail'[s]) + Len(input') <= 1
               /\ at'[s] = "menu" => Len(mail'[s]) + Len(input') <= 0
    BY <1>0, <1>1, <2>2, <2>3, <2>4
  <2> QED
    BY <1>0, <1>1, <2>2, <2>3, <2>4, <2>5 DEF MenuInv, input
<1>8. CASE Session(s)!Status
  BY <1>8 DEF Session!Status, MenuInv
<1>9. CASE Session(s)!End
  <2>1. /\ peer[s] = "gone" /\ peer'[s] = "off" /\ input' = <<>> /\ RoleOf(s)' = "UNKNOWN"
        /\ mail'[s] = mail[s]
    BY <1>9 DEF Session!End
  <2>2. <<>> \in Seq(MenuCommand)
    BY EmptySeq
  <2> QED
    BY <2>1, <2>2 DEF MenuInv
<1> QED
  BY <1>2, <1>4, <1>5, <1>6, <1>7, <1>8, <1>9 DEF Session!Server

\* The text of a choice in the menu is one command.
LEMMA ChoiceIsACommand ==
  ASSUME NEW cmd \in MenuCommand
  PROVE  <<cmd, "CR", "LF">> \in Seq(Symbol) /\ Commands(<<cmd, "CR", "LF">>) = <<cmd>>
<1>1. cmd \in Command /\ cmd \in Symbol /\ "CR" \in Symbol /\ "LF" \in Symbol
      /\ "CR" \notin Command /\ "LF" \notin Command
  BY DEF MenuCommand, Symbol, Command, EndOfLine
<1>2. /\ <<cmd>> = Append(<<>>, cmd) /\ <<cmd, "CR">> = Append(<<cmd>>, "CR")
      /\ <<cmd, "CR", "LF">> = Append(<<cmd, "CR">>, "LF")
  OBVIOUS
<1>3. <<>> \in Seq(Symbol) /\ <<cmd>> \in Seq(Symbol) /\ <<cmd, "CR">> \in Seq(Symbol)
      /\ <<cmd, "CR", "LF">> \in Seq(Symbol)
  BY <1>1
<1>4. Commands(<<cmd>>) = <<cmd>>
  BY <1>1, <1>2, <1>3, NoCommands, CommandsAppended
<1>5. Commands(<<cmd, "CR">>) = <<cmd>>
  BY <1>1, <1>2, <1>3, <1>4, CommandsAppended
<1> QED
  BY <1>1, <1>2, <1>3, <1>5, CommandsAppended

\* A choice adds one command where the answers to the last ones have been read but for two
\* lines, and a recv takes at least one line.
LEMMA ClientKeepsMenu ==
  ASSUME RemoteInv, NEW s \in server.guards, s \in Sockets, MenuInv(s), NEW r \in Sockets, Client(r)
  PROVE  MenuInv(s)'
<1> DEFINE input == Commands(Uncut(s))
<1>0. /\ RoleOf(s) # "GUARD"
      /\ peer[s] \in {"off", "gone"} => mail[s] = <<>>
      /\ peer[s] \in {"off", "refused"} => input = <<>>
      /\ peer[s] = "on" =>
           IF s \in InTable
           THEN /\ Len(mail[s]) + Len(input) <= 3
                /\ at[s] = "menu" => Len(mail[s]) + Len(input) <= 2
           ELSE /\ Len(mail[s]) + Len(input) <= 1
                /\ at[s] = "menu" => Len(mail[s]) + Len(input) <= 0
  BY DEF MenuInv
<1>1. UNCHANGED <<clients, loop>> /\ InTable' = InTable /\ Entry(s)' = Entry(s)
  <2>1. UNCHANGED <<clients, loop>>
    BY DEF Client, Connect, Choose, SendText, Put, Receive, Leave
  <2> QED
    BY <2>1 DEF InTable, Entry
<1>2. /\ peer \in [Sockets -> {"off", "on", "gone", "refused"}]
      /\ wire \in [Sockets -> Seq(Symbol)] /\ mail \in [Sockets -> Seq(Answer)]
      /\ careless \in [Sockets -> BOOLEAN]
      /\ at \in [Sockets -> {"menu", "reply", "bye", "done"}]
      /\ s \in InTable => peer[s] \in {"on", "gone"}
  BY DEF RemoteInv, TypeOK, TableMatchesSockets, InTable
<1>3. mail[s] \in Seq(Answer) /\ Len(mail[s]) \in Nat /\ input \in Seq(MenuCommand) /\ Len(input) \in Nat
  BY <1>2, LenProperties DEF MenuInv
<1>4. ASSUME wire'[s] = wire[s]
      PROVE  input' = input /\ RoleOf(s)' = RoleOf(s)
  BY <1>1, <1>4 DEF Uncut, RoleOf
<1>5. CASE r # s
  <2>1. /\ peer'[s] = peer[s] /\ wire'[s] = wire[s] /\ mail'[s] = mail[s] /\ at'[s] = at[s]
    BY <1>2, <1>5 DEF Client, Connect, Choose, SendText, Put, Receive, Leave
  <2> QED
    BY <1>1, <1>4, <2>1 DEF MenuInv
<1>6. CASE r = s /\ Connect(s)
  <2>1. /\ peer[s] = "off" /\ peer'[s] = "on" /\ wire'[s] = wire[s] /\ mail'[s] = mail[s]
    BY <1>2, <1>6 DEF Connect
  <2>2. mail[s] = <<>> /\ input = <<>>
    BY <2>1 DEF MenuInv
  <2>3. Len(mail'[s]) = 0 /\ Len(input') = 0
    BY <1>4, <2>1, <2>2, EmptySeq
  <2> HIDE DEF input
  <2>4. peer'[s] = "on" =>
          IF (s \in InTable)'
          THEN /\ Len(mail'[s]) + Len(input') <= 3
               /\ at'[s] = "menu" => Len(mail'[s]) + Len(input') <= 2
          ELSE /\ Len(mail'[s]) + Len(input') <= 1
               /\ at'[s] = "menu" => Len(mail'[s]) + Len(input') <= 0
    BY <1>0, <1>1, <1>3, <1>4, <2>1, <2>3
  <2> QED
    BY <1>0, <1>1, <1>3, <1>4, <2>1, <2>3, <2>4 DEF MenuInv, input
<1>7. CASE r = s /\ Choose(s)
  <2>1. PICK cmd \in MenuCommand : /\ Put(s, <<cmd, "CR", "LF">>)
                                  /\ at' = [at EXCEPT ![s] = IF cmd = "other" THEN "bye" ELSE "reply"]
    BY <1>7 DEF Choose, MenuCommand
  <2> DEFINE text == <<cmd, "CR", "LF">>
  <2>2. /\ peer[s] = "on" /\ peer'[s] = "on" /\ mail'[s] = mail[s] /\ at[s] = "menu" /\ at'[s] # "menu"
        /\ wire'[s] = wire[s] \o text
    BY <1>2, <1>7, <2>1 DEF Choose, Put
  <2>3. text \in Seq(Symbol) /\ Commands(text) = <<cmd>>
    BY ChoiceIsACommand
  <2> HIDE DEF text
  <2>4. Uncut(s)' = Uncut(s) \o text /\ Uncut(s) \in Seq(Symbol)
    <3>1. CASE s \in InTable
      <4>1. PICK a \in Seq(Symbol), b \in Seq(Symbol) : a = Entry(s).inbuf /\ b = wire[s]
        BY <1>2, <3>1, EntryFound DEF EntriesFound, ClientInfo
      <4>2. Uncut(s) = a \o b /\ Uncut(s)' = a \o (b \o text)
        BY <1>1, <2>2, <3>1, <4>1 DEF Uncut
      <4>3. (a \o b) \o text = a \o (b \o text) /\ a \o b \in Seq(Symbol)
        BY <2>3, TextsJoin
      <4> QED
        BY <4>2, <4>3
    <3>2. CASE s \notin InTable
      BY <1>1, <1>2, <2>2, <3>2 DEF Uncut
    <3> QED
      BY <3>1, <3>2
  <2>5. input' = input \o <<cmd>>
    BY <2>3, <2>4, CommandsJoin
  <2>6. input' \in Seq(MenuCommand) /\ Len(input') = Len(input) + 1
    <3> HIDE DEF input
    <3>1. <<cmd>> \in Seq(MenuCommand) /\ Len(<<cmd>>) = 1
      OBVIOUS
    <3> QED
      BY <1>3, <2>5, <3>1, ConcatProperties
  <2>7. RoleOf(s)' = RoleOf(s)
    BY <1>1 DEF RoleOf
  <2> HIDE DEF input
  <2>8. peer'[s] = "on" =>
          IF (s \in InTable)'
          THEN /\ Len(mail'[s]) + Len(input') <= 3
               /\ at'[s] = "menu" => Len(mail'[s]) + Len(input') <= 2
          ELSE /\ Len(mail'[s]) + Len(input') <= 1
               /\ at'[s] = "menu" => Len(mail'[s]) + Len(input') <= 0
    <3>1. PICK m \in Nat, k \in Nat : m = Len(mail[s]) /\ k = Len(input)
      BY <1>3
    <3>2. m + k <= 2 /\ (s \notin InTable => m + k <= 0)
      BY <1>0, <2>2, <3>1
    <3>3. Len(mail'[s]) + Len(input') <= 3 /\ (s \notin InTable => Len(mail'[s]) + Len(input') <= 1)
      <4>1. Len(mail'[s]) = m /\ Len(input') = k + 1
        BY <2>2, <2>6, <3>1
      <4>2. Len(mail'[s]) + Len(input') = m + (k + 1)
        BY <4>1
      <4>3. m + (k + 1) <= 3 /\ (s \notin InTable => m + (k + 1) <= 1)
        BY <3>2
      <4> QED
        BY <4>2, <4>3
    <3>4. at'[s] # "menu" /\ (s \in InTable)' = (s \in InTable)
      BY <1>1, <2>2
    <3> QED
      BY <3>3, <3>4
  <2> QED
    BY <1>0, <1>1, <1>3, <2>2, <2>6, <2>7, <2>8 DEF MenuInv, input
<1>8. CASE r = s /\ Receive(s)
  <2>1. PICK n \in 1 .. Len(mail[s]) : mail'[s] = SubSeq(mail[s], n + 1, Len(mail[s]))
    BY <1>2, <1>8 DEF Receive
  <2>2. /\ peer'[s] = peer[s] /\ wire'[s] = wire[s] /\ mail[s] # <<>> /\ at[s] # "menu"
    BY <1>8 DEF Receive
  <2>3. Len(mail'[s]) \in Nat /\ Len(mail'[s]) <= Len(mail[s]) - 1
    BY <1>3, <2>1, FrontGone
  <2>4. peer[s] \in {"on", "refused"}
    BY <1>2, <2>2 DEF MenuInv
  <2> HIDE DEF input
  <2>5. peer'[s] = "on" =>
          IF (s \in InTable)'
          THEN /\ Len(mail'[s]) + Len(input') <= 3
               /\ at'[s] = "menu" => Len(mail'[s]) + Len(input') <= 2
          ELSE /\ Len(mail'[s]) + Len(input') <= 1
               /\ at'[s] = "menu" => Len(mail'[s]) + Len(input') <= 0
    BY <1>0, <1>1, <1>3, <1>4, <2>2, <2>3, <2>4
  <2> QED
    BY <1>0, <1>1, <1>3, <1>4, <2>2, <2>3, <2>4, <2>5 DEF MenuInv, input
<1>9. CASE r = s /\ Leave(s)
  <2>1. /\ \/ peer[s] = "on" /\ peer'[s] = "gone"
           \/ peer[s] = "refused" /\ peer'[s] = "off"
        /\ mail'[s] = <<>> /\ wire'[s] = wire[s]
    BY <1>2, <1>9 DEF Leave
  <2> QED
    BY <1>4, <2>1 DEF MenuInv
<1> QED
  BY <1>5, <1>6, <1>7, <1>8, <1>9 DEF Client, SendText

\* At every time what a guard client has still to read is bounded, whatever the others do.
LEMMA GuardsInvStep ==
  RemoteInv /\ RemoteInv' /\ TextInv /\ GuardsInv /\ [Next]_vars => GuardsInv'
<1> SUFFICES ASSUME RemoteInv, RemoteInv', TextInv, GuardsInv, [Next]_vars,
                    NEW s \in server'.guards
             PROVE  MenuInv(s)'
  BY DEF GuardsInv
<1>1. server' = server
  BY DEF Next, run_remote_server, Select, Remove, Recv, HandleLine, SweepDone, Broadcast,
         BroadcastDone, Client, Connect, Choose, SendText, Put, Receive, Leave, vars, loop
<1>2. s \in server.guards /\ s \in Sockets /\ MenuInv(s)
  BY <1>1, RemoteAssumption DEF RemoteInv, TypeOK, GuardsInv
<1>3. CASE run_remote_server
  <2>1. [Session(s)!Server]_(Session(s)!vars) /\ UNCHANGED at
    BY <1>2, <1>3, ServerSteps DEF SessionsServed
  <2> QED
    BY <1>2, <2>1, ServerKeepsMenu
<1>4. ASSUME NEW r \in Sockets, Client(r)
      PROVE  MenuInv(s)'
  BY <1>2, <1>4, ClientKeepsMenu
<1>5. CASE UNCHANGED vars
  <2>1. UNCHANGED <<peer, wire, mail, careless, clients, at>>
    BY <1>5 DEF vars, network
  <2>2. InTable' = InTable /\ Entry(s)' = Entry(s)
    BY <2>1 DEF InTable, Entry
  <2> QED
    BY <1>2, <2>1, <2>2 DEF MenuInv, Uncut, RoleOf
<1> QED
  BY <1>3, <1>4, <1>5 DEF Next

LEMMA GuardsInvInitially == Init => GuardsInv
<1> SUFFICES ASSUME Init, NEW s \in server.guards
             PROVE  MenuInv(s)
  BY DEF GuardsInv
<1>1. s \in Sockets
  BY RemoteAssumption DEF Init
<1>2. Session(s)!Init
  BY <1>1, SessionsBegin
<1>3. <<>> \in Seq(MenuCommand)
  BY EmptySeq
<1> QED
  BY <1>2, <1>3 DEF MenuInv, Session!Init

\* Whatever happens to its connection and whatever the other clients do, guard_client at its
\* menu never has more than two lines still to come.
THEOREM GuardStaysClose == Spec => []GuardNotFarBehind
<1>1. RemoteInv /\ GuardsInv => GuardNotFarBehind
  <2> SUFFICES ASSUME RemoteInv, GuardsInv, NEW s \in server.guards, peer[s] = "on", at[s] = "menu"
               PROVE  ToCome(s) <= 2
    BY DEF GuardNotFarBehind
  <2>1. s \in Sockets /\ MenuInv(s)
    BY RemoteAssumption DEF RemoteInv, TypeOK, GuardsInv
  <2>2. s \in Knocking <=> s \notin InTable
    BY <2>1 DEF Knocking, RemoteInv, TableMatchesSockets
  <2>3. Len(mail[s]) \in Nat /\ Len(Commands(Uncut(s))) \in Nat
    BY <2>1, LenProperties DEF MenuInv, RemoteInv, TypeOK
  <2>4. Len(mail[s]) + Len(Commands(Uncut(s))) <= IF s \in InTable THEN 2 ELSE 0
    BY <2>1 DEF MenuInv
  <2>5. CASE s \in InTable
    <3>1. ToCome(s) = Len(mail[s]) + Len(Commands(Uncut(s))) + 0
      BY <2>2, <2>5 DEF ToCome
    <3> QED
      BY <2>3, <2>4, <2>5, <3>1
  <2>6. CASE s \notin InTable
    <3>1. ToCome(s) = Len(mail[s]) + Len(Commands(Uncut(s))) + 2
      BY <2>2, <2>6 DEF ToCome
    <3> QED
      BY <2>3, <2>4, <2>6, <3>1
  <2> QED
    BY <2>5, <2>6
<1>2. Spec => []GuardsInv
  BY RemoteInvHolds, TextInvHolds, GuardsInvInitially, GuardsInvStep, PTL DEF Spec
<1> QED
  BY <1>1, <1>2, RemoteInvHolds, PTL
=============================================================================
