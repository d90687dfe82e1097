---------------------------- MODULE ClientSession ----------------------------
(***************************************************************************)
(* How a client thread of RS_CSharp cuts what it receives into commands    *)
(* (Net/ClientHandler.cs; RecvData of Protocols/DataLinkProtocol.cs).      *)
(*                                                                         *)
(* A client sends units, the pieces of commands that may arrive apart: the *)
(* k-th command of DataLink is "sig" ("DL"), "len", the units of its body  *)
(* and those of its data (WRITE, MATCH, REJECT); a line of SeedLink or     *)
(* HTTP is "two" (its first two bytes), "text" and terminators.  A unit is *)
(* <<command, part>>.  What a command does is left to its own modules;     *)
(* here it succeeds or it ends the session.                                *)
(***************************************************************************)
EXTENDS Integers, FiniteSets, Sequences, FiniteSetsExt, SequencesExt

CONSTANTS
  Ports,          \* the ports of the server, each the set of its protocols
  MaxCommands,    \* bound: commands the client sends
  BodyLengths,    \* units a DataLink body may have (its length is one byte)
  DataLengths,    \* units of data after it; 0: the command has none
  Terminations,   \* what may end a line: sequences of "cr" and "lf"
  MaxEmptyLines,  \* terminators in a row that end the session (10)
  RecvBufferSize  \* units RecvBuffer holds

ASSUME SessionAssumption ==
  /\ Ports \subseteq SUBSET {"datalink", "seedlink", "http"}
  /\ BodyLengths \subseteq Nat \ {0} /\ BodyLengths # {} /\ IsFiniteSet(BodyLengths)
  /\ DataLengths \subseteq Nat /\ Terminations \subseteq Seq({"cr", "lf"}) \ {<<>>}
  /\ MaxCommands \in Nat /\ MaxEmptyLines \in Nat /\ RecvBufferSize \in Nat

VARIABLES
  peer,      \* the client: its port, the protocol of it that it speaks, whether
             \* its first two bytes are like a DataLink command's, whether it keeps
             \* reading what it is sent, whether it has closed
  sent,      \* the commands it has begun to send
  rest,      \* the units of the last one it has yet to send
  wire,      \* the units that have arrived and are not received
  type,      \* ClientInfo.Type
  buffer,    \* RecvBuffer up to RecvLength
  dlcommand, \* DlCommand, with Nul after the last body and what was there before
  writing,   \* the command whose handler waits in RecvData, with the data it has
  closed,    \* "no", or why the loop was left
  handled,   \* history: the commands handled, as the thread understood them
  ahead      \* history: a DataLink client did not wait for a command's effect

vars == <<peer, sent, rest, wire, type, buffer, dlcommand, writing, closed, handled, ahead>>
peerVars == <<peer, sent, rest, ahead>>

Nul     == <<0, "nul">>
MaxBody == Max(BodyLengths)
NoWrite == [cmd |-> 0, text |-> <<>>, data |-> <<>>]

Repeat(u, n) == [i \in 1 .. n |-> u]

\* The text of the k-th command, and the data that follows it.
Body(k) == IF peer.speaks = "datalink" THEN Repeat(<<k, "body">>, sent[k].body)
                                       ELSE <<<<k, "two">>, <<k, "text">>>>
Data(k) == Repeat(<<k, "data">>, sent[k].data)

\* The units a client sends for its k-th command c.
Units(k, c) ==
  IF peer.speaks = "datalink"
  THEN <<<<k, "sig">>, <<k, "len">>>> \o Repeat(<<k, "body">>, c.body) \o Repeat(<<k, "data">>, c.data)
  ELSE <<<<k, "two">>, <<k, "text">>>> \o [i \in DOMAIN c.end |-> <<k, c.end[i]>>]

PossibleCommands ==
  IF peer.speaks = "datalink" THEN [body : BodyLengths, data : DataLengths, end : {<<>>}]
                              ELSE [body : {2}, data : {0}, end : Terminations]

(***************************************************************************)
(* The client.  A DataLink client begins with "DL"; no HTTP method begins  *)
(* like a DataLink command; a SeedLink command may.                        *)
(***************************************************************************)
BeginCommand ==
  /\ ~peer.gone /\ rest = <<>> /\ Len(sent) < MaxCommands
  /\ \E c \in PossibleCommands : sent' = Append(sent, c) /\ rest' = Units(Len(sent) + 1, c)
  /\ ahead' = (ahead \/ (peer.speaks = "datalink" /\ Len(handled) < Len(sent)))
  /\ UNCHANGED <<peer, wire, type, buffer, dlcommand, writing, closed, handled>>

Arrive ==
  /\ ~peer.gone /\ rest # <<>>
  /\ wire' = Append(wire, Head(rest)) /\ rest' = Tail(rest)
  /\ UNCHANGED <<peer, sent, ahead, type, buffer, dlcommand, writing, closed, handled>>

Disconnect ==
  /\ ~peer.gone
  /\ peer' = [peer EXCEPT !.gone = TRUE]
  /\ UNCHANGED <<sent, rest, ahead, wire, type, buffer, dlcommand, writing, closed, handled>>

(***************************************************************************)
(* Detection (RunInner, PeekData).  A port of one protocol needs no bytes; *)
(* another peeks at three, and two of them may be all that has arrived.    *)
(***************************************************************************)
Detected ==
  IF "datalink" \in peer.port /\ peer.opensLikeDL THEN "datalink"
  ELSE IF peer.speaks = "http" /\ Len(wire) >= 2 THEN "http"
  ELSE IF "seedlink" \in peer.port THEN "seedlink" ELSE "datalink"

Detect ==
  /\ closed = "no" /\ type = "undetermined"
  /\ \/ Cardinality(peer.port) = 1 /\ type' = peer.speaks
     \/ Cardinality(peer.port) > 1 /\ wire # <<>> /\ type' = Detected
  /\ UNCHANGED <<peer, sent, rest, ahead, wire, buffer, dlcommand, writing, closed, handled>>

(***************************************************************************)
(* Receiving.                                                              *)
(***************************************************************************)
Room     == RecvBufferSize - Len(buffer)
\* Mutation of Arrived: the room left in the buffer is not looked at.
ArrivedAll == wire
Arrived  == SubSeq(wire, 1, Min({Room, Len(wire)}))
Received == buffer \o Arrived
Fin      == Room > 0 /\ wire = <<>> /\ peer.gone

Idle == closed = "no" /\ writing = NoWrite

IsTerminator(u)  == u[2] \in {"cr", "lf"}
HasTerminator(b) == \E i \in DOMAIN b : IsTerminator(b[i])

\* RecvLine asks for more only without a line to return; RecvDLCommand always does.
MustReceiveAlways(b) == TRUE
MustReceive(b) == type = "datalink" \/ ~HasTerminator(b)

\* Receive met the end of what the client sent.
RecvFin ==
  /\ Idle /\ type # "undetermined" /\ MustReceive(buffer) /\ Fin
  /\ closed' = "fin"
  /\ UNCHANGED <<peer, sent, rest, ahead, wire, type, buffer, dlcommand, writing, handled>>

\* The handler of a command ends, well or with an error or BYE.
Finish(c) ==
  /\ handled' = Append(handled, c)
  /\ closed' \in {"no", "command"}

(***************************************************************************)
(* RecvDLCommand, and HandleCommand of DataLink up to RecvData.            *)
(***************************************************************************)
HeaderLen(b) == sent[b[2][1]].body

\* Mutation of Whole: a command is taken when a unit beyond it is there.
WholeAndMore(b) == Len(b) > 2 + HeaderLen(b)
Whole(b) == Len(b) >= 2 + HeaderLen(b)

Shifted(b) == SubSeq(b, 3 + HeaderLen(b), Len(b))

\* DlCommand[headerLen] = 0, and what an earlier command left after it.
CopyTo(d, b) ==
  [i \in 1 .. MaxBody + 1 |-> CASE i <= HeaderLen(b)    -> b[2 + i]
                                [] i = HeaderLen(b) + 1 -> Nul
                                [] OTHER                -> d[i]]

\* GetString(DlCommand).TrimEnd('\0')
Text(d) == SubSeq(d, 1, Max({0} \cup {i \in DOMAIN d : d[i] # Nul}))

\* Mutation of FromBuffer: RecvData asks the socket at once.
FromSocket(b, n) == 0
\* What RecvData takes from the buffer before it asks the socket.
FromBuffer(b, n) == Min({n, Len(b)})

RecvDLPart ==
  /\ Idle /\ type = "datalink" /\ Room > 0 /\ wire # <<>>
  /\ LET b == Received IN
     /\ wire' = SubSeq(wire, Len(Arrived) + 1, Len(wire)) /\ buffer' = b
     /\ \/ Len(b) < 2 /\ UNCHANGED closed
        \/ Len(b) >= 2 /\ (b[1][2] # "sig") /\ closed' = "framing"
        \/ Len(b) >= 2 /\ (b[1][2] = "sig") /\ ~Whole(b) /\ UNCHANGED closed
  /\ UNCHANGED <<peer, sent, rest, ahead, type, dlcommand, writing, handled>>

RecvDLCommand ==
  /\ Idle /\ type = "datalink" /\ Room > 0 /\ wire # <<>>
  /\ LET b    == Received
         after == Shifted(b)
         k    == b[1][1]
         n    == FromBuffer(after, sent[k].data)
         text == Text(CopyTo(dlcommand, b))
         got  == [cmd |-> k, text |-> text, data |-> SubSeq(after, 1, n)]
     IN /\ Len(b) >= 2 /\ b[1][2] = "sig" /\ Whole(b)
        /\ wire' = SubSeq(wire, Len(Arrived) + 1, Len(wire))
        /\ dlcommand' = CopyTo(dlcommand, b)
        /\ \/ \* refused before its data is read: the session ends
              closed' = "command" /\ buffer' = after /\ UNCHANGED <<writing, handled>>
           \/ /\ n = sent[k].data /\ buffer' = SubSeq(after, n + 1, Len(after))
              /\ Finish(got) /\ UNCHANGED writing
           \/ /\ n < sent[k].data /\ buffer' = SubSeq(after, n + 1, Len(after))
              /\ writing' = got /\ UNCHANGED <<closed, handled>>
  /\ UNCHANGED <<peer, sent, rest, ahead, type>>

\* A blocking Receive of RecvData: the thread sees no shutdown meanwhile.
RecvData ==
  /\ closed = "no" /\ writing # NoWrite
  /\ LET need == sent[writing.cmd].data - Len(writing.data)
         n    == Min({need, Len(wire)})
         got  == [writing EXCEPT !.data = @ \o SubSeq(wire, 1, n)]
     IN \/ /\ wire # <<>> /\ wire' = SubSeq(wire, n + 1, Len(wire))
           /\ \/ n < need /\ writing' = got /\ UNCHANGED <<closed, handled>>
              \/ n = need /\ writing' = NoWrite /\ Finish(got)
        \/ /\ wire = <<>> /\ peer.gone
           /\ closed' = "fin" /\ UNCHANGED <<wire, writing, handled>>
  /\ UNCHANGED <<peer, sent, rest, ahead, type, buffer, dlcommand>>

(***************************************************************************)
(* RecvLine, and the consumption of the line by RunInner.                  *)
(***************************************************************************)
LeadingTerminators(b) ==
  Max({n \in 0 .. Len(b) : \A i \in 1 .. n : IsTerminator(b[i])})

\* The length of the first line of b, which has one, and how much RunInner consumes of it.
LineLen(b) == Min({i \in DOMAIN b : IsTerminator(b[i])}) - 1
Consumed(b) ==
  LET n == LineLen(b)
  IN n + IF b[n + 1][2] = "cr" /\ n + 2 \in DOMAIN b /\ b[n + 2][2] = "lf" THEN 2 ELSE 1

\* What is in the buffer after the call has received, and the line it finds in
\* it behind the leading terminators.
RecvLine ==
  /\ Idle /\ type \in {"seedlink", "http"}
  /\ MustReceive(buffer) => Room > 0 /\ wire # <<>>
  /\ wire' = IF MustReceive(buffer) THEN SubSeq(wire, Len(Arrived) + 1, Len(wire)) ELSE wire
  /\ \E all \in {IF MustReceive(buffer) THEN Received ELSE buffer} :
     \E skip \in {LeadingTerminators(all)} :
     \E line \in {SubSeq(all, skip + 1, Len(all))} :
       \/ /\ skip >= MaxEmptyLines
          /\ closed' = "empty lines" /\ buffer' = all /\ UNCHANGED handled
       \/ /\ skip < MaxEmptyLines /\ ~HasTerminator(line)
          /\ buffer' = line /\ UNCHANGED <<closed, handled>>
       \/ /\ skip < MaxEmptyLines /\ HasTerminator(line)
          /\ Finish([cmd |-> line[1][1], text |-> SubSeq(line, 1, LineLen(line)), data |-> <<>>])
          /\ buffer' = SubSeq(line, Consumed(line) + 1, Len(line))
  /\ UNCHANGED <<peer, sent, rest, ahead, type, dlcommand, writing>>

(***************************************************************************)
(* The other ways out of the loop: no command within ten seconds, a socket *)
(* error, or the shutdown of the server.                                   *)
(***************************************************************************)
Timeout ==
  /\ Idle /\ handled = <<>> /\ closed' = "timeout"
  /\ UNCHANGED <<peer, sent, rest, ahead, wire, type, buffer, dlcommand, writing, handled>>

Leave ==
  /\ Idle /\ closed' = "server"
  /\ UNCHANGED <<peer, sent, rest, ahead, wire, type, buffer, dlcommand, writing, handled>>

Init ==
  /\ peer \in {p \in [port : Ports, speaks : UNION Ports, opensLikeDL : BOOLEAN,
                      reads : BOOLEAN, gone : {FALSE}] :
                 /\ p.speaks \in p.port
                 /\ p.speaks = "datalink" => p.opensLikeDL
                 /\ p.speaks = "http" => ~p.opensLikeDL}
  /\ sent = <<>> /\ rest = <<>> /\ wire = <<>> /\ ahead = FALSE
  /\ type = "undetermined" /\ buffer = <<>> /\ writing = NoWrite
  /\ dlcommand = Repeat(Nul, MaxBody + 1)
  /\ closed = "no" /\ handled = <<>>

Turn == Detect \/ RecvFin \/ RecvDLPart \/ RecvDLCommand \/ RecvData \/ RecvLine

Next == BeginCommand \/ Arrive \/ Disconnect \/ Turn \/ Timeout \/ Leave

\* The client owes nothing.  The thread keeps turning only while its client reads:
\* a reply and a streamed packet are sent by a Send that has no time limit
\* (SendData.cs:92), so one that stops reading may hold its thread for good.
Spec == Init /\ [][Next]_vars /\ WF_vars(peer.reads /\ Turn)

(***************************************************************************)
(* Properties.                                                             *)
(***************************************************************************)
\* The variables hold what the code's fields may, and RecvBuffer never more
\* than RecvBufferSize (ClientHandler.cs:506, 557).
Reasons == {"no", "fin", "command", "framing", "empty lines", "timeout", "server"}
TypeOK ==
  /\ type \in {"undetermined", "datalink", "seedlink", "http"}
  /\ closed \in Reasons
  /\ Len(buffer) <= RecvBufferSize
  /\ Len(dlcommand) = MaxBody + 1
  /\ Len(handled) <= Len(sent) /\ Len(sent) <= MaxCommands
  /\ writing # NoWrite => type = "datalink" /\ Len(writing.data) < sent[writing.cmd].data

\* The client was taken for one of DataLink: its first command begins with ST,
\* EN, BY, CA or ID (STATION, END, BYE, CAT of SeedLink) on a port that has
\* DataLink too, or two bytes of an HTTP request had arrived on one without SeedLink.
Misread == peer.speaks # "datalink" /\ type = "datalink"

\* However what the client sends is split on its way, and however far it runs
\* ahead, its commands are handled in the order it sent them, none twice and
\* none passed over, each with its own text and its own data, and the place
\* where a command begins is never lost (RecvDLCommand's shift, RecvData's use
\* of RecvBuffer, RecvLine's skipping, RunInner's "consumed").
CommandsInOrder ==
  /\ \A i \in DOMAIN handled :
       /\ handled[i].cmd = i
       /\ IsPrefix(Body(i), handled[i].text)
       /\ handled[i].data = Data(i)
  /\ closed = "framing" => Misread

\* Units of the first k commands are no longer the client's to send.
SentWhole(k) == k < Len(sent) \/ (k = Len(sent) /\ rest = <<>>)

\* A client that closes after its last command has had it handled: the end of
\* what it sent is not noticed before the commands that came with it (SeedLink
\* and HTTP, and DataLink clients that wait for each command).
FinLosesNothing ==
  closed = "fin" /\ ~ahead /\ ~Misread =>
    \A k \in DOMAIN sent : SentWhole(k) => k <= Len(handled)

\* A command that a client has sent whole is handled, or the session ends, if the
\* client reads what it is sent: none is left in RecvBuffer waiting for bytes that
\* the client sees no reason to send (RecvDLCommand, RecvLine, MustReceive).
EveryCommandHandled ==
  \A k \in 1 .. MaxCommands :
    peer.reads /\ SentWhole(k) /\ ~ahead ~> Len(handled) >= k \/ closed # "no" \/ ahead

\* "Copy the command body to DlCommand and null-terminate"
\* (ClientHandler.cs:573): the text a handler sees is the body the client sent.
HandledAsSent == \A i \in DOMAIN handled : handled[i].text = Body(i)
=============================================================================
