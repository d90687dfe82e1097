------------------------ MODULE ClientSessionProofs ------------------------
(***************************************************************************)
(* Theorems about ClientSession, for all ports, commands and sizes of the  *)
(* receive buffer.                                                         *)
(***************************************************************************)
EXTENDS ClientSession, FiniteSetTheorems, SequenceTheorems,
        NaturalsInduction, WellFoundedInduction, TLAPS

-----------------------------------------------------------------------------
(* The inductive invariant                                                 *)

Unit    == Nat \X {"nul", "sig", "len", "body", "data", "two", "text", "cr", "lf"}
Speaks  == {"datalink", "seedlink", "http"}
Command == [body : Nat \ {0}, data : Nat, end : Seq({"cr", "lf"})]
Got     == [cmd : Nat, text : Seq(Unit), data : Seq(Unit)]

\* The units of a client that speaks sp for its k-th command c.
UnitsOf(sp, k, c) ==
  IF sp = "datalink"
  THEN <<<<k, "sig">>, <<k, "len">>>> \o Repeat(<<k, "body">>, c.body) \o Repeat(<<k, "data">>, c.data)
  ELSE <<<<k, "two">>, <<k, "text">>>> \o [i \in DOMAIN c.end |-> <<k, c.end[i]>>]

\* The j-th command of s begins at place st[j] of F, and nothing comes behind the
\* last one; places before 1 have been consumed.
Places(sp, s, F, st) ==
  /\ st \in [1 .. Len(s) + 1 -> Int]
  /\ st[Len(s) + 1] = Len(F) + 1
  /\ \A j, k \in 1 .. Len(s) + 1 : j <= k => st[j] <= st[k]
  /\ \A j \in 1 .. Len(s) :
       /\ st[j + 1] = st[j] + Len(UnitsOf(sp, j, s[j]))
       /\ \A i \in 1 .. Len(UnitsOf(sp, j, s[j])) :
            st[j] + i - 1 >= 1 => F[st[j] + i - 1] = UnitsOf(sp, j, s[j])[i]

\* The k-th command begins at place p of F.
Begins(sp, s, F, k, p) == \E st : Places(sp, s, F, st) /\ st[k] = p

\* What the client has begun to send and the thread has not consumed.
Stream == buffer \o wire \o rest

Line == type \in {"seedlink", "http"}

\* The place of the next command, which is the one being written while a handler
\* waits in RecvData; before a line only terminators are left of the last one.
NextAt(p) ==
  IF writing # NoWrite
  THEN p = 1 - (2 + sent[writing.cmd].body + Len(writing.data))
  ELSE IF Line THEN p >= 1 /\ \A i \in 1 .. p - 1 : IsTerminator(Stream[i])
  ELSE p = 1

Framed ==
  closed = "no" =>
    /\ Len(handled) <= Len(sent)
    /\ \E p \in Int : Begins(peer.speaks, sent, Stream, Len(handled) + 1, p) /\ NextAt(p)

\* What the variables hold, beyond TypeOK.
Types ==
  /\ peer \in [port : Ports, speaks : Speaks, opensLikeDL : BOOLEAN, reads : BOOLEAN, gone : BOOLEAN]
  /\ peer.speaks \in peer.port
  /\ peer.speaks = "datalink" => peer.opensLikeDL
  /\ sent \in Seq(Command)
  /\ \A k \in DOMAIN sent :
       IF peer.speaks = "datalink" THEN sent[k].body \in BodyLengths
                                   ELSE sent[k].end # <<>> /\ sent[k].data = 0
  /\ rest \in Seq(Unit) /\ wire \in Seq(Unit) /\ buffer \in Seq(Unit)
  /\ dlcommand \in [1 .. MaxBody + 1 -> Unit]
  /\ writing \in Got /\ handled \in Seq(Got) /\ ahead \in BOOLEAN

\* The guess of the protocol: lines are never taken from a DataLink client, and one
\* that was taken for a DataLink client by mistake has had nothing handled.
Guessed ==
  /\ Line => peer.speaks # "datalink"
  /\ type = "undetermined" => buffer = <<>>
  /\ type = "undetermined" \/ Misread => handled = <<>> /\ writing = NoWrite

\* A handler that waits in RecvData has the text of the next command and a part of
\* its data, and has emptied the buffer.
WritingOK ==
  writing # NoWrite =>
    /\ peer.speaks = "datalink" /\ buffer = <<>>
    /\ writing.cmd = Len(handled) + 1 /\ writing.cmd <= Len(sent)
    /\ IsPrefix(Body(writing.cmd), writing.text)
    /\ Len(writing.data) < sent[writing.cmd].data
    /\ writing.data = Repeat(<<writing.cmd, "data">>, Len(writing.data))

\* The rest is of the last command; a client that waits has at most one command
\* under way, of which the buffer holds less than the header and the body.
Waiting ==
  /\ rest # <<>> => Len(sent) >= 1 /\ Len(rest) <= Len(UnitsOf(peer.speaks, Len(sent), sent[Len(sent)]))
  /\ peer.speaks = "datalink" /\ ~ahead =>
       /\ Len(sent) <= Len(handled) + 1
       /\ closed = "no" /\ writing = NoWrite /\ Len(sent) = Len(handled) + 1 =>
            Len(buffer) < 2 + sent[Len(sent)].body
  /\ closed = "fin" => peer.gone

SessionInv ==
  /\ TypeOK /\ Types /\ Framed /\ Guessed /\ WritingOK /\ Waiting
  /\ CommandsInOrder /\ FinLosesNothing

-----------------------------------------------------------------------------
(* Extreme elements                                                        *)

LEMMA LeastOf ==
  ASSUME NEW T \in SUBSET Nat, T # {}
  PROVE  \E x \in T : \A y \in T : x <= y
<1>1. \E x \in T : \A y \in T : ~ (<<y, x>> \in OpToRel(<, Nat))
  BY WFMin, NatLessThanWellFounded
<1>2. \A x \in T, y \in T : ~ (<<y, x>> \in OpToRel(<, Nat)) => x <= y
  BY DEF OpToRel
<1> QED
  BY <1>1, <1>2

\* A bounded set has its Max.
LEMMA MaxOf ==
  ASSUME NEW n \in Nat, NEW T, T \subseteq 0 .. n, T # {}
  PROVE  Max(T) \in T /\ \A y \in T : y <= Max(T)
<1> DEFINE U == {n - x : x \in T}
<1>1. \A x \in T : x \in Nat /\ x <= n /\ n - x \in Nat
  OBVIOUS
<1>2. U \in SUBSET Nat /\ U # {}
  BY <1>1
<1>3. PICK u \in U : \A v \in U : u <= v
  BY <1>2, LeastOf
<1>4. PICK x \in T : u = n - x
  OBVIOUS
<1>5. \A y \in T : x >= y
  <2> SUFFICES ASSUME NEW y \in T PROVE x >= y
    OBVIOUS
  <2>1. n - x <= n - y
    BY <1>3, <1>4
  <2> QED
    BY <1>1, <2>1
<1>6. Max(T) \in T /\ \A y \in T : Max(T) >= y
  BY <1>5 DEF Max
<1> QED
  BY <1>1, <1>6

LEMMA MinOfTwo ==
  ASSUME NEW a \in Int, NEW b \in Int
  PROVE  Min({a, b}) = IF a <= b THEN a ELSE b
<1> DEFINE m == IF a <= b THEN a ELSE b
<1>1. m \in {a, b} /\ \A y \in {a, b} : m <= y
  OBVIOUS
<1>2. \A x \in {a, b} : (\A y \in {a, b} : x <= y) => x = m
  OBVIOUS
<1> HIDE DEF m
<1>3. Min({a, b}) \in {a, b} /\ \A y \in {a, b} : Min({a, b}) <= y
  BY <1>1 DEF Min
<1> QED
  BY <1>2, <1>3 DEF m

\* A finite set of numbers is bounded.
LEMMA FiniteBounded ==
  ASSUME NEW S \in SUBSET Nat, IsFiniteSet(S)
  PROVE  \E b \in Nat : S \subseteq 0 .. b
<1>0. PICK n \in Nat : ExistsSurjection(1 .. n, S)
  BY FS_NatSurjection
<1>1. PICK f \in [1 .. n -> S] : \A x \in S : \E i \in 1 .. n : f[i] = x
  BY <1>0 DEF ExistsSurjection, Surjection
<1> DEFINE Bounded(i) == \E b \in Nat : \A j \in 1 .. i : f[j] <= b
           U == {i \in 0 .. n : ~Bounded(i)}
<1>2. U \in SUBSET Nat /\ \A i : i \in U <=> i \in 0 .. n /\ ~Bounded(i)
  OBVIOUS
<1>3. Bounded(0)
  <2>1. \A j \in 1 .. 0 : f[j] <= 0
    OBVIOUS
  <2> QED
    BY <2>1
<1>4. ASSUME NEW g \in 1 .. n, Bounded(g - 1) PROVE Bounded(g)
  <2>1. PICK b \in Nat : \A j \in 1 .. g - 1 : f[j] <= b
    BY <1>4
  <2>2. f[g] \in Nat
    OBVIOUS
  <2>3. \A j \in 1 .. g : f[j] <= b + f[g]
    <3> SUFFICES ASSUME NEW j \in 1 .. g PROVE f[j] <= b + f[g]
      OBVIOUS
    <3>1. CASE j = g
      BY <3>1, <2>2
    <3>2. CASE j # g
      <4>1. j \in 1 .. g - 1 /\ j \in 1 .. n
        BY <3>2
      <4>2. f[j] <= b /\ f[j] \in Nat
        BY <4>1, <2>1
      <4> QED
        BY <4>2, <2>2
    <3> QED
      BY <3>1, <3>2
  <2>4. b + f[g] \in Nat
    BY <2>2
  <2> QED
    BY <2>3, <2>4
<1> HIDE DEF Bounded, U
<1>5. U = {}
  <2> SUFFICES ASSUME U # {} PROVE FALSE
    OBVIOUS
  <2>1. PICK g \in U : \A y \in U : g <= y
    BY <1>2, LeastOf
  <2>2. g \in 1 .. n /\ g - 1 \in 0 .. n /\ g - 1 \notin U
    BY <1>2, <1>3, <2>1
  <2>3. g - 1 \in 0 .. n \ U => g \notin U
    BY ONLY <1>2, <1>4, <2>2
  <2> QED
    BY ONLY <2>1, <2>2, <2>3
<1>6. Bounded(n)
  BY <1>2, <1>5
<1>7. PICK b \in Nat : \A j \in 1 .. n : f[j] <= b
  BY <1>6 DEF Bounded
<1> QED
  BY <1>1, <1>7

\* The longest body has a length.
LEMMA MaxBodyBounds ==
  /\ MaxBody \in Nat
  /\ \A n \in BodyLengths : n <= MaxBody
<1>1. PICK b \in Nat : BodyLengths \subseteq 0 .. b
  BY FiniteBounded, SessionAssumption DEF SessionAssumption
<1>2. BodyLengths \subseteq 0 .. b /\ BodyLengths # {}
  BY <1>1, SessionAssumption DEF SessionAssumption
<1>3. MaxBody \in BodyLengths /\ \A y \in BodyLengths : y <= MaxBody
  BY <1>2, MaxOf, Zenon DEF MaxBody
<1> QED
  BY <1>3, SessionAssumption DEF SessionAssumption

-----------------------------------------------------------------------------
(* The units of a command                                                  *)

LEMMA RepeatFacts ==
  ASSUME NEW S, NEW u \in S, NEW n \in Nat
  PROVE  /\ Repeat(u, n) \in Seq(S) /\ Len(Repeat(u, n)) = n
         /\ \A i \in 1 .. n : Repeat(u, n)[i] = u
BY DEF Repeat

LEMMA Joined ==
  ASSUME NEW s \in Seq(Unit), NEW t \in Seq(Unit), NEW u, u = s \o t
  PROVE  /\ u \in Seq(Unit) /\ Len(u) = Len(s) + Len(t) /\ Len(s) \in Nat /\ Len(t) \in Nat
         /\ \A i \in 1 .. Len(s) : u[i] = s[i]
         /\ \A i \in Len(s) + 1 .. Len(s) + Len(t) : u[i] = t[i - Len(s)]
OBVIOUS

LEMMA UnitsAreOf ==
  ASSUME NEW k, NEW c
  PROVE  Units(k, c) = UnitsOf(peer.speaks, k, c)
BY DEF Units, UnitsOf

DataLinkForm(U, k, c) ==
  /\ U \in Seq(Unit) /\ Len(U) = 2 + c.body + c.data
  /\ U[1] = <<k, "sig">> /\ U[2] = <<k, "len">>
  /\ \A i \in 3 .. 2 + c.body : U[i] = <<k, "body">>
  /\ \A i \in 3 + c.body .. 2 + c.body + c.data : U[i] = <<k, "data">>

LineForm(U, k, c) ==
  /\ U \in Seq(Unit) /\ Len(U) = 2 + Len(c.end)
  /\ U[1] = <<k, "two">> /\ U[2] = <<k, "text">>
  /\ \A i \in 3 .. Len(U) : U[i] = <<k, c.end[i - 2]>> /\ IsTerminator(U[i])

LEMMA DataLinkUnits ==
  ASSUME NEW k \in Nat, NEW c \in Command
  PROVE  DataLinkForm(UnitsOf("datalink", k, c), k, c)
<1> DEFINE U == UnitsOf("datalink", k, c)
           head == <<<<k, "sig">>, <<k, "len">>>>
           body == Repeat(<<k, "body">>, c.body)
           data == Repeat(<<k, "data">>, c.data)
<1>1. c.body \in Nat /\ c.data \in Nat
  BY DEF Command
<1>2. /\ head \in Seq(Unit) /\ Len(head) = 2
      /\ head[1] = <<k, "sig">> /\ head[2] = <<k, "len">>
  BY DEF Unit
<1>3. /\ body \in Seq(Unit) /\ Len(body) = c.body
      /\ \A i \in 1 .. c.body : body[i] = <<k, "body">>
  <2>1. <<k, "body">> \in Unit
    BY DEF Unit
  <2> QED
    BY <1>1, <2>1, RepeatFacts
<1>4. /\ data \in Seq(Unit) /\ Len(data) = c.data
      /\ \A i \in 1 .. c.data : data[i] = <<k, "data">>
  <2>1. <<k, "data">> \in Unit
    BY DEF Unit
  <2> QED
    BY <1>1, <2>1, RepeatFacts
<1>11. head \in Seq(Unit) /\ body \in Seq(Unit)
  BY <1>2, <1>3
<1>14. data \in Seq(Unit)
  BY <1>4
<1>12. Len(head) = 2 /\ Len(body) = c.body /\ Len(data) = c.data
  BY <1>2, <1>3, <1>4
<1> DEFINE front == head \o body
<1>5. U = front \o data
  BY DEF UnitsOf
<1> HIDE DEF head, body, data, U
<1>6. /\ front \in Seq(Unit) /\ Len(front) = 2 + c.body
      /\ \A i \in 1 .. 2 : front[i] = head[i]
      /\ \A i \in 3 .. 2 + c.body : front[i] = body[i - 2]
  <2>1. /\ front \in Seq(Unit) /\ Len(front) = Len(head) + Len(body)
        /\ \A i \in 1 .. Len(head) : front[i] = head[i]
        /\ \A i \in Len(head) + 1 .. Len(head) + Len(body) : front[i] = body[i - Len(head)]
    BY ONLY <1>11, Joined
  <2> QED
    BY ONLY <1>1, <1>12, <2>1
<1>13. front \in Seq(Unit) /\ Len(front) = 2 + c.body
  BY ONLY <1>6
<1> HIDE DEF front
<1>7. /\ U \in Seq(Unit) /\ Len(U) = 2 + c.body + c.data
      /\ \A i \in 1 .. 2 + c.body : U[i] = front[i]
      /\ \A i \in 3 + c.body .. 2 + c.body + c.data : U[i] = data[i - (2 + c.body)]
  <2>1. /\ U \in Seq(Unit) /\ Len(U) = Len(front) + Len(data)
        /\ \A i \in 1 .. Len(front) : U[i] = front[i]
        /\ \A i \in Len(front) + 1 .. Len(front) + Len(data) : U[i] = data[i - Len(front)]
    BY ONLY <1>5, <1>13, <1>14
  <2> QED
    BY ONLY <1>1, <1>13, <1>12, <2>1
<1>8. U[1] = <<k, "sig">> /\ U[2] = <<k, "len">>
  <2>1. U[1] = head[1] /\ U[2] = head[2]
    BY ONLY <1>1, <1>6, <1>7
  <2> QED
    BY ONLY <1>2, <2>1
<1>9. ASSUME NEW i \in 3 .. 2 + c.body PROVE U[i] = <<k, "body">>
  <2>1. i \in 1 .. 2 + c.body /\ i - 2 \in 1 .. c.body
    BY ONLY <1>1, i \in 3 .. 2 + c.body
  <2>2. U[i] = front[i]
    BY ONLY <1>7, <2>1
  <2>3. front[i] = body[i - 2]
    BY ONLY <1>6, i \in 3 .. 2 + c.body
  <2> QED
    BY ONLY <1>3, <2>1, <2>2, <2>3
<1>10. ASSUME NEW i \in 3 + c.body .. 2 + c.body + c.data PROVE U[i] = <<k, "data">>
  <2>1. U[i] = data[i - (2 + c.body)] /\ i - (2 + c.body) \in 1 .. c.data
    BY ONLY <1>1, <1>7, i \in 3 + c.body .. 2 + c.body + c.data
  <2> QED
    BY <1>4, <2>1
<1> QED
  BY <1>7, <1>8, <1>9, <1>10 DEF DataLinkForm, U

LEMMA LineUnits ==
  ASSUME NEW sp, sp # "datalink", NEW k \in Nat, NEW c \in Command
  PROVE  LineForm(UnitsOf(sp, k, c), k, c)
<1> DEFINE U == UnitsOf(sp, k, c)
           head == <<<<k, "two">>, <<k, "text">>>>
           tail == [i \in DOMAIN c.end |-> <<k, c.end[i]>>]
<1>1. /\ c.end \in Seq({"cr", "lf"}) /\ Len(c.end) \in Nat /\ DOMAIN c.end = 1 .. Len(c.end)
      /\ \A i \in 1 .. Len(c.end) : c.end[i] \in {"cr", "lf"}
  BY DEF Command
<1>2. /\ head \in Seq(Unit) /\ Len(head) = 2
      /\ head[1] = <<k, "two">> /\ head[2] = <<k, "text">>
  BY DEF Unit
<1>3. /\ tail \in Seq(Unit) /\ Len(tail) = Len(c.end)
      /\ \A i \in 1 .. Len(c.end) : tail[i] = <<k, c.end[i]>>
  <2>1. \A i \in 1 .. Len(c.end) : <<k, c.end[i]>> \in Unit
    BY <1>1 DEF Unit
  <2> QED
    BY <1>1, <2>1
<1>4. U = head \o tail
  BY DEF UnitsOf
<1> HIDE DEF head, tail, U
<1>11. head \in Seq(Unit) /\ tail \in Seq(Unit)
  BY <1>2, <1>3
<1>12. Len(head) = 2 /\ Len(tail) = Len(c.end)
  BY <1>2, <1>3
<1>5. /\ U \in Seq(Unit) /\ Len(U) = 2 + Len(c.end)
      /\ \A i \in 1 .. 2 : U[i] = head[i]
      /\ \A i \in 3 .. 2 + Len(c.end) : U[i] = tail[i - 2]
  <2>1. /\ U \in Seq(Unit) /\ Len(U) = Len(head) + Len(tail)
        /\ \A i \in 1 .. Len(head) : U[i] = head[i]
        /\ \A i \in Len(head) + 1 .. Len(head) + Len(tail) : U[i] = tail[i - Len(head)]
    BY ONLY <1>4, <1>11, Joined
  <2> QED
    BY ONLY <1>1, <1>12, <2>1
<1>6. U[1] = <<k, "two">> /\ U[2] = <<k, "text">>
  <2>1. U[1] = head[1] /\ U[2] = head[2]
    BY ONLY <1>5
  <2> QED
    BY ONLY <1>2, <2>1
<1>7. ASSUME NEW i \in 3 .. Len(U)
      PROVE  U[i] = <<k, c.end[i - 2]>> /\ IsTerminator(U[i])
  <2>1. i - 2 \in 1 .. Len(c.end) /\ U[i] = tail[i - 2]
    BY ONLY <1>1, <1>5, i \in 3 .. Len(U)
  <2> QED
    BY <1>1, <1>3, <2>1 DEF IsTerminator
<1> QED
  BY <1>1, <1>5, <1>6, <1>7 DEF LineForm, U

LEMMA UnitsLong ==
  ASSUME NEW sp, NEW k \in Nat, NEW c \in Command, NEW U, U = UnitsOf(sp, k, c)
  PROVE  U \in Seq(Unit) /\ Len(U) \in Nat /\ Len(U) >= 2
<1>1. CASE sp = "datalink"
  <2>1. DataLinkForm(U, k, c)
    BY <1>1, DataLinkUnits
  <2> QED
    BY <2>1 DEF DataLinkForm, Command
<1>2. CASE sp # "datalink"
  <2>1. LineForm(U, k, c)
    BY <1>2, LineUnits
  <2> QED
    BY <2>1 DEF LineForm, Command
<1> QED
  BY <1>1, <1>2

-----------------------------------------------------------------------------
(* The places of the commands                                              *)

\* The units of the j-th command are at its place, and it ends where the next begins.
Fits(sp, s, F, st, j) ==
  LET U == UnitsOf(sp, j, s[j])
  IN /\ U \in Seq(Unit) /\ Len(U) \in Nat /\ Len(U) >= 2
     /\ st[j] \in Int /\ st[j + 1] = st[j] + Len(U) /\ st[j + 1] <= Len(F) + 1
     /\ \A i \in 1 .. Len(U) : st[j] + i - 1 >= 1 => F[st[j] + i - 1] = U[i]

LEMMA PlacesFit ==
  ASSUME NEW sp, NEW s \in Seq(Command), NEW F \in Seq(Unit), NEW st, Places(sp, s, F, st)
  PROVE  \A j \in 1 .. Len(s) : Fits(sp, s, F, st, j)
<1> TAKE j \in 1 .. Len(s)
<1> DEFINE U == UnitsOf(sp, j, s[j])
<1>1. Len(s) \in Nat /\ Len(F) \in Nat /\ s[j] \in Command /\ j \in Nat
  OBVIOUS
<1>2. U \in Seq(Unit) /\ Len(U) \in Nat /\ Len(U) >= 2
  BY <1>1, UnitsLong
<1>3. j \in 1 .. Len(s) + 1 /\ j + 1 \in 1 .. Len(s) + 1 /\ Len(s) + 1 \in 1 .. Len(s) + 1
      /\ j + 1 <= Len(s) + 1
  BY <1>1
<1>4. st[j] \in Int /\ st[j + 1] <= st[Len(s) + 1] /\ st[Len(s) + 1] = Len(F) + 1
  BY <1>3 DEF Places
<1>5. /\ st[j + 1] = st[j] + Len(U)
      /\ \A i \in 1 .. Len(U) : st[j] + i - 1 >= 1 => F[st[j] + i - 1] = U[i]
  BY DEF Places
<1> QED
  BY <1>2, <1>4, <1>5 DEF Fits

\* The k-th command is at place p, and behind it the next one begins.
Stands(sp, s, F, k, p) ==
  LET U == UnitsOf(sp, k, s[k])
  IN /\ p \in Int /\ U \in Seq(Unit) /\ Len(U) \in Nat /\ Len(U) >= 2
     /\ p + Len(U) <= Len(F) + 1 /\ Begins(sp, s, F, k + 1, p + Len(U))
     /\ \A i \in 1 .. Len(U) : p + i - 1 >= 1 => F[p + i - 1] = U[i]

LEMMA NextBegins ==
  ASSUME NEW sp, NEW s \in Seq(Command), NEW F \in Seq(Unit), NEW k \in 1 .. Len(s), NEW p,
         Begins(sp, s, F, k, p)
  PROVE  Stands(sp, s, F, k, p)
<1>1. PICK st : Places(sp, s, F, st) /\ st[k] = p
  BY DEF Begins
<1>2. Fits(sp, s, F, st, k)
  BY <1>1, PlacesFit
<1>3. st[k + 1] = p + Len(UnitsOf(sp, k, s[k]))
  BY <1>1, <1>2 DEF Fits
<1>4. Begins(sp, s, F, k + 1, p + Len(UnitsOf(sp, k, s[k])))
  BY <1>1, <1>3 DEF Begins
<1> QED
  BY <1>1, <1>2, <1>4 DEF Fits, Stands

\* Behind the last command nothing comes.
LEMMA LastBegins ==
  ASSUME NEW sp, NEW s \in Seq(Command), NEW F \in Seq(Unit), NEW k \in 1 .. Len(s) + 1, NEW p,
         Begins(sp, s, F, k, p)
  PROVE  p \in Int /\ p <= Len(F) + 1 /\ (k = Len(s) + 1 => p = Len(F) + 1)
<1>1. PICK st : Places(sp, s, F, st) /\ st[k] = p
  BY DEF Begins
<1>2. Len(s) + 1 \in 1 .. Len(s) + 1 /\ k <= Len(s) + 1
  OBVIOUS
<1> QED
  BY <1>1, <1>2 DEF Places

\* Units that have been consumed move the places of all others.
LEMMA Shifts ==
  ASSUME NEW sp, NEW s \in Seq(Command), NEW F \in Seq(Unit), NEW G \in Seq(Unit), NEW n \in Nat,
         Len(G) = Len(F) - n, \A i \in 1 .. Len(G) : G[i] = F[i + n],
         NEW k \in 1 .. Len(s) + 1, NEW p, Begins(sp, s, F, k, p), NEW q, q = p - n
  PROVE  Begins(sp, s, G, k, q)
<1>1. PICK st : Places(sp, s, F, st) /\ st[k] = p
  BY DEF Begins
<1> DEFINE shifted == [j \in 1 .. Len(s) + 1 |-> st[j] - n]
<1>2. /\ \A j \in 1 .. Len(s) + 1 : st[j] \in Int
      /\ \A j, l \in 1 .. Len(s) + 1 : j <= l => st[j] <= st[l]
      /\ st[Len(s) + 1] = Len(F) + 1
  BY <1>1 DEF Places
<1>3. Len(s) \in Nat /\ Len(F) \in Nat /\ Len(G) \in Nat /\ Len(s) + 1 \in 1 .. Len(s) + 1
  OBVIOUS
<1>4. /\ shifted \in [1 .. Len(s) + 1 -> Int] /\ shifted[Len(s) + 1] = Len(G) + 1
      /\ \A j, l \in 1 .. Len(s) + 1 : j <= l => shifted[j] <= shifted[l]
  BY <1>2, <1>3
<1>5. ASSUME NEW j \in 1 .. Len(s)
      PROVE  /\ shifted[j + 1] = shifted[j] + Len(UnitsOf(sp, j, s[j]))
             /\ \A i \in 1 .. Len(UnitsOf(sp, j, s[j])) :
                  shifted[j] + i - 1 >= 1 => G[shifted[j] + i - 1] = UnitsOf(sp, j, s[j])[i]
  <2> DEFINE U == UnitsOf(sp, j, s[j])
  <2>1. /\ Len(U) \in Nat /\ st[j] \in Int /\ st[j + 1] = st[j] + Len(U)
        /\ st[j + 1] <= Len(F) + 1
        /\ \A i \in 1 .. Len(U) : st[j] + i - 1 >= 1 => F[st[j] + i - 1] = U[i]
    <3>1. Fits(sp, s, F, st, j)
      BY <1>1, PlacesFit, Zenon
    <3> QED
      BY ONLY <3>1 DEF Fits, U
  <2> HIDE DEF U
  <2>2. j \in 1 .. Len(s) + 1 /\ j + 1 \in 1 .. Len(s) + 1
    BY <1>3
  <2>3. shifted[j] = st[j] - n /\ shifted[j + 1] = st[j + 1] - n
    BY <2>2
  <2>4. ASSUME NEW i \in 1 .. Len(U), shifted[j] + i - 1 >= 1
        PROVE  G[shifted[j] + i - 1] = U[i]
    <3>1. /\ shifted[j] + i - 1 \in 1 .. Len(G)
          /\ (shifted[j] + i - 1) + n = st[j] + i - 1 /\ st[j] + i - 1 >= 1
      <4>1. /\ Len(U) \in Nat /\ st[j] \in Int /\ st[j] + Len(U) <= Len(F) + 1
            /\ i \in 1 .. Len(U) /\ st[j] - n + i - 1 >= 1
        BY ONLY <2>1, <2>3, <2>4, i \in 1 .. Len(U)
      <4>2. st[j] - n + i - 1 \in 1 .. Len(G) /\ (st[j] - n + i - 1) + n = st[j] + i - 1
            /\ st[j] + i - 1 >= 1
        <5>1. st[j] \in Int /\ i \in Int /\ n \in Int /\ Len(F) \in Int /\ st[j] - n + i - 1 \in Int
          BY <1>3, <4>1
        <5>2. st[j] + i - 1 <= Len(F)
          BY ONLY <1>3, <4>1
        <5>3. (st[j] - n + i - 1) + n = st[j] + i - 1
          BY ONLY <5>1
        <5>4. st[j] - n + i - 1 <= Len(F) - n /\ st[j] + i - 1 >= 1
          BY ONLY <5>1, <5>2, <4>1, n \in Nat
        <5> QED
          BY <5>1, <5>3, <5>4, <4>1
      <4> QED
        BY ONLY <2>3, <4>2
    <3>2. G[shifted[j] + i - 1] = F[(shifted[j] + i - 1) + n]
      BY <3>1
    <3> QED
      BY <2>1, <3>1, <3>2
  <2>5. shifted[j + 1] = shifted[j] + Len(U)
    BY ONLY <2>1, <2>3, n \in Nat
  <2> QED
    BY <2>4, <2>5 DEF U
<1>6. shifted[k] = q
  BY <1>1
<1> HIDE DEF shifted
<1>7. Places(sp, s, G, shifted)
  BY <1>4, <1>5 DEF Places
<1> QED
  BY <1>6, <1>7 DEF Begins

\* A command that is added comes behind all others.
LEMMA Lengthens ==
  ASSUME NEW sp, NEW s \in Seq(Command), NEW F \in Seq(Unit), NEW c \in Command,
         NEW k \in 1 .. Len(s) + 1, NEW p, Begins(sp, s, F, k, p)
  PROVE  Begins(sp, Append(s, c), F \o UnitsOf(sp, Len(s) + 1, c), k, p)
<1> DEFINE t == Append(s, c)
           V == UnitsOf(sp, Len(s) + 1, c)
           G == F \o V
<1>1. PICK st : Places(sp, s, F, st) /\ st[k] = p
  BY DEF Begins
<1>2. /\ Len(s) \in Nat /\ Len(F) \in Nat /\ Len(t) = Len(s) + 1 /\ t[Len(s) + 1] = c
      /\ \A j \in 1 .. Len(s) : t[j] = s[j]
  OBVIOUS
<1>3. V \in Seq(Unit) /\ Len(V) \in Nat
  BY <1>2, UnitsLong
<1>10. t \in Seq(Command) /\ G = F \o V
  OBVIOUS
<1>11. V = UnitsOf(sp, Len(s) + 1, c)
  OBVIOUS
<1> HIDE DEF t, V, G
<1>4. /\ Len(G) = Len(F) + Len(V)
      /\ \A i \in 1 .. Len(F) : G[i] = F[i]
      /\ \A i \in Len(F) + 1 .. Len(F) + Len(V) : G[i] = V[i - Len(F)]
  BY <1>3, <1>10, Joined
<1>5. /\ \A j \in 1 .. Len(s) + 1 : st[j] \in Int
      /\ \A j, l \in 1 .. Len(s) + 1 : j <= l => st[j] <= st[l]
      /\ st[Len(s) + 1] = Len(F) + 1
  BY <1>1 DEF Places
<1> DEFINE more == [j \in 1 .. Len(t) + 1 |-> IF j <= Len(s) + 1 THEN st[j] ELSE Len(G) + 1]
<1>6. /\ \A j \in 1 .. Len(s) + 1 : more[j] = st[j]
      /\ more[Len(t) + 1] = Len(G) + 1 /\ Len(G) \in Nat
      /\ more \in [1 .. Len(t) + 1 -> Int]
  BY <1>2, <1>3, <1>4, <1>5
<1> HIDE DEF more
<1>7. \A j, l \in 1 .. Len(t) + 1 : j <= l => more[j] <= more[l]
  <2> SUFFICES ASSUME NEW j \in 1 .. Len(t) + 1, NEW l \in 1 .. Len(t) + 1, j <= l
               PROVE  more[j] <= more[l]
    OBVIOUS
  <2>1. CASE l \in 1 .. Len(s) + 1
    <3>1. j \in 1 .. Len(s) + 1
      BY <1>2, <2>1
    <3> QED
      BY <1>5, <1>6, <2>1, <3>1
  <2>2. CASE l = Len(t) + 1 /\ j \in 1 .. Len(s) + 1
    <3>0. Len(s) + 1 \in 1 .. Len(s) + 1 /\ j <= Len(s) + 1
      BY ONLY <1>2, <2>2
    <3>1. more[j] <= Len(F) + 1 /\ more[j] \in Int
      BY ONLY <1>5, <1>6, <2>2, <3>0
    <3> QED
      BY <1>2, <1>3, <1>4, <1>6, <2>2, <3>1
  <2>3. CASE l = Len(t) + 1 /\ j = Len(t) + 1
    BY <1>6, <2>3
  <2> QED
    BY <1>2, <2>1, <2>2, <2>3
<1>8. ASSUME NEW j \in 1 .. Len(t)
      PROVE  /\ more[j + 1] = more[j] + Len(UnitsOf(sp, j, t[j]))
             /\ \A i \in 1 .. Len(UnitsOf(sp, j, t[j])) :
                  more[j] + i - 1 >= 1 => G[more[j] + i - 1] = UnitsOf(sp, j, t[j])[i]
  <2>1. CASE j \in 1 .. Len(s)
    <3> DEFINE U == UnitsOf(sp, j, s[j])
    <3>1. /\ Len(U) \in Nat /\ st[j] \in Int /\ st[j + 1] = st[j] + Len(U)
          /\ st[j + 1] <= Len(F) + 1
          /\ \A i \in 1 .. Len(U) : st[j] + i - 1 >= 1 => F[st[j] + i - 1] = U[i]
      <4>1. Fits(sp, s, F, st, j)
        BY <1>1, <2>1, PlacesFit, Zenon
      <4> QED
        BY ONLY <4>1 DEF Fits, U
    <3>2. UnitsOf(sp, j, t[j]) = U
      BY <1>2, <2>1
    <3> HIDE DEF U
    <3>5. j \in 1 .. Len(s) + 1 /\ j + 1 \in 1 .. Len(s) + 1
      BY ONLY <1>2, <2>1
    <3>3. more[j] = st[j] /\ more[j + 1] = st[j + 1]
      BY ONLY <1>6, <3>5
    <3>4. ASSUME NEW i \in 1 .. Len(U), st[j] + i - 1 >= 1
          PROVE  G[st[j] + i - 1] = U[i]
      <4>1. st[j] + i - 1 \in 1 .. Len(F)
        BY <1>2, <3>1, <3>4
      <4> QED
        BY <1>4, <3>1, <3>4, <4>1
    <3> QED
      BY <3>1, <3>2, <3>3, <3>4
  <2>2. CASE j = Len(s) + 1
    <3>1. UnitsOf(sp, j, t[j]) = V
      BY <1>2, <1>11, <2>2
    <3>2. more[j] = Len(F) + 1 /\ more[j + 1] = Len(F) + Len(V) + 1
      BY <1>2, <1>4, <1>5, <1>6, <2>2
    <3>3. ASSUME NEW i \in 1 .. Len(V) PROVE G[(Len(F) + 1) + i - 1] = V[i]
      <4>1. (Len(F) + 1) + i - 1 = Len(F) + i /\ Len(F) + i \in Len(F) + 1 .. Len(F) + Len(V)
            /\ (Len(F) + i) - Len(F) = i
        BY <1>2, <1>3
      <4> QED
        BY <1>4, <4>1
    <3>4. Len(F) + Len(V) + 1 = (Len(F) + 1) + Len(V)
      BY ONLY <1>2, <1>3
    <3>5. ASSUME NEW i \in 1 .. Len(V) PROVE G[more[j] + i - 1] = V[i]
      BY ONLY <3>2, <3>3, i \in 1 .. Len(V)
    <3>6. more[j + 1] = more[j] + Len(V)
      BY ONLY <3>2, <3>4
    <3> QED
      BY ONLY <3>1, <3>5, <3>6
  <2>3. j \in 1 .. Len(s) \/ j = Len(s) + 1
    BY ONLY <1>2, j \in 1 .. Len(t)
  <2> QED
    BY ONLY <2>1, <2>2, <2>3
<1>9. Places(sp, t, G, more)
  BY <1>6, <1>7, <1>8 DEF Places
<1>12. Begins(sp, t, G, k, p)
  BY <1>1, <1>6, <1>9 DEF Begins
<1> QED
  BY <1>12 DEF t, V, G

-----------------------------------------------------------------------------
(* The buffer, the wire and the rest                                       *)

\* Three sequences one behind the other.
Chained(F, b, w, r) ==
  /\ F \in Seq(Unit) /\ Len(F) = Len(b) + Len(w) + Len(r)
  /\ Len(b) \in Nat /\ Len(w) \in Nat /\ Len(r) \in Nat
  /\ \A i \in 1 .. Len(b) : F[i] = b[i]
  /\ \A i \in Len(b) + 1 .. Len(b) + Len(w) : F[i] = w[i - Len(b)]
  /\ \A i \in Len(b) + Len(w) + 1 .. Len(F) : F[i] = r[i - (Len(b) + Len(w))]

LEMMA Chains ==
  ASSUME NEW b \in Seq(Unit), NEW w \in Seq(Unit), NEW r \in Seq(Unit)
  PROVE  Chained(b \o w \o r, b, w, r)
<1> DEFINE bw == b \o w
           F  == bw \o r
<1>1. /\ bw \in Seq(Unit) /\ Len(bw) = Len(b) + Len(w) /\ Len(b) \in Nat /\ Len(w) \in Nat
      /\ \A i \in 1 .. Len(b) : bw[i] = b[i]
      /\ \A i \in Len(b) + 1 .. Len(b) + Len(w) : bw[i] = w[i - Len(b)]
  BY Joined
<1>2. bw \in Seq(Unit)
  BY ONLY <1>1
<1> HIDE DEF bw
<1>3. /\ F \in Seq(Unit) /\ Len(F) = Len(bw) + Len(r) /\ Len(r) \in Nat
      /\ \A i \in 1 .. Len(bw) : F[i] = bw[i]
      /\ \A i \in Len(bw) + 1 .. Len(bw) + Len(r) : F[i] = r[i - Len(bw)]
  BY ONLY <1>2, r \in Seq(Unit), Joined
<1> HIDE DEF F
<1>4. \A i \in 1 .. Len(b) : F[i] = b[i]
  BY ONLY <1>1, <1>3
<1>5. \A i \in Len(b) + 1 .. Len(b) + Len(w) : F[i] = w[i - Len(b)]
  BY ONLY <1>1, <1>3
<1>6. /\ Len(F) = Len(b) + Len(w) + Len(r)
      /\ \A i \in Len(b) + Len(w) + 1 .. Len(F) : F[i] = r[i - (Len(b) + Len(w))]
  BY ONLY <1>1, <1>3
<1>7. Chained(F, b, w, r)
  BY <1>1, <1>3, <1>4, <1>5, <1>6 DEF Chained
<1> QED
  BY <1>7 DEF F, bw

\* What Receive moves from the wire to the buffer stays where it is.
Moved(b, w, r, b2, w2, n) ==
  /\ b2 \in Seq(Unit) /\ w2 \in Seq(Unit)
  /\ Len(b2) = Len(b) + n /\ Len(w2) = Len(w) - n
  /\ b2 \o w2 \o r = b \o w \o r

LEMMA Receives ==
  ASSUME NEW b \in Seq(Unit), NEW w \in Seq(Unit), NEW r \in Seq(Unit), NEW n \in 0 .. Len(w)
  PROVE  Moved(b, w, r, b \o SubSeq(w, 1, n), SubSeq(w, n + 1, Len(w)), n)
<1> DEFINE a  == SubSeq(w, 1, n)
           w2 == SubSeq(w, n + 1, Len(w))
<1>1. /\ a \in Seq(Unit) /\ Len(a) = n /\ w2 \in Seq(Unit) /\ Len(w2) = Len(w) - n
      /\ \A i \in 1 .. n : a[i] = w[i]
      /\ \A i \in 1 .. Len(w) - n : w2[i] = w[i + n]
  OBVIOUS
<1>2. a \in Seq(Unit) /\ w2 \in Seq(Unit)
  BY ONLY <1>1
<1> HIDE DEF a, w2
<1>3. a \o w2 = w
  <2>1. /\ a \o w2 \in Seq(Unit) /\ Len(a \o w2) = Len(a) + Len(w2) /\ Len(a) \in Nat /\ Len(w2) \in Nat
        /\ \A i \in 1 .. Len(a) : (a \o w2)[i] = a[i]
        /\ \A i \in Len(a) + 1 .. Len(a) + Len(w2) : (a \o w2)[i] = w2[i - Len(a)]
    BY ONLY <1>2, Joined
  <2>2. Len(w) \in Nat
    OBVIOUS
  <2>3. Len(a \o w2) = Len(w)
    BY ONLY <1>1, <2>1, <2>2, n \in 0 .. Len(w)
  <2>4. ASSUME NEW i \in 1 .. Len(w) PROVE (a \o w2)[i] = w[i]
    <3>1. CASE i \in 1 .. n
      BY ONLY <1>1, <2>1, <3>1
    <3>2. CASE i \notin 1 .. n
      <4>1. i - n \in 1 .. Len(w) - n /\ (i - n) + n = i /\ i \in n + 1 .. n + (Len(w) - n)
        BY ONLY <2>2, <3>2, i \in 1 .. Len(w), n \in 0 .. Len(w)
      <4>2. (a \o w2)[i] = w2[i - n]
        BY ONLY <1>1, <2>1, <4>1
      <4> QED
        BY ONLY <1>1, <4>1, <4>2
    <3> QED
      BY ONLY <3>1, <3>2
  <2> QED
    BY <2>1, <2>3, <2>4, SeqEqual
<1>4. (b \o a) \o w2 = b \o w
  <2>1. (b \o a) \o w2 = b \o (a \o w2)
    BY ONLY <1>2, b \in Seq(Unit), ConcatAssociative
  <2> QED
    BY ONLY <1>3, <2>1
<1>5. b \o a \in Seq(Unit) /\ Len(b \o a) = Len(b) + n
  BY <1>1, Joined
<1> QED
  BY <1>1, <1>4, <1>5 DEF Moved, a, w2

\* What is consumed from the buffer.
Dropped(F, b, w, r, n, b2) ==
  /\ b2 \in Seq(Unit) /\ Len(b2) = Len(b) - n
  /\ \A i \in 1 .. Len(b2) : b2[i] = b[i + n]
  /\ b2 \o w \o r \in Seq(Unit) /\ Len(b2 \o w \o r) = Len(F) - n
  /\ \A i \in 1 .. Len(F) - n : (b2 \o w \o r)[i] = F[i + n]

LEMMA Drops ==
  ASSUME NEW b \in Seq(Unit), NEW w \in Seq(Unit), NEW r \in Seq(Unit), NEW n \in 0 .. Len(b)
  PROVE  Dropped(b \o w \o r, b, w, r, n, SubSeq(b, n + 1, Len(b)))
<1> DEFINE b2 == SubSeq(b, n + 1, Len(b))
           F  == b \o w \o r
           G  == b2 \o w \o r
<1>1. /\ b2 \in Seq(Unit) /\ Len(b2) = Len(b) - n
      /\ \A i \in 1 .. Len(b2) : b2[i] = b[i + n]
  OBVIOUS
<1>2. b2 \in Seq(Unit)
  BY ONLY <1>1
<1>3. Chained(F, b, w, r)
  BY Chains
<1> HIDE DEF b2
<1>4. Chained(G, b2, w, r)
  BY <1>2, Chains
<1> HIDE DEF F, G
<1>5. /\ Len(b) \in Nat /\ Len(w) \in Nat /\ Len(r) \in Nat /\ n \in Nat /\ n <= Len(b)
      /\ Len(F) = Len(b) + Len(w) + Len(r) /\ Len(G) = Len(b) - n + Len(w) + Len(r)
  BY <1>1, <1>3, <1>4 DEF Chained
<1>6. G \in Seq(Unit) /\ Len(G) = Len(F) - n
  <2>1. G \in Seq(Unit)
    BY <1>4 DEF Chained
  <2> QED
    BY ONLY <1>5, <2>1
<1>7. ASSUME NEW i \in 1 .. Len(F) - n PROVE G[i] = F[i + n]
  <2>0. i \in Nat /\ i >= 1 /\ i <= Len(F) - n
    BY <1>5
  <2>1. CASE i <= Len(b) - n
    <3>1. i \in 1 .. Len(b2) /\ i + n \in 1 .. Len(b)
      BY ONLY <1>1, <1>5, <2>0, <2>1
    <3>2. G[i] = b2[i] /\ F[i + n] = b[i + n]
      BY ONLY <1>3, <1>4, <3>1 DEF Chained
    <3> QED
      BY ONLY <1>1, <3>1, <3>2
  <2>2. CASE i > Len(b) - n /\ i <= Len(b) - n + Len(w)
    <3>1. /\ i \in Len(b2) + 1 .. Len(b2) + Len(w) /\ i + n \in Len(b) + 1 .. Len(b) + Len(w)
          /\ i - Len(b2) = (i + n) - Len(b)
      BY ONLY <1>1, <1>5, <2>0, <2>2
    <3>2. G[i] = w[i - Len(b2)] /\ F[i + n] = w[(i + n) - Len(b)]
      BY ONLY <1>3, <1>4, <3>1 DEF Chained
    <3> QED
      BY ONLY <3>1, <3>2
  <2>3. CASE i > Len(b) - n + Len(w)
    <3>1. /\ i \in Len(b2) + Len(w) + 1 .. Len(G) /\ i + n \in Len(b) + Len(w) + 1 .. Len(F)
          /\ i - (Len(b2) + Len(w)) = (i + n) - (Len(b) + Len(w))
      BY ONLY <1>1, <1>5, <2>0, <2>3
    <3>2. G[i] = r[i - (Len(b2) + Len(w))] /\ F[i + n] = r[(i + n) - (Len(b) + Len(w))]
      BY ONLY <1>3, <1>4, <3>1 DEF Chained
    <3> QED
      BY ONLY <3>1, <3>2
  <2> QED
    BY ONLY <1>5, <2>0, <2>1, <2>2, <2>3
<1> QED
  BY <1>1, <1>6, <1>7 DEF Dropped, b2, F, G

-----------------------------------------------------------------------------
(* The initial states                                                      *)

LEMMA InitHolds ==
  ASSUME Init
  PROVE  SessionInv
<1>1. /\ peer \in [port : Ports, speaks : UNION Ports, opensLikeDL : BOOLEAN, reads : BOOLEAN, gone : {FALSE}]
      /\ peer.speaks \in peer.port
      /\ peer.speaks = "datalink" => peer.opensLikeDL
      /\ peer.speaks = "http" => ~peer.opensLikeDL
  BY Zenon DEF Init
<1>2. /\ sent = <<>> /\ rest = <<>> /\ wire = <<>> /\ ahead = FALSE
      /\ type = "undetermined" /\ buffer = <<>> /\ writing = NoWrite
      /\ dlcommand = Repeat(Nul, MaxBody + 1)
      /\ closed = "no" /\ handled = <<>>
  BY DEF Init
<1>3. UNION Ports \subseteq Speaks
  BY SessionAssumption DEF SessionAssumption, Speaks
<1>4. Nul \in Unit /\ NoWrite \in Got /\ MaxBody + 1 \in Nat
  BY MaxBodyBounds DEF Nul, Unit, NoWrite, Got
<1>5. dlcommand \in Seq(Unit) /\ Len(dlcommand) = MaxBody + 1
  BY ONLY <1>2, <1>4, RepeatFacts
<1>6. dlcommand \in [1 .. MaxBody + 1 -> Unit]
  BY <1>4, <1>5
<1>7. Types
  <2>1. peer \in [port : Ports, speaks : Speaks, opensLikeDL : BOOLEAN, reads : BOOLEAN, gone : BOOLEAN]
    BY <1>1, <1>3
  <2>2. /\ sent \in Seq(Command) /\ DOMAIN sent = {}
        /\ rest \in Seq(Unit) /\ wire \in Seq(Unit) /\ buffer \in Seq(Unit) /\ handled \in Seq(Got)
    BY ONLY <1>2
  <2>3. writing \in Got /\ ahead \in BOOLEAN
    BY ONLY <1>2, <1>4
  <2> QED
    BY ONLY <1>1, <1>6, <2>1, <2>2, <2>3, Zenon DEF Types
<1>8. TypeOK
  BY <1>2, <1>5, SessionAssumption DEF TypeOK, SessionAssumption, Reasons
<1>9. Framed
  <2>1. Stream = <<>> /\ Len(Stream) = 0
    BY <1>2 DEF Stream
  <2> DEFINE st == [j \in 1 .. 1 |-> 1]
  <2>2. Places(peer.speaks, sent, Stream, st)
    BY <1>2, <2>1 DEF Places
  <2>3. Begins(peer.speaks, sent, Stream, 1, 1)
    BY <2>2 DEF Begins
  <2>4. NextAt(1)
    BY <1>2 DEF NextAt, Line
  <2> QED
    BY <1>2, <2>3, <2>4 DEF Framed
<1>10. Guessed /\ WritingOK
  BY <1>2 DEF Guessed, Line, WritingOK
<1>11. Waiting /\ CommandsInOrder /\ FinLosesNothing
  BY <1>2 DEF Waiting, CommandsInOrder, FinLosesNothing
<1> QED
  BY <1>7, <1>8, <1>9, <1>10, <1>11 DEF SessionInv

-----------------------------------------------------------------------------
(* The client                                                              *)

LEMMA BeginHolds ==
  ASSUME SessionInv, BeginCommand
  PROVE  SessionInv'
<1> USE DEF SessionInv
<1>1. PICK c \in PossibleCommands : sent' = Append(sent, c) /\ rest' = Units(Len(sent) + 1, c)
  BY DEF BeginCommand
<1>2. /\ ~peer.gone /\ rest = <<>> /\ Len(sent) < MaxCommands
      /\ ahead' = (ahead \/ (peer.speaks = "datalink" /\ Len(handled) < Len(sent)))
      /\ peer' = peer /\ wire' = wire /\ type' = type /\ buffer' = buffer
      /\ dlcommand' = dlcommand /\ writing' = writing /\ closed' = closed /\ handled' = handled
  BY DEF BeginCommand
<1>3. /\ c \in Command
      /\ IF peer.speaks = "datalink" THEN c.body \in BodyLengths ELSE c.end # <<>> /\ c.data = 0
  <2>1. CASE peer.speaks = "datalink"
    <3>1. c \in [body : BodyLengths, data : DataLengths, end : {<<>>}]
      BY <2>1 DEF PossibleCommands
    <3>2. c.body \in BodyLengths /\ c.body \in Nat \ {0} /\ c.data \in Nat /\ c.end = <<>>
      BY <3>1, SessionAssumption DEF SessionAssumption
    <3>3. c = [body |-> c.body, data |-> c.data, end |-> c.end]
      BY <3>1
    <3>4. c.end \in Seq({"cr", "lf"})
      BY ONLY <3>2
    <3>5. c \in Command
      BY ONLY <3>2, <3>3, <3>4 DEF Command
    <3> QED
      BY <2>1, <3>2, <3>5
  <2>2. CASE peer.speaks # "datalink"
    <3>1. c \in [body : {2}, data : {0}, end : Terminations]
      BY <2>2 DEF PossibleCommands
    <3>2. c.body = 2 /\ c.data = 0 /\ c.end \in Seq({"cr", "lf"}) \ {<<>>}
      BY <3>1, SessionAssumption DEF SessionAssumption
    <3>3. c = [body |-> c.body, data |-> c.data, end |-> c.end]
      BY <3>1
    <3>5. c \in Command
      BY ONLY <3>2, <3>3 DEF Command
    <3> QED
      BY <2>2, <3>2, <3>5
  <2> QED
    BY <2>1, <2>2
<1> DEFINE V == UnitsOf(peer.speaks, Len(sent) + 1, c)
<1>4. /\ sent \in Seq(Command) /\ wire \in Seq(Unit) /\ buffer \in Seq(Unit) /\ writing \in Got
      /\ handled \in Seq(Got)
  BY DEF Types
<1>5. /\ Len(sent) \in Nat /\ Len(sent') = Len(sent) + 1 /\ sent'[Len(sent) + 1] = c
      /\ sent' \in Seq(Command) /\ \A j \in 1 .. Len(sent) : sent'[j] = sent[j]
  BY <1>1, <1>3, <1>4
<1>6. rest' = V /\ V \in Seq(Unit) /\ Len(V) \in Nat
  BY <1>1, <1>3, <1>5, UnitsAreOf, UnitsLong
<1> HIDE DEF V
<1>7. Types'
  <2>1. ASSUME NEW k \in DOMAIN sent'
        PROVE  IF peer.speaks = "datalink" THEN sent'[k].body \in BodyLengths
                                           ELSE sent'[k].end # <<>> /\ sent'[k].data = 0
    <3>1. k \in 1 .. Len(sent) \/ k = Len(sent) + 1
      BY <1>5
    <3>2. CASE k \in 1 .. Len(sent)
      <4>1. k \in DOMAIN sent /\ sent'[k] = sent[k]
        BY <1>4, <1>5, <3>2
      <4> QED
        BY <4>1 DEF Types
    <3> QED
      BY <1>3, <1>5, <3>1, <3>2
  <2>2. ahead' \in BOOLEAN
    BY <1>2
  <2> QED
    BY <1>2, <1>5, <1>6, <2>1, <2>2 DEF Types
<1>8. writing # NoWrite => writing.cmd \in 1 .. Len(sent)
  BY <1>4, <1>5 DEF WritingOK, Got
<1>9. TypeOK'
  BY <1>2, <1>4, <1>5, <1>8, SessionAssumption DEF TypeOK, SessionAssumption
<1>10. Stream \in Seq(Unit) /\ Stream' = Stream \o V
  <2>1. buffer \o wire \in Seq(Unit)
    BY <1>4
  <2>2. Stream = buffer \o wire
    BY <1>2, <2>1, ConcatEmptySeq DEF Stream
  <2> QED
    BY <1>2, <1>6, <2>1, <2>2 DEF Stream
<1>11. Framed'
  <2> SUFFICES ASSUME closed = "no" PROVE Framed'
    BY <1>2 DEF Framed
  <2>1. Len(handled) \in Nat /\ Len(handled) <= Len(sent)
    BY <1>4 DEF Framed
  <2>2. PICK p \in Int : Begins(peer.speaks, sent, Stream, Len(handled) + 1, p) /\ NextAt(p)
    BY DEF Framed
  <2>3. Len(handled) + 1 \in 1 .. Len(sent) + 1
    BY <1>5, <2>1
  <2>4. Begins(peer.speaks, sent', Stream', Len(handled) + 1, p)
    <3>1. V = UnitsOf(peer.speaks, Len(sent) + 1, c)
      BY DEF V
    <3>2. /\ c \in Command /\ sent \in Seq(Command) /\ sent' = Append(sent, c)
          /\ Stream \in Seq(Unit) /\ Stream' = Stream \o V
          /\ Begins(peer.speaks, sent, Stream, Len(handled) + 1, p)
      BY <1>1, <1>3, <1>4, <1>10, <2>2
    <3> QED
      BY ONLY <1>5, <2>3, <3>1, <3>2, Lengthens
  <2>5. p <= Len(Stream) + 1
    BY <1>4, <1>10, <2>2, <2>3, LastBegins
  <2>6. ASSUME NEW i \in 1 .. p - 1 PROVE Stream'[i] = Stream[i]
    <3>1. i \in 1 .. Len(Stream)
      BY <1>10, <2>5
    <3> QED
      BY <1>6, <1>10, <3>1
  <2>7. NextAt(p)'
    BY <1>2, <1>5, <1>8, <2>2, <2>6 DEF NextAt, Line, NoWrite
  <2> QED
    BY <1>2, <1>5, <2>1, <2>4, <2>7 DEF Framed
<1>12. Guessed' /\ WritingOK'
  <2>1. Guessed'
    BY <1>2 DEF Guessed, Line, Misread
  <2>2. writing # NoWrite => Body(writing.cmd)' = Body(writing.cmd)
    BY <1>2, <1>5, <1>8 DEF Body
  <2>3. WritingOK'
    BY <1>2, <1>4, <1>5, <1>8, <2>2 DEF WritingOK
  <2> QED
    BY <2>1, <2>3
<1>13. Waiting'
  <2>1. peer.speaks = "datalink" /\ ~ahead' =>
          ~ahead /\ Len(handled) \in Nat /\ Len(sent) <= Len(handled)
    <3>1. peer.speaks = "datalink" /\ ~ahead' => ~ahead /\ ~(Len(handled) < Len(sent))
      BY ONLY <1>2, Zenon
    <3>2. Len(handled) \in Nat
      BY <1>4
    <3> QED
      BY ONLY <1>5, <3>1, <3>2
  <2>2. ASSUME peer.speaks = "datalink", ~ahead', closed = "no", writing = NoWrite, Len(sent) = Len(handled)
        PROVE  Len(buffer) = 0
    <3>1. PICK p \in Int : Begins(peer.speaks, sent, Stream, Len(handled) + 1, p) /\ NextAt(p)
      BY <2>2 DEF Framed
    <3>2. p = 1
      BY <2>2, <3>1 DEF NextAt, Guessed
    <3>3. p = Len(Stream) + 1
      <4>1. Len(handled) + 1 \in 1 .. Len(sent) + 1
        BY <1>5, <2>2
      <4>2. sent \in Seq(Command) /\ Stream \in Seq(Unit) /\ Begins(peer.speaks, sent, Stream, Len(handled) + 1, p)
        BY <1>4, <1>10, <3>1
      <4>3. Len(handled) + 1 = Len(sent) + 1 => p = Len(Stream) + 1
        BY ONLY <4>1, <4>2, LastBegins
      <4> QED
        BY ONLY <2>2, <4>3
    <3>4. Chained(Stream, buffer, wire, rest)
      BY <1>4, Chains DEF Stream, Types
    <3> QED
      BY <3>2, <3>3, <3>4 DEF Chained
  <2>3. rest' # <<>> => /\ Len(sent') >= 1
                        /\ Len(rest') <= Len(UnitsOf(peer.speaks, Len(sent'), sent'[Len(sent')]))
    BY <1>5, <1>6 DEF V
  <2>4. ASSUME peer.speaks = "datalink", ~ahead'
        PROVE  /\ Len(sent') <= Len(handled) + 1
               /\ closed = "no" /\ writing = NoWrite /\ Len(sent') = Len(handled) + 1 =>
                    Len(buffer) < 2 + sent'[Len(sent')].body
    <3>1. Len(sent') <= Len(handled) + 1 /\ Len(handled) \in Nat
      BY <1>5, <2>1, <2>4
    <3>2. ASSUME closed = "no", writing = NoWrite, Len(sent') = Len(handled) + 1
          PROVE  Len(buffer) < 2 + sent'[Len(sent')].body
      <4>1. Len(buffer) = 0
        BY <1>5, <2>2, <2>4, <3>1, <3>2
      <4>2. sent'[Len(sent')].body \in Nat
        BY <1>3, <1>5 DEF Command
      <4> QED
        BY <4>1, <4>2
    <3> QED
      BY <3>1, <3>2
  <2> QED
    BY <1>2, <2>3, <2>4 DEF Waiting
<1>14. CommandsInOrder'
  <2>1. ASSUME NEW i \in DOMAIN handled PROVE sent'[i] = sent[i]
    <3>1. Len(handled) <= Len(sent) /\ i \in 1 .. Len(handled) /\ Len(handled) \in Nat
      BY <1>4 DEF TypeOK
    <3> QED
      BY <1>5, <3>1
  <2>2. \A i \in DOMAIN handled : Body(i)' = Body(i) /\ Data(i)' = Data(i)
    BY <1>2, <2>1 DEF Body, Data
  <2> QED
    BY <1>2, <2>2 DEF CommandsInOrder, Misread
<1>15. FinLosesNothing'
  BY <1>2 DEF FinLosesNothing, Waiting
<1> QED
  BY <1>7, <1>9, <1>11, <1>12, <1>13, <1>14, <1>15

\* What is left alone by a step that takes nothing from the stream.
LEMMA FramedKept ==
  ASSUME Framed, peer'.speaks = peer.speaks, sent' = sent, Stream' = Stream, handled' = handled,
         writing' = writing, type' = type, closed' = "no" => closed = "no"
  PROVE  Framed'
<1> SUFFICES ASSUME closed' = "no" PROVE Framed'
  BY DEF Framed
<1>1. PICK p \in Int : Begins(peer.speaks, sent, Stream, Len(handled) + 1, p) /\ NextAt(p)
  BY DEF Framed
<1>2. NextAt(p)'
  BY <1>1 DEF NextAt, Line, NoWrite
<1>3. Begins(peer'.speaks, sent', Stream', Len(handled') + 1, p)
  BY <1>1
<1>4. Len(handled') <= Len(sent')
  BY DEF Framed
<1> QED
  BY <1>2, <1>3, <1>4 DEF Framed

LEMMA OrderKept ==
  ASSUME CommandsInOrder, peer'.speaks = peer.speaks, sent' = sent, handled' = handled, type' = type,
         closed' = "framing" => closed = "framing" \/ Misread
  PROVE  CommandsInOrder'
<1>1. \A i : Body(i)' = Body(i) /\ Data(i)' = Data(i)
  BY DEF Body, Data
<1>2. Misread' = Misread
  BY DEF Misread
<1> QED
  BY <1>1, <1>2 DEF CommandsInOrder

LEMMA WritingKept ==
  ASSUME WritingOK, peer'.speaks = peer.speaks, sent' = sent, handled' = handled, writing' = writing,
         writing # NoWrite => buffer' = <<>>
  PROVE  WritingOK'
<1>1. \A i : Body(i)' = Body(i)
  BY DEF Body
<1> QED
  BY <1>1 DEF WritingOK

\* A unit that arrives stays where it is.
HeadMoved(b, w, r) ==
  /\ Append(w, Head(r)) \in Seq(Unit) /\ Tail(r) \in Seq(Unit) /\ Len(Tail(r)) <= Len(r)
  /\ b \o Append(w, Head(r)) \o Tail(r) = b \o w \o r

LEMMA Arrives ==
  ASSUME NEW b \in Seq(Unit), NEW w \in Seq(Unit), NEW r \in Seq(Unit), r # <<>>
  PROVE  HeadMoved(b, w, r)
<1> DEFINE w2 == Append(w, Head(r))
           r2 == Tail(r)
<1>1. /\ w2 \in Seq(Unit) /\ Len(w2) = Len(w) + 1 /\ w2[Len(w) + 1] = r[1]
      /\ \A i \in 1 .. Len(w) : w2[i] = w[i]
  OBVIOUS
<1>2. /\ r2 \in Seq(Unit) /\ Len(r2) = Len(r) - 1 /\ Len(r) >= 1
      /\ \A i \in 1 .. Len(r) - 1 : r2[i] = r[i + 1]
  BY HeadTailProperties
<1>3. w2 \in Seq(Unit) /\ r2 \in Seq(Unit) /\ Len(w) \in Nat /\ Len(r) \in Nat
  BY <1>1, <1>2
<1> HIDE DEF w2, r2
<1>4. w2 \o r2 = w \o r
  <2>1. /\ w2 \o r2 \in Seq(Unit) /\ Len(w2 \o r2) = Len(w2) + Len(r2)
        /\ \A i \in 1 .. Len(w2) : (w2 \o r2)[i] = w2[i]
        /\ \A i \in Len(w2) + 1 .. Len(w2) + Len(r2) : (w2 \o r2)[i] = r2[i - Len(w2)]
    BY ONLY <1>3, Joined
  <2>2. /\ w \o r \in Seq(Unit) /\ Len(w \o r) = Len(w) + Len(r)
        /\ \A i \in 1 .. Len(w) : (w \o r)[i] = w[i]
        /\ \A i \in Len(w) + 1 .. Len(w) + Len(r) : (w \o r)[i] = r[i - Len(w)]
    BY ONLY w \in Seq(Unit), r \in Seq(Unit), Joined
  <2>3. Len(w2 \o r2) = Len(w \o r)
    BY ONLY <1>1, <1>2, <1>3, <2>1, <2>2
  <2>4. ASSUME NEW i \in 1 .. Len(w2 \o r2) PROVE (w2 \o r2)[i] = (w \o r)[i]
    <3>0. i \in Nat /\ i >= 1 /\ i <= Len(w) + Len(r)
      BY ONLY <1>3, <2>2, <2>3, i \in 1 .. Len(w2 \o r2)
    <3>1. CASE i <= Len(w)
      <4>1. i \in 1 .. Len(w) /\ i \in 1 .. Len(w2)
        BY ONLY <1>1, <1>3, <3>0, <3>1
      <4> QED
        BY ONLY <1>1, <2>1, <2>2, <4>1
    <3>2. CASE i = Len(w) + 1
      <4>1. i \in 1 .. Len(w2) /\ i \in Len(w) + 1 .. Len(w) + Len(r) /\ i - Len(w) = 1
        BY ONLY <1>1, <1>2, <1>3, <3>0, <3>2
      <4>2. (w \o r)[i] = r[1] /\ (w2 \o r2)[i] = w2[i]
        BY ONLY <2>1, <2>2, <4>1
      <4> QED
        BY ONLY <1>1, <3>2, <4>2
    <3>3. CASE i > Len(w) + 1
      <4>1. /\ i \in Len(w2) + 1 .. Len(w2) + Len(r2) /\ i \in Len(w) + 1 .. Len(w) + Len(r)
            /\ i - Len(w2) \in 1 .. Len(r) - 1 /\ (i - Len(w2)) + 1 = i - Len(w)
        BY ONLY <1>1, <1>2, <1>3, <3>0, <3>3
      <4>2. (w2 \o r2)[i] = r2[i - Len(w2)] /\ (w \o r)[i] = r[i - Len(w)]
        BY ONLY <2>1, <2>2, <4>1
      <4> QED
        BY ONLY <1>2, <4>1, <4>2
    <3>4. i <= Len(w) \/ i = Len(w) + 1 \/ i > Len(w) + 1
      BY ONLY <1>3, <3>0
    <3> QED
      BY ONLY <3>1, <3>2, <3>3, <3>4, Zenon
  <2> DEFINE x == w2 \o r2
             y == w \o r
  <2>5. x \in Seq(Unit) /\ y \in Seq(Unit) /\ Len(x) = Len(y) /\ \A i \in 1 .. Len(x) : x[i] = y[i]
    BY ONLY <2>1, <2>2, <2>3, <2>4
  <2> HIDE DEF x, y
  <2>6. x = y
    BY ONLY <2>5, SeqEqual
  <2> QED
    BY ONLY <2>6 DEF x, y
<1>5. (b \o w2) \o r2 = b \o (w2 \o r2)
  BY ONLY <1>3, b \in Seq(Unit), ConcatAssociative
<1>6. (b \o w) \o r = b \o (w \o r)
  BY ConcatAssociative
<1>7. Len(r2) <= Len(r)
  BY ONLY <1>2, <1>3
<1> QED
  BY ONLY <1>3, <1>4, <1>5, <1>6, <1>7 DEF w2, r2, HeadMoved

LEMMA ArriveHolds ==
  ASSUME SessionInv, Arrive
  PROVE  SessionInv'
<1> USE DEF SessionInv
<1>1. /\ ~peer.gone /\ rest # <<>>
      /\ wire' = Append(wire, Head(rest)) /\ rest' = Tail(rest)
      /\ peer' = peer /\ sent' = sent /\ ahead' = ahead /\ type' = type /\ buffer' = buffer
      /\ dlcommand' = dlcommand /\ writing' = writing /\ closed' = closed /\ handled' = handled
  BY DEF Arrive
<1>2. buffer \in Seq(Unit) /\ wire \in Seq(Unit) /\ rest \in Seq(Unit) /\ sent \in Seq(Command)
  BY DEF Types
<1>3. /\ wire' \in Seq(Unit) /\ rest' \in Seq(Unit) /\ Len(rest') <= Len(rest) /\ Stream' = Stream
  <2>1. HeadMoved(buffer, wire, rest)
    BY ONLY <1>1, <1>2, Arrives
  <2> QED
    BY <1>1, <2>1 DEF Stream, HeadMoved
<1>4. Types'
  BY <1>1, <1>3 DEF Types
<1>5. TypeOK'
  BY <1>1 DEF TypeOK
<1>6. Framed'
  BY <1>1, <1>3, FramedKept
<1>7. Guessed'
  BY <1>1 DEF Guessed, Line, Misread
<1>8. WritingOK'
  BY <1>1, WritingKept DEF WritingOK
<1>9. Waiting'
  <2>1. /\ Len(sent) >= 1 /\ Len(rest) <= Len(UnitsOf(peer.speaks, Len(sent), sent[Len(sent)]))
    BY <1>1 DEF Waiting
  <2>2. UnitsOf(peer.speaks, Len(sent), sent[Len(sent)]) \in Seq(Unit)
    <3>1. Len(sent) \in Nat /\ sent[Len(sent)] \in Command
      BY <1>2, <2>1
    <3> QED
      BY ONLY <3>1, UnitsLong
  <2>3. Len(rest') <= Len(UnitsOf(peer.speaks, Len(sent), sent[Len(sent)]))
    BY <1>2, <1>3, <2>1, <2>2
  <2> QED
    BY <1>1, <2>1, <2>3 DEF Waiting
<1>10. CommandsInOrder'
  BY <1>1, OrderKept
<1>11. FinLosesNothing'
  BY <1>1 DEF FinLosesNothing, Waiting
<1> QED
  BY <1>4, <1>5, <1>6, <1>7, <1>8, <1>9, <1>10, <1>11

LEMMA DisconnectHolds ==
  ASSUME SessionInv, Disconnect
  PROVE  SessionInv'
<1> USE DEF SessionInv
<1>1. /\ peer' = [peer EXCEPT !.gone = TRUE]
      /\ sent' = sent /\ rest' = rest /\ wire' = wire /\ ahead' = ahead /\ type' = type /\ buffer' = buffer
      /\ dlcommand' = dlcommand /\ writing' = writing /\ closed' = closed /\ handled' = handled
  BY DEF Disconnect
<1>2. /\ peer' \in [port : Ports, speaks : Speaks, opensLikeDL : BOOLEAN, reads : BOOLEAN, gone : BOOLEAN]
      /\ peer'.port = peer.port /\ peer'.speaks = peer.speaks /\ peer'.opensLikeDL = peer.opensLikeDL
      /\ peer'.gone
  BY <1>1 DEF Types
<1>3. Stream' = Stream
  BY <1>1 DEF Stream
<1>4. Types'
  BY <1>1, <1>2 DEF Types
<1>5. TypeOK'
  BY <1>1 DEF TypeOK
<1>6. Framed'
  BY <1>1, <1>2, <1>3, FramedKept
<1>7. Guessed'
  BY <1>1, <1>2 DEF Guessed, Line, Misread
<1>8. WritingOK'
  BY <1>1, <1>2, WritingKept DEF WritingOK
<1>9. Waiting'
  BY <1>1, <1>2 DEF Waiting
<1>10. CommandsInOrder'
  BY <1>1, <1>2, OrderKept
<1>11. FinLosesNothing'
  BY <1>1, <1>2 DEF FinLosesNothing, Misread, SentWhole
<1> QED
  BY <1>4, <1>5, <1>6, <1>7, <1>8, <1>9, <1>10, <1>11

-----------------------------------------------------------------------------
(* Detection, and the ways out of the loop                                 *)

LEMMA DetectHolds ==
  ASSUME SessionInv, Detect
  PROVE  SessionInv'
<1> USE DEF SessionInv
<1>1. /\ closed = "no" /\ type = "undetermined"
      /\ type' = peer.speaks \/ type' = Detected
      /\ peer' = peer /\ sent' = sent /\ rest' = rest /\ wire' = wire /\ ahead' = ahead /\ buffer' = buffer
      /\ dlcommand' = dlcommand /\ writing' = writing /\ closed' = closed /\ handled' = handled
  BY DEF Detect
<1>2. type' \in Speaks /\ (peer.speaks = "datalink" => type' = "datalink")
  BY <1>1 DEF Detected, Types, Speaks
<1>3. buffer = <<>> /\ handled = <<>> /\ writing = NoWrite
  BY <1>1 DEF Guessed
<1>4. Types'
  BY <1>1 DEF Types
<1>5. TypeOK'
  BY <1>1, <1>2, <1>3 DEF TypeOK, Speaks
<1>6. Framed'
  <2>1. PICK p \in Int : Begins(peer.speaks, sent, Stream, Len(handled) + 1, p) /\ NextAt(p)
    BY <1>1 DEF Framed
  <2>2. p = 1
    BY <1>1, <1>3, <2>1 DEF NextAt, Line
  <2>3. NextAt(p)'
    BY <1>1, <1>3, <2>2 DEF NextAt, NoWrite
  <2>4. Begins(peer.speaks, sent, Stream, Len(handled) + 1, p)'
    BY <1>1, <2>1 DEF Stream
  <2>5. Len(handled') <= Len(sent')
    BY <1>1 DEF Framed
  <2> QED
    BY <2>3, <2>4, <2>5 DEF Framed
<1>7. Guessed'
  BY <1>1, <1>2, <1>3 DEF Guessed, Line, NoWrite, Speaks
<1>8. WritingOK'
  BY <1>1, <1>3 DEF WritingOK, NoWrite
<1>9. Waiting'
  BY <1>1 DEF Waiting, NoWrite
<1>10. CommandsInOrder'
  BY <1>1, <1>3 DEF CommandsInOrder
<1>11. FinLosesNothing'
  BY <1>1 DEF FinLosesNothing
<1> QED
  BY <1>4, <1>5, <1>6, <1>7, <1>8, <1>9, <1>10, <1>11

\* The session ends for a reason that is neither the end of what the client sent
\* nor a framing error.
LEMMA Closes ==
  ASSUME SessionInv, Idle, closed' \in Reasons \ {"no", "fin", "framing"},
         peer' = peer, sent' = sent, rest' = rest, ahead' = ahead, type' = type,
         handled' = handled, writing' = writing,
         wire' \in Seq(Unit), buffer' \in Seq(Unit), Len(buffer') <= RecvBufferSize,
         dlcommand' \in [1 .. MaxBody + 1 -> Unit], Len(dlcommand') = MaxBody + 1,
         type = "undetermined" => buffer' = <<>>
  PROVE  SessionInv'
<1> USE DEF SessionInv
<1>1. writing = NoWrite
  BY DEF Idle
<1>2. Types'
  BY DEF Types
<1>3. TypeOK'
  BY DEF TypeOK
<1>4. Framed' /\ FinLosesNothing'
  BY DEF Framed, FinLosesNothing, Reasons
<1>5. Guessed'
  BY DEF Guessed, Line, Misread, NoWrite
<1>6. WritingOK'
  BY <1>1 DEF WritingOK, NoWrite
<1>7. Waiting'
  BY DEF Waiting
<1>8. CommandsInOrder'
  BY OrderKept
<1> QED
  BY <1>2, <1>3, <1>4, <1>5, <1>6, <1>7, <1>8

LEMMA LeaveHolds ==
  ASSUME SessionInv, Timeout \/ Leave
  PROVE  SessionInv'
<1>1. /\ Idle /\ closed' \in Reasons \ {"no", "fin", "framing"}
      /\ peer' = peer /\ sent' = sent /\ rest' = rest /\ ahead' = ahead /\ type' = type
      /\ handled' = handled /\ writing' = writing
      /\ wire' = wire /\ buffer' = buffer /\ dlcommand' = dlcommand
  BY DEF Timeout, Leave, Reasons
<1>2. /\ wire' \in Seq(Unit) /\ buffer' \in Seq(Unit) /\ Len(buffer') <= RecvBufferSize
      /\ dlcommand' \in [1 .. MaxBody + 1 -> Unit] /\ Len(dlcommand') = MaxBody + 1
      /\ type = "undetermined" => buffer' = <<>>
  BY <1>1 DEF SessionInv, TypeOK, Types, Guessed
<1> QED
  BY <1>1, <1>2, Closes

-----------------------------------------------------------------------------
(* The next command                                                        *)

\* The command that is handled next stands at place p, or nothing comes there.
NextIs(p) ==
  /\ p \in Int /\ NextAt(p) /\ p <= Len(Stream) + 1
  /\ Begins(peer.speaks, sent, Stream, Len(handled) + 1, p)
  /\ Len(handled) = Len(sent) => p = Len(Stream) + 1
  /\ Len(handled) < Len(sent) => Stands(peer.speaks, sent, Stream, Len(handled) + 1, p)

\* The stream and its parts.
Parts ==
  /\ buffer \in Seq(Unit) /\ wire \in Seq(Unit) /\ rest \in Seq(Unit) /\ sent \in Seq(Command)
  /\ Stream \in Seq(Unit) /\ Chained(Stream, buffer, wire, rest)
  /\ Len(sent) \in Nat /\ Len(handled) \in Nat /\ Len(handled) <= Len(sent)

LEMMA PartsOf ==
  ASSUME SessionInv
  PROVE  Parts
<1>1. /\ buffer \in Seq(Unit) /\ wire \in Seq(Unit) /\ rest \in Seq(Unit) /\ sent \in Seq(Command)
      /\ handled \in Seq(Got) /\ Len(handled) <= Len(sent)
  BY DEF SessionInv, Types, TypeOK
<1>2. Chained(Stream, buffer, wire, rest)
  BY <1>1, Chains DEF Stream
<1>3. Stream \in Seq(Unit)
  BY <1>2 DEF Chained
<1>4. Len(sent) \in Nat /\ Len(handled) \in Nat
  BY <1>1
<1> QED
  BY <1>1, <1>2, <1>3, <1>4 DEF Parts

LEMMA NextCommand ==
  ASSUME SessionInv, closed = "no"
  PROVE  \E p \in Int : NextIs(p)
<1>1. PICK p \in Int : Begins(peer.speaks, sent, Stream, Len(handled) + 1, p) /\ NextAt(p)
  BY DEF SessionInv, Framed
<1>2. Parts
  BY PartsOf
<1>3. Stream \in Seq(Unit) /\ sent \in Seq(Command)
  BY <1>2 DEF Parts
<1>4. Len(handled) + 1 \in 1 .. Len(sent) + 1 /\ Len(sent) \in Nat /\ Len(handled) \in Nat
  BY <1>2 DEF Parts
<1>5. /\ p <= Len(Stream) + 1
      /\ Len(handled) + 1 = Len(sent) + 1 => p = Len(Stream) + 1
  BY ONLY <1>1, <1>3, <1>4, LastBegins
<1>6. Len(handled) + 1 \in 1 .. Len(sent) => Stands(peer.speaks, sent, Stream, Len(handled) + 1, p)
  BY ONLY <1>1, <1>3, NextBegins
<1>7. /\ Len(handled) = Len(sent) => p = Len(Stream) + 1
      /\ Len(handled) < Len(sent) => Stands(peer.speaks, sent, Stream, Len(handled) + 1, p)
  BY ONLY <1>4, <1>5, <1>6
<1>8. NextIs(p)
  BY <1>1, <1>5, <1>7 DEF NextIs
<1> QED
  BY <1>8

\* A command that is not the last one ends before the last one begins.
LEMMA EndsBefore ==
  ASSUME NEW sp, NEW s \in Seq(Command), NEW F \in Seq(Unit), NEW k \in 1 .. Len(s) - 1, NEW p,
         Begins(sp, s, F, k, p)
  PROVE  p + Len(UnitsOf(sp, k, s[k])) + Len(UnitsOf(sp, Len(s), s[Len(s)])) <= Len(F) + 1
<1>1. PICK st : Places(sp, s, F, st) /\ st[k] = p
  BY DEF Begins
<1>2. /\ Len(s) \in Nat /\ k \in 1 .. Len(s) /\ Len(s) \in 1 .. Len(s)
      /\ k + 1 \in 1 .. Len(s) + 1 /\ Len(s) \in 1 .. Len(s) + 1 /\ k + 1 <= Len(s)
  OBVIOUS
<1>3. Fits(sp, s, F, st, k) /\ Fits(sp, s, F, st, Len(s))
  BY <1>1, <1>2, PlacesFit
<1>4. st[k + 1] <= st[Len(s)]
  BY <1>1, <1>2 DEF Places
<1> DEFINE m == Len(UnitsOf(sp, k, s[k]))
           n == Len(UnitsOf(sp, Len(s), s[Len(s)]))
<1>5. /\ m \in Nat /\ n \in Nat /\ p \in Int /\ st[Len(s)] \in Int
      /\ st[k + 1] = p + m /\ st[Len(s) + 1] = st[Len(s)] + n /\ st[Len(s) + 1] <= Len(F) + 1
  BY <1>1, <1>3 DEF Fits
<1> HIDE DEF m, n
<1>6. Len(F) \in Nat
  OBVIOUS
<1>7. p + m + n <= Len(F) + 1
  BY ONLY <1>4, <1>5, <1>6
<1> QED
  BY <1>7 DEF m, n

\* The units of the next command, for each of the two kinds of client.
LEMMA NextUnits ==
  ASSUME SessionInv, Len(handled) < Len(sent)
  PROVE  LET h == Len(handled) + 1
             U == UnitsOf(peer.speaks, h, sent[h])
         IN /\ h \in 1 .. Len(sent) /\ h \in Nat /\ h >= 1 /\ sent[h] \in Command
            /\ peer.speaks = "datalink" => DataLinkForm(U, h, sent[h])
            /\ peer.speaks # "datalink" => LineForm(U, h, sent[h])
            /\ IF peer.speaks = "datalink" THEN sent[h].body \in BodyLengths
                                           ELSE Len(sent[h].end) \in Nat \ {0} /\ sent[h].data = 0
<1> DEFINE h == Len(handled) + 1
<1>1. Parts
  BY PartsOf
<1>2. h \in 1 .. Len(sent) /\ h \in Nat /\ h >= 1 /\ sent[h] \in Command
  BY <1>1 DEF Parts
<1>3. h \in DOMAIN sent
  BY <1>1, <1>2 DEF Parts
<1> HIDE DEF h
<1>4. peer.speaks = "datalink" => DataLinkForm(UnitsOf(peer.speaks, h, sent[h]), h, sent[h])
  BY <1>2, DataLinkUnits
<1>5. peer.speaks # "datalink" => LineForm(UnitsOf(peer.speaks, h, sent[h]), h, sent[h])
  BY <1>2, LineUnits
<1>6. IF peer.speaks = "datalink" THEN sent[h].body \in BodyLengths
                                  ELSE sent[h].end # <<>> /\ sent[h].data = 0
  BY <1>3 DEF SessionInv, Types
<1>7. sent[h].end \in Seq({"cr", "lf"})
  BY <1>2 DEF Command
<1>8. sent[h].end # <<>> => Len(sent[h].end) \in Nat \ {0}
  BY <1>7, EmptySeq
<1> QED
  BY <1>2, <1>4, <1>5, <1>6, <1>8 DEF h

-----------------------------------------------------------------------------
(* The end of what the client sent                                         *)

LEMMA FinLosesNone ==
  ASSUME SessionInv, Idle, type # "undetermined", MustReceive(buffer), Fin, ~ahead, ~Misread,
         NEW k \in DOMAIN sent, SentWhole(k)
  PROVE  k <= Len(handled)
<1> SUFFICES ASSUME k > Len(handled) PROVE FALSE
  <2>1. k \in Int /\ Len(handled) \in Int
    BY PartsOf DEF Parts
  <2> QED
    BY <2>1
<1>1. Parts /\ closed = "no" /\ writing = NoWrite /\ wire = <<>>
  BY PartsOf DEF Idle, Fin
<1>2. /\ Len(sent) \in Nat /\ Len(handled) \in Nat /\ k \in Nat /\ k <= Len(sent)
      /\ Len(handled) < Len(sent) /\ Len(handled) + 1 <= k
  BY <1>1 DEF Parts
<1>3. PICK p \in Int : NextIs(p)
  BY <1>1, NextCommand
<1> DEFINE h == Len(handled) + 1
           U == UnitsOf(peer.speaks, h, sent[h])
<1>4. /\ h \in 1 .. Len(sent) /\ sent[h] \in Command
      /\ peer.speaks = "datalink" => DataLinkForm(U, h, sent[h])
      /\ peer.speaks # "datalink" => LineForm(U, h, sent[h])
      /\ IF peer.speaks = "datalink" THEN sent[h].body \in BodyLengths
                                     ELSE Len(sent[h].end) \in Nat \ {0} /\ sent[h].data = 0
  BY <1>2, NextUnits
<1>5. /\ p + Len(U) <= Len(Stream) + 1
      /\ Len(U) \in Nat /\ \A i \in 1 .. Len(U) : p + i - 1 >= 1 => Stream[p + i - 1] = U[i]
      /\ Begins(peer.speaks, sent, Stream, h, p) /\ NextAt(p)
  BY <1>2, <1>3 DEF NextIs, Stands
<1>6. /\ Len(Stream) = Len(buffer) + Len(rest) /\ Len(buffer) \in Nat /\ Len(rest) \in Nat
      /\ \A i \in 1 .. Len(buffer) : Stream[i] = buffer[i]
  BY <1>1 DEF Parts, Chained
<1> HIDE DEF U
<1>7. CASE peer.speaks = "datalink"
  <2>1. p = 1
    BY <1>1, <1>5, <1>7 DEF NextAt, SessionInv, Guessed
  <2>2. Len(sent) <= Len(handled) + 1
    BY <1>7 DEF SessionInv, Waiting
  <2>3. k = Len(sent) /\ Len(sent) = Len(handled) + 1
    BY ONLY <1>2, <2>2
  <2>4. Len(buffer) < 2 + sent[h].body
    BY <1>1, <1>7, <2>3 DEF SessionInv, Waiting
  <2>5. rest = <<>>
    BY <1>2, <2>3 DEF SentWhole
  <2>6. Len(U) = 2 + sent[h].body + sent[h].data /\ sent[h].body \in Nat /\ sent[h].data \in Nat
    BY <1>4, <1>7 DEF DataLinkForm, Command
  <2>7. Len(rest) = 0
    BY <2>5
  <2> QED
    BY ONLY <1>5, <1>6, <2>1, <2>4, <2>6, <2>7
<1>8. CASE peer.speaks # "datalink"
  <2>1. Line
    <3>1. type \in {"undetermined", "datalink", "seedlink", "http"}
      BY DEF SessionInv, TypeOK
    <3> QED
      BY <1>8, <3>1 DEF Misread, Line
  <2>2. p >= 1
    BY <1>1, <1>5, <2>1 DEF NextAt
  <2>3. ~HasTerminator(buffer)
    BY <2>1 DEF MustReceive, Line
  <2>4. Len(U) >= 3 /\ IsTerminator(U[3])
    <3>1. Len(U) = 2 + Len(sent[h].end) /\ Len(sent[h].end) \in Nat \ {0}
          /\ \A i \in 3 .. Len(U) : IsTerminator(U[i])
      BY <1>4, <1>8 DEF LineForm
    <3>2. Len(U) >= 3 /\ 3 \in 3 .. Len(U)
      BY ONLY <3>1
    <3> QED
      BY ONLY <3>1, <3>2
  <2>5. p + 2 <= Len(buffer)
    <3>1. CASE rest = <<>>
      <4>1. Len(rest) = 0
        BY <3>1
      <4> QED
        BY ONLY <1>5, <1>6, <2>4, <4>1
    <3>2. CASE rest # <<>>
      <4>1. k < Len(sent)
        BY <3>2 DEF SentWhole
      <4>2. h \in 1 .. Len(sent) - 1
        BY <1>2, <4>1
      <4> DEFINE l == Len(UnitsOf(peer.speaks, Len(sent), sent[Len(sent)]))
      <4>3. Len(rest) <= l
        BY <3>2 DEF SessionInv, Waiting
      <4>4. p + Len(U) + l <= Len(Stream) + 1
        <5>1. sent \in Seq(Command) /\ Stream \in Seq(Unit)
          BY <1>1 DEF Parts
        <5> QED
          BY ONLY <1>5, <4>2, <5>1, EndsBefore DEF U
      <4>5. l \in Nat
        <5>1. sent[Len(sent)] \in Command
          BY <1>1, <1>2 DEF Parts
        <5> QED
          BY <1>2, <5>1, UnitsLong
      <4> HIDE DEF l
      <4> QED
        BY ONLY <1>5, <1>6, <2>4, <4>3, <4>4, <4>5, p \in Int
    <3> QED
      BY <3>1, <3>2
  <2>6. p + 2 \in 1 .. Len(buffer) /\ 3 \in 1 .. Len(U) /\ p + 3 - 1 = p + 2 /\ p + 2 >= 1
    BY ONLY <1>5, <1>6, <2>2, <2>4, <2>5, p \in Int
  <2>7. buffer[p + 2] = U[3]
    BY ONLY <1>5, <1>6, <2>6
  <2>8. p + 2 \in DOMAIN buffer
    BY <1>1, <2>6 DEF Parts
  <2> QED
    BY <2>3, <2>4, <2>7, <2>8 DEF HasTerminator
<1> QED
  BY <1>7, <1>8

LEMMA FinHolds ==
  ASSUME SessionInv, RecvFin
  PROVE  SessionInv'
<1>1. /\ Idle /\ type # "undetermined" /\ MustReceive(buffer) /\ Fin /\ closed' = "fin"
      /\ peer' = peer /\ sent' = sent /\ rest' = rest /\ wire' = wire /\ ahead' = ahead /\ type' = type
      /\ buffer' = buffer /\ dlcommand' = dlcommand /\ writing' = writing /\ handled' = handled
  BY DEF RecvFin
<1>2. ~ahead /\ ~Misread => \A k \in DOMAIN sent : SentWhole(k) => k <= Len(handled)
  BY <1>1, FinLosesNone
<1> USE DEF SessionInv
<1>3. Types' /\ TypeOK'
  BY <1>1 DEF Types, TypeOK, Reasons
<1>4. Framed'
  BY <1>1 DEF Framed
<1>5. Guessed'
  BY <1>1 DEF Guessed, Line, Misread, NoWrite
<1>6. WritingOK'
  BY <1>1, WritingKept DEF Idle
<1>7. Waiting'
  BY <1>1 DEF Waiting, Fin
<1>8. CommandsInOrder'
  BY <1>1, OrderKept
<1>9. FinLosesNothing'
  BY <1>1, <1>2 DEF FinLosesNothing, Misread, SentWhole
<1> QED
  BY <1>3, <1>4, <1>5, <1>6, <1>7, <1>8, <1>9

-----------------------------------------------------------------------------
(* Receiving                                                               *)

\* b is in the buffer and w on the wire after a Receive.
Holds(b, w) ==
  /\ b \in Seq(Unit) /\ w \in Seq(Unit) /\ Len(b) \in Nat /\ Len(b) <= RecvBufferSize
  /\ b \o w \o rest = Stream /\ Chained(Stream, b, w, rest)

LEMMA ReceivedHolds ==
  ASSUME SessionInv, Room > 0
  PROVE  Holds(Received, SubSeq(wire, Len(Arrived) + 1, Len(wire)))
<1> DEFINE n == Min({Room, Len(wire)})
<1>1. Parts
  BY PartsOf
<1>2. /\ Len(buffer) \in Nat /\ Len(wire) \in Nat /\ RecvBufferSize \in Nat /\ Room \in Int
      /\ Room = RecvBufferSize - Len(buffer)
  BY <1>1, SessionAssumption DEF Parts, SessionAssumption, Room
<1>3. n \in 0 .. Len(wire) /\ n <= Room
  <2>1. n = IF Room <= Len(wire) THEN Room ELSE Len(wire)
    BY <1>2, MinOfTwo
  <2> HIDE DEF n
  <2> QED
    BY ONLY <1>2, <2>1, Room > 0
<1>4. Arrived = SubSeq(wire, 1, n)
  BY DEF Arrived
<1> HIDE DEF n
<1>5. Len(Arrived) = n
  BY <1>1, <1>3, <1>4 DEF Parts
<1>6. buffer \in Seq(Unit) /\ wire \in Seq(Unit) /\ rest \in Seq(Unit)
  BY <1>1 DEF Parts
<1>7. Moved(buffer, wire, rest, buffer \o SubSeq(wire, 1, n), SubSeq(wire, n + 1, Len(wire)), n)
  BY ONLY <1>3, <1>6, Receives
<1>8. Moved(buffer, wire, rest, Received, SubSeq(wire, Len(Arrived) + 1, Len(wire)), n)
  BY ONLY <1>4, <1>5, <1>7 DEF Received
<1> DEFINE b == Received
           w == SubSeq(wire, Len(Arrived) + 1, Len(wire))
<1>9. b \in Seq(Unit) /\ w \in Seq(Unit) /\ Len(b) = Len(buffer) + n /\ b \o w \o rest = Stream
  BY ONLY <1>8 DEF Moved, Stream
<1> HIDE DEF b, w
<1>10. Len(b) \in Nat /\ Len(b) <= RecvBufferSize
  BY ONLY <1>2, <1>3, <1>9
<1>11. Chained(b \o w \o rest, b, w, rest)
  BY ONLY <1>6, <1>9, Chains
<1>12. Holds(b, w)
  BY <1>9, <1>10, <1>11 DEF Holds
<1> QED
  BY <1>12 DEF b, w

\* Without a Receive the buffer is as it was.
LEMMA UnreceivedHolds ==
  ASSUME SessionInv
  PROVE  Holds(buffer, wire)
BY PartsOf DEF Parts, Holds, SessionInv, TypeOK, Stream

\* What a buffer begins with that is taken for a DataLink command.
HeadIs(b) ==
  /\ Len(handled) < Len(sent)
  /\ peer.speaks = "datalink" => b[1] = <<Len(handled) + 1, "sig">> /\ b[2] = <<Len(handled) + 1, "len">>
  /\ peer.speaks # "datalink" => b[1][2] = "two"

LEMMA DataLinkHead ==
  ASSUME SessionInv, Idle, type = "datalink", NEW b, NEW w, Holds(b, w), Len(b) >= 2
  PROVE  HeadIs(b) /\ NextIs(1)
<1>1. Parts /\ closed = "no" /\ writing = NoWrite
  BY PartsOf DEF Idle
<1>2. PICK p \in Int : NextIs(p)
  BY <1>1, NextCommand
<1>3. p = 1
  BY <1>1, <1>2 DEF NextIs, NextAt, Line
<1>4. /\ Len(b) \in Nat /\ Len(Stream) >= Len(b) /\ Len(Stream) \in Nat
      /\ \A i \in 1 .. Len(b) : Stream[i] = b[i]
  BY DEF Holds, Chained
<1>5. Len(handled) < Len(sent)
  <2>1. Len(handled) = Len(sent) => p = Len(Stream) + 1
    BY <1>2 DEF NextIs
  <2>2. Len(handled) \in Nat /\ Len(sent) \in Nat /\ Len(handled) <= Len(sent)
    BY <1>1 DEF Parts
  <2> QED
    BY ONLY <1>3, <1>4, <2>1, <2>2, Len(b) >= 2
<1> DEFINE h == Len(handled) + 1
           U == UnitsOf(peer.speaks, h, sent[h])
<1>6. /\ peer.speaks = "datalink" => DataLinkForm(U, h, sent[h])
      /\ peer.speaks # "datalink" => LineForm(U, h, sent[h])
  BY <1>5, NextUnits
<1>7. /\ Len(U) \in Nat /\ Len(U) >= 2
      /\ \A i \in 1 .. Len(U) : p + i - 1 >= 1 => Stream[p + i - 1] = U[i]
  BY <1>2, <1>5 DEF NextIs, Stands
<1> HIDE DEF U
<1>8. b[1] = U[1] /\ b[2] = U[2]
  <2>1. 1 \in 1 .. Len(U) /\ 2 \in 1 .. Len(U) /\ 1 \in 1 .. Len(b) /\ 2 \in 1 .. Len(b)
        /\ p + 1 - 1 = 1 /\ p + 2 - 1 = 2
    BY ONLY <1>3, <1>4, <1>7, Len(b) >= 2
  <2>2. Stream[1] = U[1] /\ Stream[2] = U[2]
    BY ONLY <1>7, <2>1
  <2> QED
    BY ONLY <1>4, <2>1, <2>2
<1>9. HeadIs(b)
  BY <1>5, <1>6, <1>8 DEF HeadIs, DataLinkForm, LineForm
<1> QED
  BY <1>2, <1>3, <1>9

LEMMA DLPartHolds ==
  ASSUME SessionInv, RecvDLPart
  PROVE  SessionInv'
<1> DEFINE b == Received
           w == SubSeq(wire, Len(Arrived) + 1, Len(wire))
<1>1. /\ Idle /\ type = "datalink" /\ Room > 0 /\ wire' = w /\ buffer' = b
      /\ peer' = peer /\ sent' = sent /\ rest' = rest /\ ahead' = ahead /\ type' = type
      /\ dlcommand' = dlcommand /\ writing' = writing /\ handled' = handled
  BY DEF RecvDLPart
<1>2. \/ Len(b) < 2 /\ closed' = closed
      \/ Len(b) >= 2 /\ b[1][2] # "sig" /\ closed' = "framing"
      \/ Len(b) >= 2 /\ b[1][2] = "sig" /\ ~Whole(b) /\ closed' = closed
  BY DEF RecvDLPart
<1>3. Holds(b, w)
  BY <1>1, ReceivedHolds
<1> HIDE DEF b, w
<1>4. Parts /\ closed = "no" /\ writing = NoWrite
  BY <1>1, PartsOf DEF Idle
<1>5. Len(b) >= 2 => HeadIs(b)
  BY <1>1, <1>3, DataLinkHead
<1> USE DEF SessionInv
<1>6. Types'
  BY <1>1, <1>3 DEF Types, Holds
<1>7. TypeOK'
  BY <1>1, <1>2, <1>3 DEF TypeOK, Holds, Reasons
<1>8. Framed'
  <2>1. Stream' = Stream
    BY <1>1, <1>3 DEF Holds, Stream
  <2> QED
    BY <1>1, <1>4, <2>1, FramedKept
<1>9. Guessed'
  BY <1>1, <1>4 DEF Guessed, Line, Misread, NoWrite
<1>10. WritingOK'
  BY <1>1, <1>4, WritingKept
<1>11. Waiting'
  <2>1. ASSUME peer.speaks = "datalink", ~ahead, closed' = "no", Len(sent) = Len(handled) + 1
        PROVE  Len(b) < 2 + sent[Len(sent)].body
    <3>1. sent[Len(sent)] \in Command /\ Len(sent) \in Nat
      BY <1>4, <2>1 DEF Parts
    <3>2. sent[Len(sent)].body \in Nat \ {0} /\ Len(b) \in Nat
      BY <1>3, <3>1 DEF Command, Holds
    <3>3. CASE Len(b) < 2
      BY <3>2, <3>3
    <3>4. CASE Len(b) >= 2 /\ ~Whole(b)
      <4>1. b[2] = <<Len(handled) + 1, "len">>
        BY <1>5, <2>1, <3>4 DEF HeadIs
      <4>2. HeaderLen(b) = sent[Len(sent)].body
        BY <2>1, <4>1 DEF HeaderLen
      <4> QED
        BY <3>2, <3>4, <4>2 DEF Whole
    <3> QED
      BY <1>2, <2>1, <3>3, <3>4
  <2>2. closed' # "fin"
    BY <1>2, <1>4
  <2> QED
    BY <1>1, <1>4, <2>1, <2>2 DEF Waiting
<1>12. CommandsInOrder'
  <2>1. closed' = "framing" => Misread
    BY <1>1, <1>2, <1>4, <1>5 DEF HeadIs, Misread
  <2> QED
    BY <1>1, <2>1, OrderKept
<1>13. FinLosesNothing'
  BY <1>2, <1>4 DEF FinLosesNothing
<1> QED
  BY <1>6, <1>7, <1>8, <1>9, <1>10, <1>11, <1>12, <1>13

-----------------------------------------------------------------------------
(* Commands of DataLink                                                    *)

LEMMA PrefixOf ==
  ASSUME NEW s \in Seq(Unit), NEW t \in Seq(Unit), Len(s) <= Len(t), \A i \in 1 .. Len(s) : s[i] = t[i]
  PROVE  IsPrefix(s, t)
<1> DEFINE n == Len(s)
<1>1. n \in Nat /\ Len(t) \in Nat /\ n <= Len(t) /\ n <= Len(s)
  OBVIOUS
<1>2. /\ SubSeq(s, 1, n) \in Seq(Unit) /\ Len(SubSeq(s, 1, n)) = n
      /\ \A i \in 1 .. n : SubSeq(s, 1, n)[i] = s[i]
  BY <1>1
<1>3. /\ SubSeq(t, 1, n) \in Seq(Unit) /\ Len(SubSeq(t, 1, n)) = n
      /\ \A i \in 1 .. n : SubSeq(t, 1, n)[i] = t[i]
  BY <1>1
<1>4. SubSeq(s, 1, n) = SubSeq(t, 1, n)
  BY <1>2, <1>3, SeqEqual
<1> QED
  BY <1>1, <1>4 DEF IsPrefix

\* Sequences of one unit, repeated.
LEMMA RepeatOf ==
  ASSUME NEW u \in Unit, NEW s \in Seq(Unit), \A i \in 1 .. Len(s) : s[i] = u
  PROVE  s = Repeat(u, Len(s))
<1>1. Len(s) \in Nat
  OBVIOUS
<1>2. /\ Repeat(u, Len(s)) \in Seq(Unit) /\ Len(Repeat(u, Len(s))) = Len(s)
      /\ \A i \in 1 .. Len(s) : Repeat(u, Len(s))[i] = u
  BY <1>1, RepeatFacts
<1> QED
  BY ONLY <1>2, s \in Seq(Unit), \A i \in 1 .. Len(s) : s[i] = u, SeqEqual

\* The text a handler sees begins with the body.
Copied(d, k, n) ==
  /\ d \in [1 .. MaxBody + 1 -> Unit] /\ Len(d) = MaxBody + 1
  /\ Text(d) \in Seq(Unit) /\ IsPrefix(Repeat(<<k, "body">>, n), Text(d))

LEMMA CopyHolds ==
  ASSUME NEW d \in [1 .. MaxBody + 1 -> Unit], NEW b \in Seq(Unit), NEW k \in Nat,
         HeaderLen(b) \in BodyLengths, Len(b) >= 2 + HeaderLen(b),
         \A i \in 1 .. HeaderLen(b) : b[2 + i] = <<k, "body">>
  PROVE  Copied(CopyTo(d, b), k, HeaderLen(b))
<1> DEFINE n == HeaderLen(b)
           e == CopyTo(d, b)
           T == {i \in DOMAIN e : e[i] # Nul}
           m == Max({0} \cup T)
<1>1. n \in Nat \ {0} /\ n <= MaxBody /\ MaxBody \in Nat /\ Len(b) \in Nat /\ Len(b) >= 2 + n
  <2>1. n \in BodyLengths /\ Len(b) >= 2 + n
    OBVIOUS
  <2> HIDE DEF n
  <2>2. n <= MaxBody /\ MaxBody \in Nat
    BY ONLY <2>1, MaxBodyBounds
  <2> QED
    BY <2>1, <2>2, SessionAssumption DEF SessionAssumption
<1>2. /\ e \in [1 .. MaxBody + 1 -> Unit]
      /\ \A i \in 1 .. n : e[i] = <<k, "body">>
  <2>1. Nul \in Unit
    BY DEF Nul, Unit
  <2>2. \A i \in 1 .. n : 2 + i \in 1 .. Len(b) /\ b[2 + i] \in Unit
    BY <1>1
  <2>3. e = [i \in 1 .. MaxBody + 1 |-> CASE i <= n    -> b[2 + i]
                                           [] i = n + 1 -> Nul
                                           [] OTHER     -> d[i]]
    BY DEF CopyTo
  <2> HIDE DEF n, e
  <2>4. ASSUME NEW i \in 1 .. MaxBody + 1 PROVE e[i] \in Unit
    <3>1. CASE i <= n
      BY <1>1, <2>2, <2>3, <3>1
    <3>2. CASE i = n + 1
      BY <1>1, <2>1, <2>3, <3>2
    <3>3. CASE i > n + 1
      BY <1>1, <2>3, <3>3
    <3> QED
      BY <1>1, <3>1, <3>2, <3>3
  <2>5. DOMAIN e = 1 .. MaxBody + 1 /\ e = [i \in 1 .. MaxBody + 1 |-> e[i]]
    BY <2>3
  <2>6. e \in [1 .. MaxBody + 1 -> Unit]
    BY <2>4, <2>5
  <2>7. \A i \in 1 .. n : i \in 1 .. MaxBody + 1 /\ i <= n
    BY ONLY <1>1
  <2>8. ASSUME NEW i \in 1 .. n PROVE e[i] = b[2 + i]
    <3>1. i \in 1 .. MaxBody + 1 /\ i <= n
      BY ONLY <2>7, i \in 1 .. n
    <3> QED
      BY <1>1, <2>3, <3>1
  <2>9. \A i \in 1 .. n : b[2 + i] = <<k, "body">>
    BY DEF n
  <2> QED
    BY <2>6, <2>8, <2>9
<1> HIDE DEF n, e
<1>3. e \in Seq(Unit) /\ Len(e) = MaxBody + 1
  BY <1>1, <1>2
<1>4. n \in T
  <2>1. n \in 1 .. n /\ n \in DOMAIN e
    BY <1>1, <1>2
  <2>2. e[n] = <<k, "body">>
    BY <1>2, <2>1
  <2> QED
    BY <2>1, <2>2 DEF Nul
<1>5. {0} \cup T \subseteq 0 .. MaxBody + 1
  BY <1>1, <1>2
<1> HIDE DEF T
<1>6. m \in 0 .. MaxBody + 1 /\ n <= m
  <2>0. MaxBody + 1 \in Nat /\ {0} \cup T # {}
    BY <1>1
  <2>1. m \in {0} \cup T /\ \A y \in {0} \cup T : y <= m
    BY ONLY <1>5, <2>0, MaxOf, Zenon DEF m
  <2> QED
    BY <1>4, <1>5, <2>1
<1>7. Text(e) = SubSeq(e, 1, m)
  BY DEF Text, T
<1> HIDE DEF m
<1>8. /\ Text(e) \in Seq(Unit) /\ Len(Text(e)) = m
      /\ \A i \in 1 .. m : Text(e)[i] = e[i]
  BY <1>1, <1>3, <1>6, <1>7
<1>9. IsPrefix(Repeat(<<k, "body">>, n), Text(e))
  <2>1. <<k, "body">> \in Unit
    BY DEF Unit
  <2>2. /\ Repeat(<<k, "body">>, n) \in Seq(Unit) /\ Len(Repeat(<<k, "body">>, n)) = n
        /\ \A i \in 1 .. n : Repeat(<<k, "body">>, n)[i] = <<k, "body">>
    BY <1>1, <2>1, RepeatFacts
  <2>3. \A i \in 1 .. n : Repeat(<<k, "body">>, n)[i] = Text(e)[i]
    <3> TAKE i \in 1 .. n
    <3>1. i \in 1 .. m
      BY ONLY <1>1, <1>6, i \in 1 .. n
    <3>2. Text(e)[i] = e[i] /\ e[i] = <<k, "body">>
      BY ONLY <1>2, <1>8, <3>1, i \in 1 .. n
    <3> QED
      BY ONLY <2>2, <3>2, i \in 1 .. n
  <2> QED
    BY <1>1, <1>6, <1>8, <2>2, <2>3, PrefixOf
<1> QED
  BY <1>2, <1>3, <1>8, <1>9 DEF Copied, e, n

\* What is consumed moves the places of all commands.
LEMMA Consumes ==
  ASSUME NEW b \in Seq(Unit), NEW w \in Seq(Unit), NEW r \in Seq(Unit), NEW n \in 0 .. Len(b),
         NEW sp, NEW s \in Seq(Command), NEW k \in 1 .. Len(s) + 1, NEW p,
         Begins(sp, s, b \o w \o r, k, p)
  PROVE  Begins(sp, s, SubSeq(b, n + 1, Len(b)) \o w \o r, k, p - n)
<1> DEFINE F == b \o w \o r
           G == SubSeq(b, n + 1, Len(b)) \o w \o r
           q == p - n
<1>1. Dropped(F, b, w, r, n, SubSeq(b, n + 1, Len(b)))
  BY Drops
<1>2. G \in Seq(Unit) /\ Len(G) = Len(F) - n /\ \A i \in 1 .. Len(F) - n : G[i] = F[i + n]
  BY ONLY <1>1 DEF Dropped
<1>3. F \in Seq(Unit) /\ n \in Nat /\ Begins(sp, s, F, k, p)
  OBVIOUS
<1> HIDE DEF F, G
<1>4. \A i \in 1 .. Len(G) : G[i] = F[i + n]
  BY ONLY <1>2
<1>5. Begins(sp, s, G, k, q)
  BY <1>2, <1>3, <1>4, Shifts
<1> QED
  BY <1>5 DEF G

\* What RecvDLCommand finds in b: the next command without a part of its data.
IsCommand(b, w) ==
  LET h     == Len(handled) + 1
      n     == sent[h].body
      after == Shifted(b)
      m     == FromBuffer(after, sent[h].data)
  IN /\ peer.speaks = "datalink" /\ Len(handled) < Len(sent) /\ b[1][1] = h
     /\ n \in Nat /\ sent[h].data \in Nat
     /\ Copied(CopyTo(dlcommand, b), h, n)
     /\ after \in Seq(Unit) /\ Len(after) \in Nat /\ Len(after) <= Len(b)
     /\ m \in 0 .. Len(after) /\ m <= sent[h].data /\ (m < sent[h].data => m = Len(after))
     /\ SubSeq(after, 1, m) \in Seq(Unit) /\ Len(SubSeq(after, 1, m)) = m
     /\ SubSeq(after, 1, m) = Repeat(<<h, "data">>, m)
     /\ Begins(peer.speaks, sent, after \o w \o rest, h, 1 - (2 + n))
     /\ Begins(peer.speaks, sent, after \o w \o rest, h + 1, 1 + sent[h].data)

LEMMA CommandFound ==
  ASSUME SessionInv, Idle, type = "datalink", NEW b, NEW w, Holds(b, w), Len(b) >= 2,
         b[1][2] = "sig", Whole(b)
  PROVE  IsCommand(b, w)
<1> DEFINE h     == Len(handled) + 1
           U     == UnitsOf("datalink", h, sent[h])
           n     == sent[h].body
           dt    == sent[h].data
           after == Shifted(b)
           m     == FromBuffer(after, dt)
<1>1. HeadIs(b) /\ NextIs(1) /\ Parts
  BY DataLinkHead, PartsOf
<1>2. peer.speaks = "datalink" /\ Len(handled) < Len(sent)
  BY <1>1 DEF HeadIs
<1>3. /\ h \in 1 .. Len(sent) /\ h \in Nat /\ sent[h] \in Command /\ n \in BodyLengths
      /\ DataLinkForm(U, h, sent[h])
  BY <1>2, NextUnits
<1>4. n \in Nat \ {0} /\ dt \in Nat
  BY <1>3 DEF Command
<1>5. /\ b \in Seq(Unit) /\ w \in Seq(Unit) /\ rest \in Seq(Unit) /\ sent \in Seq(Command)
      /\ Len(b) \in Nat /\ Stream = b \o w \o rest /\ Len(Stream) \in Nat /\ Len(b) <= Len(Stream)
      /\ \A i \in 1 .. Len(b) : Stream[i] = b[i]
  BY <1>1 DEF Holds, Chained, Parts
<1>6. /\ Len(U) = 2 + n + dt
      /\ \A i \in 3 .. 2 + n : U[i] = <<h, "body">>
      /\ \A i \in 3 + n .. 2 + n + dt : U[i] = <<h, "data">>
  BY <1>3 DEF DataLinkForm
<1>7. /\ Begins(peer.speaks, sent, Stream, h, 1) /\ Begins(peer.speaks, sent, Stream, h + 1, 1 + Len(U))
      /\ \A i \in 1 .. Len(U) : 1 + i - 1 >= 1 => Stream[1 + i - 1] = U[i]
  BY <1>1, <1>2 DEF NextIs, Stands
<1>8. b[1][1] = h /\ HeaderLen(b) = n
  BY <1>1, <1>2 DEF HeadIs, HeaderLen
<1>9. Len(b) >= 2 + n
  BY <1>8 DEF Whole
<1> HIDE DEF U, n, dt, h
<1>10. \A i \in 1 .. Len(b) : i <= Len(U) => b[i] = U[i]
  <2> TAKE i \in 1 .. Len(b)
  <2>1. i <= Len(U) => i \in 1 .. Len(U) /\ 1 + i - 1 = i /\ i >= 1
    BY ONLY <1>4, <1>5, <1>6, i \in 1 .. Len(b)
  <2> QED
    BY ONLY <1>5, <1>7, <2>1, i \in 1 .. Len(b)
<1>11. Copied(CopyTo(dlcommand, b), h, n)
  <2>1. ASSUME NEW i \in 1 .. n PROVE b[2 + i] = <<h, "body">>
    <3>1. 2 + i \in 1 .. Len(b) /\ 2 + i <= Len(U) /\ 2 + i \in 3 .. 2 + n
      BY ONLY <1>4, <1>5, <1>6, <1>9, i \in 1 .. n
    <3> QED
      BY ONLY <1>6, <1>10, <3>1
  <2>2. dlcommand \in [1 .. MaxBody + 1 -> Unit]
    BY DEF SessionInv, Types
  <2>3. HeaderLen(b) \in BodyLengths /\ Len(b) >= 2 + HeaderLen(b)
        /\ \A i \in 1 .. HeaderLen(b) : b[2 + i] = <<h, "body">>
    BY <1>3, <1>8, <1>9, <2>1 DEF n
  <2>4. Copied(CopyTo(dlcommand, b), h, HeaderLen(b))
    BY ONLY <1>3, <1>5, <2>2, <2>3, CopyHolds
  <2> QED
    BY ONLY <1>8, <2>4
<1>12. after = SubSeq(b, (2 + n) + 1, Len(b))
  <2>1. 3 + n = (2 + n) + 1
    BY <1>4
  <2> QED
    BY ONLY <1>8, <2>1 DEF Shifted
<1>13. 2 + n \in 0 .. Len(b)
  BY ONLY <1>4, <1>5, <1>9
<1> HIDE DEF after
<1>14. /\ after \in Seq(Unit) /\ Len(after) \in Nat /\ Len(after) = Len(b) - (2 + n)
       /\ \A i \in 1 .. Len(after) : after[i] = b[i + (2 + n)]
  <2> DEFINE N == 2 + n
  <2> HIDE DEF N
  <2>1. N \in 0 .. Len(b) /\ after = SubSeq(b, N + 1, Len(b)) /\ b \in Seq(Unit)
    BY ONLY <1>5, <1>12, <1>13 DEF N
  <2>2. /\ after \in Seq(Unit) /\ Len(after) \in Nat /\ Len(after) = Len(b) - N
        /\ \A i \in 1 .. Len(after) : after[i] = b[i + N]
    BY ONLY <2>1
  <2> QED
    BY ONLY <2>2 DEF N
<1>15. /\ Begins(peer.speaks, sent, after \o w \o rest, h, 1 - (2 + n))
       /\ Begins(peer.speaks, sent, after \o w \o rest, h + 1, 1 + dt)
  <2> DEFINE N == 2 + n
  <2>1. N \in 0 .. Len(b) /\ after = SubSeq(b, N + 1, Len(b))
    BY ONLY <1>12, <1>13
  <2>2. (1 + Len(U)) - N = 1 + dt
    BY ONLY <1>4, <1>6
  <2>3. h \in 1 .. Len(sent) + 1 /\ h + 1 \in 1 .. Len(sent) + 1
    BY <1>1, <1>3 DEF Parts
  <2> HIDE DEF N
  <2>4. /\ Begins(peer.speaks, sent, b \o w \o rest, h, 1)
        /\ Begins(peer.speaks, sent, b \o w \o rest, h + 1, 1 + Len(U))
    BY ONLY <1>5, <1>7
  <2>5. Begins(peer.speaks, sent, SubSeq(b, N + 1, Len(b)) \o w \o rest, h, 1 - N)
    BY ONLY <1>5, <2>1, <2>3, <2>4, Consumes
  <2>6. Begins(peer.speaks, sent, SubSeq(b, N + 1, Len(b)) \o w \o rest, h + 1, (1 + Len(U)) - N)
    BY ONLY <1>5, <2>1, <2>3, <2>4, Consumes
  <2> QED
    BY ONLY <2>1, <2>2, <2>5, <2>6 DEF N
<1>16. m = IF dt <= Len(after) THEN dt ELSE Len(after)
  <2>1. m = Min({dt, Len(after)})
    BY DEF FromBuffer
  <2>2. dt \in Int /\ Len(after) \in Int
    BY ONLY <1>4, <1>14
  <2>3. Min({dt, Len(after)}) = IF dt <= Len(after) THEN dt ELSE Len(after)
    BY ONLY <2>2, MinOfTwo
  <2> QED
    BY ONLY <2>1, <2>3
<1> HIDE DEF m
<1>17. m \in 0 .. Len(after) /\ m <= dt /\ (m < dt => m = Len(after))
  BY ONLY <1>4, <1>14, <1>16
<1>18. /\ SubSeq(after, 1, m) \in Seq(Unit) /\ Len(SubSeq(after, 1, m)) = m
       /\ \A i \in 1 .. m : SubSeq(after, 1, m)[i] = after[i]
  BY ONLY <1>14, <1>17
<1>19. ASSUME NEW i \in 1 .. m PROVE SubSeq(after, 1, m)[i] = <<h, "data">>
  <2>1. /\ i \in 1 .. Len(after) /\ i + (2 + n) \in 1 .. Len(b) /\ i + (2 + n) <= Len(U)
        /\ i + (2 + n) \in 3 + n .. 2 + n + dt
    BY ONLY <1>4, <1>5, <1>6, <1>14, <1>17, i \in 1 .. m
  <2>2. SubSeq(after, 1, m)[i] = after[i] /\ after[i] = b[i + (2 + n)]
    BY ONLY <1>14, <1>18, <2>1, i \in 1 .. m
  <2>3. b[i + (2 + n)] = U[i + (2 + n)]
    BY ONLY <1>10, <2>1
  <2> QED
    BY ONLY <1>6, <2>1, <2>2, <2>3
<1>20. SubSeq(after, 1, m) = Repeat(<<h, "data">>, m)
  <2>1. <<h, "data">> \in Unit
    BY <1>3 DEF Unit
  <2>2. SubSeq(after, 1, m) = Repeat(<<h, "data">>, Len(SubSeq(after, 1, m)))
    BY <1>18, <1>19, <2>1, RepeatOf
  <2> QED
    BY ONLY <1>18, <2>2
<1>21. Len(after) <= Len(b)
  BY ONLY <1>4, <1>5, <1>14
<1> USE DEF h, n, dt, after, m
<1> QED
  BY ONLY <1>2, <1>4, <1>8, <1>11, <1>14, <1>15, <1>17, <1>18, <1>20, <1>21 DEF IsCommand, h, n, dt, after, m

\* One more command is handled.
LEMMA OrderGrows ==
  ASSUME SessionInv, NEW c \in Got, handled' = Append(handled, c), c.cmd = Len(handled) + 1,
         IsPrefix(Body(Len(handled) + 1), c.text), c.data = Data(Len(handled) + 1),
         peer' = peer, sent' = sent, closed' \in {"no", "command"}
  PROVE  /\ handled' \in Seq(Got) /\ Len(handled') = Len(handled) + 1 /\ Len(handled) \in Nat
         /\ CommandsInOrder'
<1>1. handled \in Seq(Got)
  BY DEF SessionInv, Types
<1>2. /\ handled' \in Seq(Got) /\ Len(handled') = Len(handled) + 1 /\ Len(handled) \in Nat
      /\ DOMAIN handled' = 1 .. Len(handled) + 1 /\ DOMAIN handled = 1 .. Len(handled)
      /\ handled'[Len(handled) + 1] = c /\ \A i \in 1 .. Len(handled) : handled'[i] = handled[i]
  BY <1>1
<1>3. \A i : Body(i)' = Body(i) /\ Data(i)' = Data(i)
  BY DEF Body, Data
<1>4. ASSUME NEW i \in DOMAIN handled'
      PROVE  handled'[i].cmd = i /\ IsPrefix(Body(i), handled'[i].text) /\ handled'[i].data = Data(i)
  <2>1. CASE i \in 1 .. Len(handled)
    <3>1. handled'[i] = handled[i] /\ i \in DOMAIN handled
      BY ONLY <1>2, <2>1
    <3> QED
      BY <3>1 DEF SessionInv, CommandsInOrder
  <2>2. CASE i = Len(handled) + 1
    BY <1>2, <2>2
  <2>3. i \in 1 .. Len(handled) \/ i = Len(handled) + 1
    BY ONLY <1>2, i \in DOMAIN handled'
  <2> QED
    BY ONLY <2>1, <2>2, <2>3
<1>5. CommandsInOrder'
  BY <1>3, <1>4 DEF CommandsInOrder
<1> QED
  BY <1>2, <1>5

LEMMA DLCommandHolds ==
  ASSUME SessionInv, RecvDLCommand
  PROVE  SessionInv'
<1> DEFINE b     == Received
           w     == SubSeq(wire, Len(Arrived) + 1, Len(wire))
           after == Shifted(b)
           h     == Len(handled) + 1
           dt    == sent[h].data
           n     == FromBuffer(after, dt)
           data  == SubSeq(after, 1, n)
           left  == SubSeq(after, n + 1, Len(after))
           text  == Text(CopyTo(dlcommand, b))
           got   == [cmd |-> h, text |-> text, data |-> data]
<1>1. /\ Idle /\ type = "datalink" /\ Room > 0
      /\ Len(b) >= 2 /\ b[1][2] = "sig" /\ Whole(b)
      /\ wire' = w /\ dlcommand' = CopyTo(dlcommand, b)
      /\ peer' = peer /\ sent' = sent /\ rest' = rest /\ ahead' = ahead /\ type' = type
  BY DEF RecvDLCommand
<1>2. Holds(b, w)
  BY <1>1, ReceivedHolds
<1>3. IsCommand(b, w)
  BY <1>1, <1>2, CommandFound
<1>4. b[1][1] = h
  BY <1>3 DEF IsCommand
<1>5. \/ closed' = "command" /\ buffer' = after /\ writing' = writing /\ handled' = handled
      \/ n = dt /\ buffer' = left /\ Finish(got) /\ writing' = writing
      \/ n < dt /\ buffer' = left /\ writing' = got /\ closed' = closed /\ handled' = handled
  BY <1>4 DEF RecvDLCommand
<1>6. /\ peer.speaks = "datalink" /\ Len(handled) < Len(sent)
      /\ sent[h].body \in Nat /\ dt \in Nat
      /\ Copied(CopyTo(dlcommand, b), h, sent[h].body)
      /\ after \in Seq(Unit) /\ Len(after) \in Nat /\ Len(after) <= Len(b)
      /\ n \in 0 .. Len(after) /\ n <= dt /\ (n < dt => n = Len(after))
      /\ data \in Seq(Unit) /\ Len(data) = n /\ data = Repeat(<<h, "data">>, n)
      /\ Begins(peer.speaks, sent, after \o w \o rest, h, 1 - (2 + sent[h].body))
      /\ Begins(peer.speaks, sent, after \o w \o rest, h + 1, 1 + dt)
  BY <1>3 DEF IsCommand
<1>7. Parts /\ closed = "no" /\ writing = NoWrite
  BY <1>1, PartsOf DEF Idle
<1>8. /\ b \in Seq(Unit) /\ w \in Seq(Unit) /\ rest \in Seq(Unit) /\ sent \in Seq(Command)
      /\ Len(b) \in Nat /\ Len(b) <= RecvBufferSize /\ RecvBufferSize \in Nat
      /\ h \in Nat /\ h <= Len(sent) /\ Len(sent) \in Nat /\ Len(handled) \in Nat
      /\ h \in 1 .. Len(sent) + 1 /\ h + 1 \in 1 .. Len(sent) + 1
  <2>1. b \in Seq(Unit) /\ w \in Seq(Unit) /\ Len(b) \in Nat /\ Len(b) <= RecvBufferSize
    BY <1>2 DEF Holds
  <2>2. rest \in Seq(Unit) /\ sent \in Seq(Command) /\ Len(sent) \in Nat /\ Len(handled) \in Nat
    BY <1>7 DEF Parts
  <2>3. RecvBufferSize \in Nat
    BY SessionAssumption DEF SessionAssumption
  <2>4. Len(handled) < Len(sent)
    BY <1>6
  <2>5. /\ h \in Nat /\ h <= Len(sent)
        /\ h \in 1 .. Len(sent) + 1 /\ h + 1 \in 1 .. Len(sent) + 1
    BY ONLY <2>2, <2>4
  <2> QED
    BY ONLY <2>1, <2>2, <2>3, <2>5
<1>9. /\ dlcommand' \in [1 .. MaxBody + 1 -> Unit] /\ Len(dlcommand') = MaxBody + 1
      /\ text \in Seq(Unit) /\ IsPrefix(Body(h), text)
  BY <1>1, <1>6 DEF Copied, Body
<1> HIDE DEF b, w, after, dt, n, data, text
<1>18. /\ Len(after) \in Nat /\ Len(after) <= Len(b) /\ n \in 0 .. Len(after) /\ dt \in Nat
       /\ sent[h].body \in Nat /\ Len(data) = n
  BY ONLY <1>6
<1>10. /\ left \in Seq(Unit) /\ Len(left) = Len(after) - n
  BY ONLY <1>6
<1>11. /\ Begins(peer.speaks, sent, left \o w \o rest, h, (1 - (2 + sent[h].body)) - n)
       /\ Begins(peer.speaks, sent, left \o w \o rest, h + 1, (1 + dt) - n)
  <2>1. Begins(peer.speaks, sent, left \o w \o rest, h, (1 - (2 + sent[h].body)) - n)
    BY ONLY <1>6, <1>8, Consumes
  <2>2. Begins(peer.speaks, sent, left \o w \o rest, h + 1, (1 + dt) - n)
    BY ONLY <1>6, <1>8, Consumes
  <2> QED
    BY ONLY <2>1, <2>2
<1> HIDE DEF left, h
<1>12. got \in Got
  BY <1>6, <1>8, <1>9 DEF Got
<1>13. got.cmd = h /\ got.text = text /\ got.data = data
  OBVIOUS
<1> HIDE DEF got
<1>14. Len(buffer') <= RecvBufferSize /\ buffer' \in Seq(Unit)
  <2>1. Len(after) <= RecvBufferSize /\ Len(left) <= RecvBufferSize
    <3>1. Len(b) \in Nat /\ Len(b) <= RecvBufferSize /\ RecvBufferSize \in Nat
      BY ONLY <1>8
    <3>2. Len(left) = Len(after) - n
      BY ONLY <1>10
    <3> QED
      BY ONLY <1>18, <3>1, <3>2
  <2> QED
    BY <1>5, <1>6, <1>10, <2>1
<1>15. CASE closed' = "command" /\ buffer' = after /\ writing' = writing /\ handled' = handled
  BY <1>1, <1>8, <1>9, <1>14, <1>15, Closes DEF Reasons
<1>16. CASE n = dt /\ buffer' = left /\ Finish(got) /\ writing' = writing
  <2> USE DEF SessionInv
  <2>1. handled' = Append(handled, got) /\ closed' \in {"no", "command"}
    BY <1>16 DEF Finish
  <2>2. data = Data(h)
    BY <1>6, <1>16 DEF Data, dt
  <2>3. /\ handled' \in Seq(Got) /\ Len(handled') = h /\ CommandsInOrder'
    BY <1>1, <1>9, <1>12, <1>13, <2>1, <2>2, OrderGrows DEF h
  <2>4. Types'
    BY <1>1, <1>7, <1>8, <1>9, <1>14, <1>16, <2>3 DEF Types
  <2>5. TypeOK'
    <3>1. Len(sent) <= MaxCommands
      BY DEF TypeOK
    <3> QED
      BY <1>1, <1>7, <1>8, <1>9, <1>14, <1>16, <2>1, <2>3, <3>1 DEF TypeOK, Reasons, NoWrite
  <2>6. Framed'
    <3>1. (1 + dt) - n = 1
      BY ONLY <1>6, <1>16
    <3>2. Stream' = left \o w \o rest
      BY <1>1, <1>16 DEF Stream
    <3>3. Begins(peer.speaks, sent, Stream', h + 1, 1)
      BY ONLY <1>11, <3>1, <3>2
    <3>4. NextAt(1)'
      BY <1>1, <1>7, <1>16 DEF NextAt, Line, NoWrite
    <3> QED
      BY <1>1, <1>8, <2>3, <3>3, <3>4 DEF Framed
  <2>7. Guessed'
    BY <1>1, <1>6 DEF Guessed, Line, Misread
  <2>8. WritingOK'
    BY <1>7, <1>16 DEF WritingOK, NoWrite
  <2>9. Waiting'
    <3>1. peer.speaks = "datalink" /\ ~ahead => Len(sent) <= Len(handled) + 1
      BY DEF Waiting
    <3>2. rest # <<>> => Len(sent) >= 1 /\ Len(rest) <= Len(UnitsOf(peer.speaks, Len(sent), sent[Len(sent)]))
      BY DEF Waiting
    <3>3. ~ahead => Len(sent) <= h /\ Len(sent) # h + 1 /\ Len(sent) <= h + 1
      BY ONLY <1>6, <1>8, <3>1 DEF h
    <3> QED
      BY <1>1, <2>1, <2>3, <3>2, <3>3 DEF Waiting
  <2>10. FinLosesNothing'
    BY <2>1 DEF FinLosesNothing
  <2> QED
    BY <2>3, <2>4, <2>5, <2>6, <2>7, <2>8, <2>9, <2>10
<1>17. CASE n < dt /\ buffer' = left /\ writing' = got /\ closed' = closed /\ handled' = handled
  <2> USE DEF SessionInv
  <2>1. n = Len(after) /\ left = <<>>
    <3>1. n = Len(after)
      BY <1>6, <1>17
    <3>2. Len(left) = 0
      BY ONLY <1>6, <1>10, <3>1
    <3> QED
      BY <1>10, <3>1, <3>2, EmptySeq
  <2>2. got # NoWrite
    BY <1>8, <1>13 DEF NoWrite, h
  <2>3. Types'
    BY <1>1, <1>8, <1>9, <1>12, <1>14, <1>17 DEF Types
  <2>4. TypeOK'
    BY <1>1, <1>6, <1>7, <1>9, <1>13, <1>14, <1>17 DEF TypeOK, dt
  <2>5. Framed'
    <3>1. Stream' = left \o w \o rest
      BY <1>1, <1>17 DEF Stream
    <3>2. PICK q \in Int : q = (1 - (2 + sent[h].body)) - n
      BY ONLY <1>18
    <3>3. Begins(peer.speaks, sent, Stream', h, q)
      BY ONLY <1>11, <3>1, <3>2
    <3>6. q = 1 - (2 + sent[h].body + Len(data))
      BY ONLY <1>18, <3>2
    <3>4. NextAt(q)'
      BY <1>1, <1>13, <1>17, <2>2, <3>6 DEF NextAt, NoWrite
    <3>5. Len(handled') <= Len(sent')
      <4>1. Len(handled) < Len(sent)
        BY <1>6
      <4>2. Len(handled) <= Len(sent)
        BY ONLY <1>8, <4>1
      <4> QED
        BY <1>1, <1>17, <4>2
    <3> QED
      BY <1>1, <1>17, <3>2, <3>3, <3>4, <3>5 DEF Framed, h
  <2>6. Guessed'
    BY <1>1, <1>6 DEF Guessed, Line, Misread
  <2>7. WritingOK'
    <3>2. IsPrefix(Repeat(<<h, "body">>, sent[h].body), text)
      BY <1>6, <1>9 DEF Body
    <3>3. h = Len(handled) + 1
      BY DEF h
    <3>4. data = Repeat(<<h, "data">>, Len(data)) /\ Len(data) < sent[h].data
      BY <1>6, <1>17 DEF dt
    <3> QED
      BY <1>1, <1>6, <1>8, <1>13, <1>17, <2>1, <3>2, <3>3, <3>4 DEF WritingOK, Body
  <2>8. Waiting'
    BY <1>1, <1>7, <1>17, <2>2 DEF Waiting, NoWrite
  <2>9. CommandsInOrder'
    BY <1>1, <1>17, OrderKept
  <2>10. FinLosesNothing'
    BY <1>7, <1>17 DEF FinLosesNothing
  <2> QED
    BY <2>3, <2>4, <2>5, <2>6, <2>7, <2>8, <2>9, <2>10
<1> QED
  BY <1>5, <1>15, <1>16, <1>17

-----------------------------------------------------------------------------
(* The data of a DataLink command                                          *)

\* RecvData takes from the wire, behind an empty buffer.
LEMMA ConsumesWire ==
  ASSUME NEW w \in Seq(Unit), NEW r \in Seq(Unit), NEW n \in 0 .. Len(w),
         NEW sp, NEW s \in Seq(Command), NEW k \in 1 .. Len(s) + 1, NEW p,
         Begins(sp, s, <<>> \o w \o r, k, p)
  PROVE  Begins(sp, s, <<>> \o SubSeq(w, n + 1, Len(w)) \o r, k, p - n)
<1> DEFINE w2 == SubSeq(w, n + 1, Len(w))
<1>1. w2 \in Seq(Unit)
  OBVIOUS
<1> HIDE DEF w2
<1>2. /\ <<>> \o w = w /\ w \o <<>> = w
      /\ <<>> \o w2 = w2 /\ w2 \o <<>> = w2
  BY <1>1, ConcatEmptySeq
<1>3. Begins(sp, s, w \o <<>> \o r, k, p) /\ <<>> \in Seq(Unit)
  BY <1>2
<1>4. Begins(sp, s, SubSeq(w, n + 1, Len(w)) \o <<>> \o r, k, p - n)
  BY <1>3, Consumes
<1> QED
  BY <1>2, <1>4 DEF w2

\* More of the same unit.
LEMMA RepeatMore ==
  ASSUME NEW u \in Unit, NEW s \in Seq(Unit), NEW t \in Seq(Unit), s = Repeat(u, Len(s)),
         \A i \in 1 .. Len(t) : t[i] = u
  PROVE  s \o t = Repeat(u, Len(s) + Len(t))
<1>1. Len(s) \in Nat /\ Len(t) \in Nat
  OBVIOUS
<1>2. \A i \in 1 .. Len(s) : Repeat(u, Len(s))[i] = u
  BY <1>1, RepeatFacts
<1>3. \A i \in 1 .. Len(s) : s[i] = u
  BY ONLY <1>2, s = Repeat(u, Len(s))
<1> DEFINE v == s \o t
<1>4. /\ v \in Seq(Unit) /\ Len(v) = Len(s) + Len(t)
      /\ \A i \in 1 .. Len(s) : v[i] = s[i]
      /\ \A i \in Len(s) + 1 .. Len(s) + Len(t) : v[i] = t[i - Len(s)]
  BY Joined
<1> HIDE DEF v
<1>5. ASSUME NEW i \in 1 .. Len(v) PROVE v[i] = u
  <2>1. CASE i \in 1 .. Len(s)
    BY ONLY <1>3, <1>4, <2>1
  <2>2. CASE i \notin 1 .. Len(s)
    <3>1. i \in Len(s) + 1 .. Len(s) + Len(t) /\ i - Len(s) \in 1 .. Len(t)
      BY ONLY <1>1, <1>4, <2>2, i \in 1 .. Len(v)
    <3>2. t[i - Len(s)] = u
      BY <3>1
    <3> QED
      BY ONLY <1>4, <3>1, <3>2
  <2> QED
    BY ONLY <2>1, <2>2
<1>6. v = Repeat(u, Len(v))
  BY <1>4, <1>5, RepeatOf
<1> QED
  BY ONLY <1>4, <1>6 DEF v

\* The data that arrive for the command whose handler waits, n units of them.
MoreData(h, m, n) ==
  /\ writing.cmd = h /\ h = Len(handled) + 1 /\ h \in Nat /\ h <= Len(sent) /\ Len(sent) \in Nat
  /\ h \in 1 .. Len(sent) + 1 /\ h + 1 \in 1 .. Len(sent) + 1
  /\ peer.speaks = "datalink" /\ buffer = <<>> /\ sent[h].body \in Nat /\ sent[h].data \in Nat
  /\ writing \in Got /\ IsPrefix(Body(h), writing.text)
  /\ m = Len(writing.data) /\ m \in Nat /\ m < sent[h].data /\ n \in 0 .. Len(wire) /\ Len(wire) \in Nat
  /\ n <= sent[h].data - m /\ (n < sent[h].data - m => n = Len(wire))
  /\ writing.data \o SubSeq(wire, 1, n) = Repeat(<<h, "data">>, m + n)
  /\ writing.data \o SubSeq(wire, 1, n) \in Seq(Unit)
  /\ Len(writing.data \o SubSeq(wire, 1, n)) = m + n
  /\ Begins(peer.speaks, sent, <<>> \o wire \o rest, h, 1 - (2 + sent[h].body + m))
  /\ Begins(peer.speaks, sent, <<>> \o wire \o rest, h + 1, 1 + (sent[h].data - m))
  /\ Len(wire) + Len(rest) >= sent[h].data - m /\ Len(rest) \in Nat

LEMMA DataArrives ==
  ASSUME SessionInv, closed = "no", writing # NoWrite
  PROVE  MoreData(writing.cmd, Len(writing.data),
                  Min({sent[writing.cmd].data - Len(writing.data), Len(wire)}))
<1> DEFINE h  == writing.cmd
           U  == UnitsOf("datalink", h, sent[h])
           bl == sent[h].body
           dt == sent[h].data
           m  == Len(writing.data)
           n  == Min({dt - m, Len(wire)})
<1>1. Parts
  BY PartsOf
<1>2. /\ peer.speaks = "datalink" /\ buffer = <<>> /\ h = Len(handled) + 1 /\ h <= Len(sent)
      /\ IsPrefix(Body(h), writing.text) /\ m < dt /\ writing.data = Repeat(<<h, "data">>, m)
      /\ writing \in Got
  BY DEF SessionInv, WritingOK, Types
<1>3. /\ wire \in Seq(Unit) /\ rest \in Seq(Unit) /\ sent \in Seq(Command)
      /\ Len(wire) \in Nat /\ Len(rest) \in Nat /\ Len(sent) \in Nat /\ Len(handled) \in Nat
      /\ Len(Stream) = Len(wire) + Len(rest) /\ Stream = <<>> \o wire \o rest
      /\ \A i \in 1 .. Len(wire) : Stream[i] = wire[i]
  <2>1. /\ wire \in Seq(Unit) /\ rest \in Seq(Unit) /\ sent \in Seq(Command)
        /\ Len(sent) \in Nat /\ Len(handled) \in Nat
    BY <1>1 DEF Parts
  <2>2. Chained(Stream, <<>>, wire, rest)
    BY <1>1, <1>2 DEF Parts
  <2>3. Len(<<>>) = 0
    OBVIOUS
  <2>4. /\ Len(wire) \in Nat /\ Len(rest) \in Nat /\ Len(Stream) = 0 + Len(wire) + Len(rest)
        /\ \A i \in 0 + 1 .. 0 + Len(wire) : Stream[i] = wire[i - 0]
    BY ONLY <2>2, <2>3 DEF Chained
  <2>5. Len(Stream) = Len(wire) + Len(rest)
    BY ONLY <2>4
  <2>6. ASSUME NEW i \in 1 .. Len(wire) PROVE Stream[i] = wire[i]
    <3>1. i \in 0 + 1 .. 0 + Len(wire) /\ i - 0 = i
      BY ONLY <2>4, i \in 1 .. Len(wire)
    <3> QED
      BY ONLY <2>4, <3>1
  <2> QED
    BY <1>2, <2>1, <2>4, <2>5, <2>6 DEF Stream
<1>4. Len(handled) < Len(sent)
  BY ONLY <1>2, <1>3
<1>5. /\ h \in Nat /\ h \in 1 .. Len(sent) /\ sent[h] \in Command /\ DataLinkForm(U, h, sent[h])
  BY <1>2, <1>4, NextUnits
<1>6. bl \in Nat /\ dt \in Nat
  BY <1>5 DEF Command
<1>7. /\ Len(U) = 2 + bl + dt
      /\ \A i \in 3 + bl .. 2 + bl + dt : U[i] = <<h, "data">>
  BY <1>5 DEF DataLinkForm
<1>8. PICK p \in Int : NextIs(p)
  BY NextCommand
<1>9. p = 1 - (2 + bl + m)
  BY <1>8 DEF NextIs, NextAt
<1>10. /\ Begins(peer.speaks, sent, Stream, h, p) /\ Begins(peer.speaks, sent, Stream, h + 1, p + Len(U))
       /\ p + Len(U) <= Len(Stream) + 1
       /\ \A i \in 1 .. Len(U) : p + i - 1 >= 1 => Stream[p + i - 1] = U[i]
  BY <1>2, <1>4, <1>8 DEF NextIs, Stands
<1>11. writing.data \in Seq(Unit) /\ m \in Nat
  BY <1>2 DEF Got
<1> HIDE DEF h, U, bl, dt
<1>12. n \in 0 .. Len(wire) /\ n <= dt - m /\ (n < dt - m => n = Len(wire))
  <2>1. dt - m \in Int /\ Len(wire) \in Int
    BY ONLY <1>3, <1>6, <1>11
  <2> HIDE DEF m
  <2>2. n = IF dt - m <= Len(wire) THEN dt - m ELSE Len(wire)
    BY ONLY <2>1, MinOfTwo
  <2>3. m \in Nat /\ m < dt
    BY <1>2, <1>11 DEF m
  <2> HIDE DEF n
  <2> QED
    BY ONLY <1>3, <1>6, <2>2, <2>3
<1> HIDE DEF n, m
<1> DEFINE more == SubSeq(wire, 1, n)
<1>13. /\ more \in Seq(Unit) /\ Len(more) = n /\ n \in Nat
       /\ \A i \in 1 .. n : more[i] = wire[i]
  BY ONLY <1>3, <1>12
<1> HIDE DEF more
<1>14. ASSUME NEW i \in 1 .. Len(more) PROVE more[i] = <<h, "data">>
  <2>1. i \in 1 .. n /\ i \in 1 .. Len(wire)
    BY ONLY <1>3, <1>12, <1>13, i \in 1 .. Len(more)
  <2>0. m \in Nat /\ i \in Int
    BY <1>11, <2>1 DEF m
  <2>2. PICK j \in Int : j = 2 + bl + m + i
    BY ONLY <1>6, <2>0
  <2>3. j \in 1 .. Len(U) /\ j \in 3 + bl .. 2 + bl + dt /\ p + j - 1 = i /\ i >= 1
    <3>1. m \in Nat /\ Len(U) = 2 + bl + dt /\ n <= dt - m /\ n \in Nat
      BY <1>7, <1>11, <1>12, <1>13 DEF m
    <3> QED
      BY ONLY <1>6, <1>9, <2>1, <2>2, <3>1
  <2>4. Stream[i] = U[j] /\ U[j] = <<h, "data">>
    BY ONLY <1>7, <1>10, <2>3
  <2> QED
    BY ONLY <1>3, <1>13, <2>1, <2>4
<1>15. <<h, "data">> \in Unit
  BY <1>5 DEF Unit
<1>16. writing.data \o more = Repeat(<<h, "data">>, m + n)
  <2>1. writing.data = Repeat(<<h, "data">>, Len(writing.data)) /\ Len(writing.data) = m
    BY <1>2 DEF m
  <2>2. writing.data \o more = Repeat(<<h, "data">>, Len(writing.data) + Len(more))
    BY <1>11, <1>13, <1>14, <1>15, <2>1, RepeatMore
  <2> QED
    BY ONLY <1>13, <2>1, <2>2
<1>17. writing.data \o more \in Seq(Unit) /\ Len(writing.data \o more) = m + n
  <2>1. m = Len(writing.data) /\ more \in Seq(Unit)
    BY <1>13 DEF m
  <2> QED
    BY <1>11, <1>13, <2>1, Joined
<1>18. p + Len(U) = 1 + (dt - m) /\ Len(wire) + Len(rest) >= dt - m
  <2>1. m \in Nat /\ Len(U) = 2 + bl + dt /\ p + Len(U) <= Len(Stream) + 1
    BY <1>7, <1>10, <1>11 DEF m
  <2> QED
    BY ONLY <1>3, <1>6, <1>9, <2>1
<1>19. h \in 1 .. Len(sent) + 1 /\ h + 1 \in 1 .. Len(sent) + 1
  BY ONLY <1>3, <1>5
<1>20. /\ Begins(peer.speaks, sent, <<>> \o wire \o rest, h, 1 - (2 + bl + m))
       /\ Begins(peer.speaks, sent, <<>> \o wire \o rest, h + 1, 1 + (dt - m))
  BY ONLY <1>3, <1>9, <1>10, <1>18
<1>21. /\ peer.speaks = "datalink" /\ buffer = <<>> /\ h = Len(handled) + 1 /\ h <= Len(sent)
       /\ IsPrefix(Body(h), writing.text) /\ m < dt /\ m \in Nat /\ m = Len(writing.data)
       /\ writing \in Got /\ writing.cmd = h
  BY <1>2, <1>11 DEF m, h
<1>22. MoreData(h, m, n)
  BY ONLY <1>3, <1>5, <1>6, <1>12, <1>16, <1>17, <1>18, <1>19, <1>20, <1>21 DEF MoreData, bl, dt, more
<1> QED
  BY <1>22 DEF h, m, n, dt

LEMMA DataHolds ==
  ASSUME SessionInv, RecvData
  PROVE  SessionInv'
<1> DEFINE need == sent[writing.cmd].data - Len(writing.data)
           n    == Min({need, Len(wire)})
           left == SubSeq(wire, n + 1, Len(wire))
           data == writing.data \o SubSeq(wire, 1, n)
           got  == [writing EXCEPT !.data = data]
<1>1. /\ closed = "no" /\ writing # NoWrite
      /\ peer' = peer /\ sent' = sent /\ rest' = rest /\ ahead' = ahead /\ type' = type
      /\ buffer' = buffer /\ dlcommand' = dlcommand
  BY DEF RecvData
<1>2. \/ wire # <<>> /\ wire' = left /\ n < need /\ writing' = got /\ closed' = closed /\ handled' = handled
      \/ wire # <<>> /\ wire' = left /\ n = need /\ writing' = NoWrite /\ Finish(got)
      \/ /\ wire = <<>> /\ peer.gone /\ closed' = "fin"
         /\ wire' = wire /\ writing' = writing /\ handled' = handled
  BY DEF RecvData
<1>3. MoreData(writing.cmd, Len(writing.data), n)
  BY <1>1, DataArrives
<1>4. PICK h : h = writing.cmd
  OBVIOUS
<1>5. PICK m : m = Len(writing.data)
  OBVIOUS
<1>6. MoreData(h, m, n) /\ need = sent[h].data - m
  BY <1>3, <1>4, <1>5
<1> HIDE DEF need, n, data
<1>7. /\ h = writing.cmd /\ h = Len(handled) + 1 /\ h \in Nat /\ h <= Len(sent) /\ Len(sent) \in Nat
      /\ h \in 1 .. Len(sent) + 1 /\ h + 1 \in 1 .. Len(sent) + 1
      /\ peer.speaks = "datalink" /\ buffer = <<>> /\ sent[h].body \in Nat /\ sent[h].data \in Nat
      /\ m \in Nat /\ m < sent[h].data /\ n \in 0 .. Len(wire) /\ Len(wire) \in Nat
      /\ n <= need /\ (n < need => n = Len(wire)) /\ Len(wire) + Len(rest) >= need /\ Len(rest) \in Nat
  BY <1>4, <1>6 DEF MoreData
<1>8. /\ writing \in Got /\ IsPrefix(Body(h), writing.text)
      /\ data = Repeat(<<h, "data">>, m + n) /\ data \in Seq(Unit) /\ Len(data) = m + n
  BY <1>6 DEF MoreData, data
<1>9. /\ wire \in Seq(Unit) /\ rest \in Seq(Unit) /\ sent \in Seq(Command)
      /\ Begins(peer.speaks, sent, <<>> \o wire \o rest, h, 1 - (2 + sent[h].body + m))
      /\ Begins(peer.speaks, sent, <<>> \o wire \o rest, h + 1, 1 + need)
  BY <1>6, PartsOf DEF MoreData, Parts
<1>10. left \in Seq(Unit)
  BY ONLY <1>7, <1>9
<1>11. /\ Begins(peer.speaks, sent, <<>> \o left \o rest, h, (1 - (2 + sent[h].body + m)) - n)
       /\ Begins(peer.speaks, sent, <<>> \o left \o rest, h + 1, (1 + need) - n)
  <2>1. Begins(peer.speaks, sent, <<>> \o left \o rest, h, (1 - (2 + sent[h].body + m)) - n)
    BY ONLY <1>7, <1>9, ConsumesWire
  <2>2. Begins(peer.speaks, sent, <<>> \o left \o rest, h + 1, (1 + need) - n)
    BY ONLY <1>7, <1>9, ConsumesWire
  <2> QED
    BY ONLY <2>1, <2>2
<1> HIDE DEF left
<1>12. got \in Got /\ got.cmd = h /\ got.text = writing.text /\ got.data = data
  BY <1>7, <1>8 DEF Got
<1>13. type = "datalink"
  BY <1>1 DEF SessionInv, TypeOK
<1> HIDE DEF got
<1> USE DEF SessionInv
<1>14. CASE wire' = left /\ n < need /\ writing' = got /\ closed' = closed /\ handled' = handled
  <2>1. n = Len(wire) /\ got # NoWrite
    BY <1>7, <1>12, <1>14 DEF NoWrite
  <2>2. Types'
    BY <1>1, <1>10, <1>12, <1>14 DEF Types
  <2>3. m + n < sent[h].data /\ Len(data) = m + n
    <3>1. n < need /\ need = sent[h].data - m
      BY <1>6, <1>14
    <3>2. m \in Nat /\ n \in Nat /\ sent[h].data \in Nat
      BY ONLY <1>7
    <3>3. m + n < sent[h].data
      BY ONLY <3>1, <3>2
    <3> QED
      BY <1>8, <3>3
  <2>4. TypeOK'
    BY <1>1, <1>12, <1>13, <1>14, <2>3 DEF TypeOK
  <2>5. Framed'
    <3>1. Stream' = <<>> \o left \o rest
      BY <1>1, <1>7, <1>14 DEF Stream
    <3>2. PICK q \in Int : q = (1 - (2 + sent[h].body + m)) - n
      <4>1. sent[h].body \in Nat /\ m \in Nat /\ n \in Nat
        BY ONLY <1>7
      <4>2. (1 - (2 + sent[h].body + m)) - n \in Int
        BY ONLY <4>1
      <4> QED
        BY ONLY <4>2
    <3>3. Begins(peer.speaks, sent, Stream', h, q)
      <4>1. Begins(peer.speaks, sent, <<>> \o left \o rest, h, (1 - (2 + sent[h].body + m)) - n)
        BY ONLY <1>11
      <4>2. Begins(peer.speaks, sent, <<>> \o left \o rest, h, q)
        BY ONLY <3>2, <4>1
      <4> QED
        BY ONLY <3>1, <4>2
    <3>4. q = 1 - (2 + sent[h].body + Len(data))
      <4>1. sent[h].body \in Nat /\ m \in Nat /\ n \in Nat
        BY ONLY <1>7
      <4>2. Len(data) = m + n
        BY ONLY <2>3
      <4> QED
        BY ONLY <3>2, <4>1, <4>2
    <3>5. NextAt(q)'
      BY <1>1, <1>12, <1>14, <2>1, <3>4 DEF NextAt, NoWrite
    <3>6. Len(handled') <= Len(sent')
      BY <1>1, <1>14 DEF TypeOK
    <3> QED
      BY <1>1, <1>7, <1>14, <3>2, <3>3, <3>5, <3>6 DEF Framed
  <2>6. Guessed'
    BY <1>1, <1>7, <1>13 DEF Guessed, Line, Misread
  <2>7. WritingOK'
    <3>1. IsPrefix(Repeat(<<h, "body">>, sent[h].body), writing.text)
      BY <1>7, <1>8 DEF Body
    <3>2. data = Repeat(<<h, "data">>, Len(data))
      BY <1>8
    <3> QED
      BY <1>1, <1>7, <1>12, <1>14, <2>3, <3>1, <3>2 DEF WritingOK, Body
  <2>8. Waiting'
    BY <1>1, <1>14, <2>1 DEF Waiting, NoWrite
  <2>9. CommandsInOrder'
    BY <1>1, <1>14, OrderKept
  <2>10. FinLosesNothing'
    BY <1>1, <1>14 DEF FinLosesNothing
  <2> QED
    BY <2>2, <2>4, <2>5, <2>6, <2>7, <2>8, <2>9, <2>10
<1>15. CASE wire' = left /\ n = need /\ writing' = NoWrite /\ Finish(got)
  <2>1. handled' = Append(handled, got) /\ closed' \in {"no", "command"}
    BY <1>15 DEF Finish
  <2>2. data = Data(h)
    <3>1. m + n = sent[h].data
      <4>1. n = need /\ need = sent[h].data - m
        BY <1>6, <1>15
      <4> QED
        BY ONLY <1>7, <4>1
    <3> QED
      BY <1>8, <3>1 DEF Data
  <2>3. /\ handled' \in Seq(Got) /\ Len(handled') = h /\ CommandsInOrder'
    BY <1>1, <1>7, <1>8, <1>12, <2>1, <2>2, OrderGrows
  <2>4. Types'
    <3>1. NoWrite \in Got
      BY DEF NoWrite, Got
    <3> QED
      BY <1>1, <1>10, <1>15, <2>3, <3>1 DEF Types
  <2>5. TypeOK'
    BY <1>1, <1>7, <1>15, <2>1, <2>3 DEF TypeOK, Reasons, NoWrite
  <2>6. Framed'
    <3>1. (1 + need) - n = 1
      <4>1. n = need /\ n \in Nat
        BY <1>7, <1>15
      <4> QED
        BY ONLY <4>1
    <3>2. Stream' = <<>> \o left \o rest
      BY <1>1, <1>7, <1>15 DEF Stream
    <3>3. Begins(peer.speaks, sent, Stream', h + 1, 1)
      BY ONLY <1>11, <3>1, <3>2
    <3>4. NextAt(1)'
      BY <1>1, <1>13, <1>15 DEF NextAt, Line, NoWrite
    <3> QED
      BY <1>1, <1>7, <2>3, <3>3, <3>4 DEF Framed
  <2>7. Guessed'
    BY <1>1, <1>7, <1>13 DEF Guessed, Line, Misread
  <2>8. WritingOK'
    BY <1>15 DEF WritingOK, NoWrite
  <2>9. Waiting'
    <3>1. peer.speaks = "datalink" /\ ~ahead => Len(sent) <= Len(handled) + 1
      BY DEF Waiting
    <3>2. rest # <<>> => Len(sent) >= 1 /\ Len(rest) <= Len(UnitsOf(peer.speaks, Len(sent), sent[Len(sent)]))
      BY DEF Waiting
    <3>3. ~ahead => Len(sent) <= h /\ Len(sent) # h + 1 /\ Len(sent) <= h + 1
      BY ONLY <1>7, <3>1
    <3> QED
      BY <1>1, <2>1, <2>3, <3>2, <3>3 DEF Waiting
  <2>10. FinLosesNothing'
    BY <2>1 DEF FinLosesNothing
  <2> QED
    BY <2>3, <2>4, <2>5, <2>6, <2>7, <2>8, <2>9, <2>10
<1>16. CASE /\ wire = <<>> /\ peer.gone /\ closed' = "fin"
            /\ wire' = wire /\ writing' = writing /\ handled' = handled
  <2>1. Types' /\ TypeOK' /\ Framed'
    BY <1>1, <1>16 DEF Types, TypeOK, Framed, Reasons, NoWrite
  <2>2. Guessed'
    BY <1>1, <1>16 DEF Guessed, Line, Misread, NoWrite
  <2>3. WritingOK'
    BY <1>1, <1>7, <1>16, WritingKept
  <2>4. Waiting'
    BY <1>1, <1>16 DEF Waiting
  <2>5. CommandsInOrder'
    BY <1>1, <1>16, OrderKept
  <2>6. FinLosesNothing'
    <3>1. ASSUME ~ahead, NEW k \in DOMAIN sent, SentWhole(k) PROVE k <= Len(handled)
      <4>1. Len(sent) <= h
        BY <1>7, <3>1 DEF Waiting
      <4>2. k \in Nat /\ k <= Len(sent) /\ Len(handled) \in Nat
        BY PartsOf DEF Parts
      <4>3. rest # <<>>
        <5>1. Len(wire) = 0
          BY <1>16
        <5>2. need >= 1 /\ need \in Nat
          <6>1. need = sent[h].data - m
            BY <1>6
          <6> QED
            BY ONLY <1>7, <6>1
        <5>4. Len(wire) + Len(rest) >= need /\ Len(rest) \in Nat
          BY ONLY <1>7
        <5>3. Len(rest) >= 1
          BY ONLY <5>1, <5>2, <5>4
        <5> QED
          BY <5>3
      <4>4. k < Len(sent)
        BY <3>1, <4>3 DEF SentWhole
      <4> QED
        BY ONLY <1>7, <4>1, <4>2, <4>4
    <3> QED
      BY <1>1, <1>16, <3>1 DEF FinLosesNothing, Misread, SentWhole
  <2> QED
    BY <2>1, <2>2, <2>3, <2>4, <2>5, <2>6
<1> QED
  BY <1>2, <1>14, <1>15, <1>16

-----------------------------------------------------------------------------
(* Lines                                                                   *)

\* n is the number of terminators b begins with.
Skipped(b, n) ==
  /\ n \in 0 .. Len(b)
  /\ \A i \in 1 .. n : IsTerminator(b[i])
  /\ n < Len(b) => ~IsTerminator(b[n + 1])

LEMMA LeadingHolds ==
  ASSUME NEW b \in Seq(Unit)
  PROVE  Skipped(b, LeadingTerminators(b))
<1> DEFINE T == {n \in 0 .. Len(b) : \A i \in 1 .. n : IsTerminator(b[i])}
           m == Max(T)
<1>1. Len(b) \in Nat
  OBVIOUS
<1>2. T \subseteq 0 .. Len(b) /\ 0 \in T
  BY <1>1
<1>3. \A n : n \in T <=> n \in 0 .. Len(b) /\ \A i \in 1 .. n : IsTerminator(b[i])
  OBVIOUS
<1>4. LeadingTerminators(b) = m
  BY DEF LeadingTerminators
<1> HIDE DEF T
<1>5. m \in T /\ \A y \in T : y <= m
  <2>1. T # {}
    BY <1>2
  <2> QED
    BY ONLY <1>1, <1>2, <2>1, MaxOf, Zenon DEF m
<1> HIDE DEF m
<1>6. ASSUME m < Len(b), IsTerminator(b[m + 1]) PROVE FALSE
  <2>1. m \in Nat /\ m + 1 \in 0 .. Len(b)
    BY <1>1, <1>2, <1>5, <1>6
  <2>2. \A i \in 1 .. m + 1 : IsTerminator(b[i])
    <3> TAKE i \in 1 .. m + 1
    <3>1. CASE i = m + 1
      BY <1>6, <3>1
    <3>2. CASE i # m + 1
      <4>1. i \in 1 .. m
        BY ONLY <2>1, <3>2, i \in 1 .. m + 1
      <4> QED
        BY <1>3, <1>5, <4>1
    <3> QED
      BY <3>1, <3>2
  <2>3. m + 1 \in T
    BY <1>3, <2>1, <2>2
  <2> QED
    BY <1>5, <2>1, <2>3
<1> QED
  BY <1>3, <1>4, <1>5, <1>6 DEF Skipped

\* The stream behind what has been taken from the buffer, of which b is left: before the
\* next command there are only terminators.
Comes(b, w, k) ==
  \E q \in Int : /\ q >= 1 /\ Begins(peer.speaks, sent, b \o w \o rest, k, q)
                 /\ \A i \in 1 .. q - 1 : IsTerminator((b \o w \o rest)[i])

\* A part of the terminators, and no more, has been consumed.
LEMMA ComesStill ==
  ASSUME NEW b \in Seq(Unit), NEW w \in Seq(Unit), rest \in Seq(Unit), sent \in Seq(Command),
         NEW k \in 1 .. Len(sent) + 1, NEW n \in 0 .. Len(b), NEW q \in Int, n < q,
         Begins(peer.speaks, sent, b \o w \o rest, k, q),
         \A i \in n + 1 .. q - 1 : IsTerminator((b \o w \o rest)[i])
  PROVE  Comes(SubSeq(b, n + 1, Len(b)), w, k)
<1> DEFINE b2 == SubSeq(b, n + 1, Len(b))
           F  == b \o w \o rest
           G  == b2 \o w \o rest
<1>1. Begins(peer.speaks, sent, G, k, q - n)
  BY Consumes
<1>2. Dropped(F, b, w, rest, n, b2)
  BY Drops
<1>3. Len(b) \in Nat /\ n \in Nat /\ q - n \in Int /\ q - n >= 1
  OBVIOUS
<1>4. F \in Seq(Unit) /\ q <= Len(F) + 1
  <2>1. Chained(F, b, w, rest)
    BY Chains
  <2>2. F \in Seq(Unit)
    BY ONLY <2>1 DEF Chained
  <2> HIDE DEF F
  <2>3. Begins(peer.speaks, sent, F, k, q)
    BY DEF F
  <2> QED
    BY <2>2, <2>3, LastBegins
<1>5. \A i \in n + 1 .. q - 1 : IsTerminator(F[i])
  OBVIOUS
<1> HIDE DEF b2, F, G
<1>6. ASSUME NEW i \in 1 .. (q - n) - 1 PROVE IsTerminator(G[i])
  <2>1. i \in 1 .. Len(F) - n /\ i + n \in n + 1 .. q - 1
    <3>1. Len(F) \in Nat
      BY <1>4
    <3> QED
      BY ONLY <1>3, <1>4, <3>1, q \in Int, i \in 1 .. (q - n) - 1
  <2>2. G[i] = F[i + n]
    BY ONLY <1>2, <2>1 DEF Dropped, G
  <2> QED
    BY <1>5, <2>1, <2>2
<1>7. /\ q - n \in Int /\ q - n >= 1 /\ Begins(peer.speaks, sent, b2 \o w \o rest, k, q - n)
      /\ \A i \in 1 .. (q - n) - 1 : IsTerminator((b2 \o w \o rest)[i])
  BY ONLY <1>1, <1>3, <1>6 DEF G
<1>8. Comes(b2, w, k)
  BY ONLY <1>7 DEF Comes
<1> QED
  BY <1>8 DEF b2

\* The terminators that RecvLine skips are behind the last line.
LineBehind(b, w, line) ==
  /\ line \in Seq(Unit) /\ Len(line) \in Nat /\ Len(line) <= Len(b)
  /\ Len(line) > 0 => ~IsTerminator(line[1])
  /\ Comes(line, w, Len(handled) + 1)

LEMMA SkipHolds ==
  ASSUME SessionInv, Idle, Line, NEW b, NEW w, Holds(b, w)
  PROVE  LineBehind(b, w, SubSeq(b, LeadingTerminators(b) + 1, Len(b)))
<1> DEFINE n    == LeadingTerminators(b)
           line == SubSeq(b, n + 1, Len(b))
           h    == Len(handled) + 1
           U    == UnitsOf(peer.speaks, h, sent[h])
<1>1. Parts /\ closed = "no" /\ writing = NoWrite /\ peer.speaks # "datalink"
  BY PartsOf DEF Idle, SessionInv, Guessed
<1>2. /\ b \in Seq(Unit) /\ w \in Seq(Unit) /\ rest \in Seq(Unit) /\ sent \in Seq(Command)
      /\ Len(b) \in Nat /\ b \o w \o rest = Stream /\ Len(b) <= Len(Stream) /\ Len(Stream) \in Nat
      /\ \A i \in 1 .. Len(b) : Stream[i] = b[i]
  BY <1>1 DEF Holds, Parts, Chained
<1>3. Skipped(b, n)
  BY <1>2, LeadingHolds
<1> HIDE DEF n
<1>4. /\ n \in 0 .. Len(b) /\ \A i \in 1 .. n : IsTerminator(b[i])
      /\ n < Len(b) => ~IsTerminator(b[n + 1])
  BY <1>3 DEF Skipped
<1>5. /\ line \in Seq(Unit) /\ Len(line) = Len(b) - n
      /\ \A i \in 1 .. Len(line) : line[i] = b[i + n]
  BY ONLY <1>2, <1>4
<1>6. PICK q \in Int : NextIs(q)
  BY <1>1, NextCommand
<1>7. /\ q >= 1 /\ \A i \in 1 .. q - 1 : IsTerminator(Stream[i])
      /\ Begins(peer.speaks, sent, Stream, h, q)
  BY <1>1, <1>6 DEF NextIs, NextAt
<1>8. n < q
  <2>1. CASE Len(handled) = Len(sent)
    <3>1. q = Len(Stream) + 1
      BY <1>6, <2>1 DEF NextIs
    <3> QED
      BY ONLY <1>2, <1>4, <3>1
  <2>2. CASE Len(handled) # Len(sent)
    <3>1. Len(handled) < Len(sent)
      BY <1>1, <2>2 DEF Parts
    <3>2. LineForm(U, h, sent[h])
      BY <1>1, <3>1, NextUnits
    <3>3. Len(U) >= 2 /\ Len(U) \in Nat /\ \A i \in 1 .. Len(U) : q + i - 1 >= 1 => Stream[q + i - 1] = U[i]
      BY <1>6, <3>1 DEF NextIs, Stands
    <3> HIDE DEF U
    <3>4. 1 \in 1 .. Len(U) /\ q + 1 - 1 = q
      BY ONLY <3>3, q \in Int
    <3>5. Stream[q] = U[1]
      BY ONLY <1>7, <3>3, <3>4
    <3>6. ~IsTerminator(Stream[q])
      BY <3>2, <3>5 DEF LineForm, IsTerminator
    <3> SUFFICES ASSUME q <= n PROVE FALSE
      <4>1. n \in Int
        BY ONLY <1>4
      <4> QED
        BY <4>1
    <3>7. q \in 1 .. n /\ q \in 1 .. Len(b)
      BY ONLY <1>2, <1>4, <1>7, q \in Int, q <= n
    <3> QED
      BY <1>2, <1>4, <3>6, <3>7
  <2> QED
    BY <2>1, <2>2
<1>9. Len(line) > 0 => ~IsTerminator(line[1])
  <2> SUFFICES ASSUME Len(line) > 0 PROVE ~IsTerminator(line[1])
    OBVIOUS
  <2>1. 1 \in 1 .. Len(line) /\ n < Len(b) /\ 1 + n = n + 1
    BY ONLY <1>2, <1>4, <1>5, Len(line) > 0
  <2>2. line[1] = b[n + 1]
    BY ONLY <1>5, <2>1
  <2> QED
    BY <1>4, <2>1, <2>2
<1>10. Comes(line, w, h)
  <2>1. h \in 1 .. Len(sent) + 1
    BY <1>1 DEF Parts
  <2>2. Begins(peer.speaks, sent, b \o w \o rest, h, q)
    BY ONLY <1>2, <1>7
  <2>3. \A i \in n + 1 .. q - 1 : IsTerminator((b \o w \o rest)[i])
    <3> TAKE i \in n + 1 .. q - 1
    <3>1. i \in 1 .. q - 1
      BY ONLY <1>4, q \in Int, i \in n + 1 .. q - 1
    <3> QED
      BY <1>2, <1>7, <3>1
  <2> QED
    BY ONLY <1>2, <1>4, <1>8, <2>1, <2>2, <2>3, q \in Int, ComesStill
<1>11. Len(line) \in Nat /\ Len(line) <= Len(b)
  BY ONLY <1>2, <1>4, <1>5
<1> QED
  BY <1>5, <1>9, <1>10, <1>11 DEF LineBehind, n

LEMMA LeastIs ==
  ASSUME NEW S \in SUBSET Int, NEW n \in S, \A y \in S : n <= y
  PROVE  Min(S) = n
<1>1. \E x \in S : \A y \in S : x <= y
  OBVIOUS
<1>2. Min(S) \in S /\ \A y \in S : Min(S) <= y
  BY ONLY <1>1 DEF Min
<1>3. Min(S) <= n /\ n <= Min(S) /\ Min(S) \in Int
  BY <1>2
<1> QED
  BY ONLY <1>3, n \in Int

\* The line that RunInner takes is the next command, and what it consumes ends within it.
IsLine(line, w) ==
  LET h == Len(handled) + 1
      c == Consumed(line)
  IN /\ Len(handled) < Len(sent) /\ line[1] = <<h, "two">> /\ line[2] = <<h, "text">>
     /\ LineLen(line) = 2 /\ c \in 3 .. Len(line)
     /\ Comes(SubSeq(line, c + 1, Len(line)), w, h + 1)

LEMMA LineFound ==
  ASSUME SessionInv, Line, NEW b, NEW w \in Seq(Unit), NEW line, LineBehind(b, w, line),
         HasTerminator(line)
  PROVE  IsLine(line, w)
<1> DEFINE h == Len(handled) + 1
           U == UnitsOf(peer.speaks, h, sent[h])
           G == line \o w \o rest
           c == Consumed(line)
<1>1. Parts /\ peer.speaks # "datalink"
  BY PartsOf DEF SessionInv, Guessed
<1>2. /\ line \in Seq(Unit) /\ rest \in Seq(Unit) /\ sent \in Seq(Command)
      /\ Len(line) \in Nat /\ DOMAIN line = 1 .. Len(line)
      /\ Len(sent) \in Nat /\ Len(handled) \in Nat /\ Len(handled) <= Len(sent)
  BY <1>1 DEF LineBehind, Parts
<1>3. Chained(G, line, w, rest)
  BY <1>2, Chains
<1>4. PICK q \in Int : /\ q >= 1 /\ Begins(peer.speaks, sent, G, h, q)
                       /\ \A i \in 1 .. q - 1 : IsTerminator(G[i])
  BY DEF LineBehind, Comes
<1> HIDE DEF G
<1>5. /\ G \in Seq(Unit) /\ Len(G) \in Nat /\ Len(G) >= Len(line)
      /\ \A i \in 1 .. Len(line) : G[i] = line[i]
  BY <1>3 DEF Chained
<1>6. PICK j \in 1 .. Len(line) : IsTerminator(line[j])
  BY <1>2 DEF HasTerminator
<1>7. Len(line) > 0 /\ 1 \in 1 .. Len(line)
  BY <1>2
<1>8. ~IsTerminator(line[1])
  BY <1>7 DEF LineBehind
<1>9. q = 1
  <2> SUFFICES ASSUME q # 1 PROVE FALSE
    OBVIOUS
  <2>1. 1 \in 1 .. q - 1
    BY <1>4
  <2> QED
    BY <1>4, <1>5, <1>7, <1>8, <2>1
<1>10. Len(handled) < Len(sent)
  <2>1. h \in 1 .. Len(sent) + 1
    BY <1>2
  <2>2. h = Len(sent) + 1 => q = Len(G) + 1
    BY ONLY <1>2, <1>4, <1>5, <2>1, LastBegins
  <2>3. Len(G) \in Nat /\ Len(G) >= 1
    BY ONLY <1>2, <1>5, <1>7
  <2>4. Len(sent) \in Nat /\ Len(handled) \in Nat /\ Len(handled) <= Len(sent)
    BY ONLY <1>2
  <2> QED
    BY ONLY <1>9, <2>2, <2>3, <2>4
<1>11. /\ h \in 1 .. Len(sent) /\ h \in Nat /\ LineForm(U, h, sent[h]) /\ Len(sent[h].end) \in Nat \ {0}
  BY <1>1, <1>10, NextUnits
<1>12. Stands(peer.speaks, sent, G, h, q)
  BY ONLY <1>2, <1>4, <1>5, <1>11, NextBegins
<1>13. /\ Len(U) \in Nat /\ Begins(peer.speaks, sent, G, h + 1, q + Len(U))
       /\ q + Len(U) <= Len(G) + 1
       /\ \A i \in 1 .. Len(U) : q + i - 1 >= 1 => G[q + i - 1] = U[i]
  BY <1>12 DEF Stands
<1>14. Len(U) >= 3 /\ Len(U) = 2 + Len(sent[h].end)
  BY <1>11 DEF LineForm
<1>15. /\ U[1] = <<h, "two">> /\ U[2] = <<h, "text">>
       /\ \A i \in 3 .. Len(U) : IsTerminator(U[i])
  BY <1>11 DEF LineForm
<1> HIDE DEF U, h
<1>16. \A i \in 1 .. Len(U) : G[i] = U[i]
  <2> TAKE i \in 1 .. Len(U)
  <2>1. q + i - 1 = i /\ i >= 1
    BY ONLY <1>9, <1>13, i \in 1 .. Len(U)
  <2> QED
    BY ONLY <1>13, <2>1, i \in 1 .. Len(U)
<1>17. ~IsTerminator(U[1]) /\ ~IsTerminator(U[2])
  BY <1>15 DEF IsTerminator
<1>18. \A i \in 1 .. Len(line) : i <= 2 => ~IsTerminator(line[i])
  <2> TAKE i \in 1 .. Len(line)
  <2>1. i <= 2 => (i = 1 \/ i = 2) /\ i \in 1 .. Len(U)
    BY ONLY <1>2, <1>13, <1>14, i \in 1 .. Len(line)
  <2> QED
    BY <1>5, <1>16, <1>17, <2>1
<1>19. j >= 3 /\ Len(line) >= 3 /\ 1 \in 1 .. Len(line) /\ 2 \in 1 .. Len(line) /\ 3 \in 1 .. Len(line)
  <2>1. ~(j <= 2)
    BY <1>6, <1>18
  <2> QED
    BY ONLY <1>2, <2>1, j \in 1 .. Len(line)
<1>20. /\ line[1] = <<h, "two">> /\ line[2] = <<h, "text">> /\ IsTerminator(line[3])
  <2>1. 1 \in 1 .. Len(U) /\ 2 \in 1 .. Len(U) /\ 3 \in 1 .. Len(U) /\ 3 \in 3 .. Len(U)
    BY ONLY <1>13, <1>14
  <2>2. line[1] = U[1] /\ line[2] = U[2] /\ line[3] = U[3]
    BY ONLY <1>5, <1>16, <1>19, <2>1
  <2> QED
    BY <1>15, <2>1, <2>2
<1>21. LineLen(line) = 2
  <2> DEFINE S == {i \in DOMAIN line : IsTerminator(line[i])}
  <2>1. S \in SUBSET Int /\ 3 \in S
    BY <1>2, <1>19, <1>20
  <2>2. \A y \in S : 3 <= y
    BY <1>2, <1>18
  <2>3. LineLen(line) = Min(S) - 1
    BY DEF LineLen
  <2> HIDE DEF S
  <2>4. Min(S) = 3
    BY <2>1, <2>2, LeastIs
  <2> QED
    BY ONLY <2>3, <2>4
<1>22. c = 3 \/ (c = 4 /\ 4 \in 1 .. Len(line) /\ line[4][2] = "lf")
  BY <1>2, <1>21 DEF Consumed
<1> HIDE DEF c
<1>23. Len(U) >= c
  <2> SUFFICES ASSUME c = 4, 4 \in 1 .. Len(line), line[4][2] = "lf", Len(U) = 3 PROVE FALSE
    BY <1>13, <1>14, <1>22
  <2>1. Begins(peer.speaks, sent, G, h + 1, 4) /\ line[4] = G[4] /\ Len(G) >= 4
    <3>1. q + Len(U) = 4
      BY <1>9
    <3>2. Begins(peer.speaks, sent, G, h + 1, 4)
      BY ONLY <1>13, <3>1
    <3>3. line[4] = G[4]
      BY <1>5
    <3>4. Len(G) >= 4
      BY ONLY <1>2, <1>5, 4 \in 1 .. Len(line)
    <3> QED
      BY ONLY <3>2, <3>3, <3>4
  <2>2. CASE h = Len(sent)
    <3>1. h + 1 \in 1 .. Len(sent) + 1 /\ h + 1 = Len(sent) + 1
      BY ONLY <1>2, <2>2
    <3>2. 4 = Len(G) + 1
      BY ONLY <1>2, <1>5, <2>1, <3>1, LastBegins
    <3> QED
      BY ONLY <1>5, <2>1, <3>2
  <2>3. CASE h # Len(sent)
    <3>1. h + 1 \in 1 .. Len(sent) /\ h + 1 \in Nat
      BY ONLY <1>2, <1>11, <2>3
    <3>2. Stands(peer.speaks, sent, G, h + 1, 4)
      BY ONLY <1>2, <1>5, <2>1, <3>1, NextBegins
    <3> DEFINE V == UnitsOf(peer.speaks, h + 1, sent[h + 1])
    <3>3. Len(V) \in Nat /\ Len(V) >= 2 /\ \A i \in 1 .. Len(V) : 4 + i - 1 >= 1 => G[4 + i - 1] = V[i]
      BY <3>2 DEF Stands
    <3>4. LineForm(V, h + 1, sent[h + 1])
      <4>1. sent[h + 1] \in Command
        BY <1>2, <3>1
      <4> QED
        BY <1>1, <3>1, <4>1, LineUnits
    <3>5. V[1] = <<h + 1, "two">>
      BY <3>4 DEF LineForm
    <3> HIDE DEF V
    <3>6. 1 \in 1 .. Len(V) /\ 4 + 1 - 1 = 4 /\ 4 >= 1
      BY ONLY <3>3
    <3>7. G[4] = V[1]
      BY ONLY <3>3, <3>6
    <3> QED
      BY <2>1, <3>5, <3>7
  <2> QED
    BY <2>2, <2>3
<1>24. c \in 3 .. Len(line) /\ c \in 0 .. Len(line) /\ c < q + Len(U) /\ q + Len(U) \in Int
  BY ONLY <1>2, <1>9, <1>13, <1>19, <1>22, <1>23
<1>25. Comes(SubSeq(line, c + 1, Len(line)), w, h + 1)
  <2>1. h + 1 \in 1 .. Len(sent) + 1
    BY ONLY <1>2, <1>11
  <2>2. \A i \in c + 1 .. (q + Len(U)) - 1 : IsTerminator(G[i])
    <3> TAKE i \in c + 1 .. (q + Len(U)) - 1
    <3>1. i \in 1 .. Len(U) /\ i \in 3 .. Len(U)
      BY ONLY <1>9, <1>13, <1>24, i \in c + 1 .. (q + Len(U)) - 1
    <3>2. G[i] = U[i]
      BY ONLY <1>16, <3>1
    <3> QED
      BY <1>15, <3>1, <3>2
  <2>3. /\ Begins(peer.speaks, sent, line \o w \o rest, h + 1, q + Len(U))
        /\ \A i \in c + 1 .. (q + Len(U)) - 1 : IsTerminator((line \o w \o rest)[i])
    BY ONLY <1>13, <2>2 DEF G
  <2> QED
    BY ONLY <1>2, <1>24, <2>1, <2>3, w \in Seq(Unit), ComesStill
<1> QED
  BY ONLY <1>10, <1>20, <1>21, <1>24, <1>25 DEF IsLine, h, c

\* What RecvLine leaves in the buffer, before the next command that it leaves unhandled.
LEMMA ComesFramed ==
  ASSUME Parts, Line, closed' = "no", NEW b, NEW w, NEW k, Comes(b, w, k),
         buffer' = b, wire' = w, rest' = rest, peer' = peer, sent' = sent, type' = type,
         writing' = NoWrite, k = Len(handled') + 1, Len(handled') <= Len(sent)
  PROVE  Framed'
<1>1. PICK q \in Int : /\ q >= 1 /\ Begins(peer.speaks, sent, b \o w \o rest, k, q)
                       /\ \A i \in 1 .. q - 1 : IsTerminator((b \o w \o rest)[i])
  BY DEF Comes
<1>2. Stream' = b \o w \o rest
  BY DEF Stream
<1>3. /\ Begins(peer.speaks, sent, Stream', k, q)
      /\ \A i \in 1 .. q - 1 : IsTerminator(Stream'[i])
  BY <1>1, <1>2
<1>4. NextAt(q)'
  BY <1>1, <1>3 DEF NextAt, Line, NoWrite, IsTerminator
<1> QED
  BY <1>3, <1>4 DEF Framed

LEMMA LineHolds ==
  ASSUME SessionInv, RecvLine
  PROVE  SessionInv'
<1>1. PICK all \in {IF MustReceive(buffer) THEN Received ELSE buffer} :
      \E skip \in {LeadingTerminators(all)} :
      \E line \in {SubSeq(all, skip + 1, Len(all))} :
        \/ /\ skip >= MaxEmptyLines
           /\ closed' = "empty lines" /\ buffer' = all /\ handled' = handled
        \/ /\ skip < MaxEmptyLines /\ ~HasTerminator(line)
           /\ buffer' = line /\ closed' = closed /\ handled' = handled
        \/ /\ skip < MaxEmptyLines /\ HasTerminator(line)
           /\ Finish([cmd |-> line[1][1], text |-> SubSeq(line, 1, LineLen(line)), data |-> <<>>])
           /\ buffer' = SubSeq(line, Consumed(line) + 1, Len(line))
  BY DEF RecvLine
<1> DEFINE line == SubSeq(all, LeadingTerminators(all) + 1, Len(all))
           got  == [cmd |-> line[1][1], text |-> SubSeq(line, 1, LineLen(line)), data |-> <<>>]
           left == SubSeq(line, Consumed(line) + 1, Len(line))
           h    == Len(handled) + 1
           w    == IF MustReceive(buffer) THEN SubSeq(wire, Len(Arrived) + 1, Len(wire)) ELSE wire
<1>2. \/ closed' = "empty lines" /\ buffer' = all /\ handled' = handled
      \/ buffer' = line /\ closed' = closed /\ handled' = handled
      \/ HasTerminator(line) /\ Finish(got) /\ buffer' = left
  BY <1>1
<1>3. /\ Idle /\ Line /\ (MustReceive(buffer) => Room > 0) /\ wire' = w
      /\ peer' = peer /\ sent' = sent /\ rest' = rest /\ ahead' = ahead /\ type' = type
      /\ dlcommand' = dlcommand /\ writing' = writing
  BY DEF RecvLine, Line
<1>4. Holds(all, w)
  <2>1. CASE MustReceive(buffer)
    BY <1>1, <1>3, <2>1, ReceivedHolds
  <2>2. CASE ~MustReceive(buffer)
    BY <1>1, <2>2, UnreceivedHolds
  <2> QED
    BY <2>1, <2>2
<1> HIDE DEF w
<1>5. /\ Parts /\ closed = "no" /\ writing = NoWrite /\ peer.speaks # "datalink"
      /\ type # "undetermined" /\ type # "datalink" /\ ~Misread
  BY <1>3, PartsOf DEF Idle, SessionInv, Guessed, Line, Misread
<1>6. /\ all \in Seq(Unit) /\ w \in Seq(Unit) /\ Len(all) \in Nat /\ Len(all) <= RecvBufferSize
      /\ RecvBufferSize \in Nat
  BY <1>4, SessionAssumption DEF Holds, SessionAssumption
<1>7. LineBehind(all, w, line)
  BY <1>3, <1>4, SkipHolds
<1> HIDE DEF line
<1>8. /\ line \in Seq(Unit) /\ Len(line) \in Nat /\ Len(line) <= Len(all)
      /\ Comes(line, w, h)
  BY <1>7 DEF LineBehind
<1>9. /\ dlcommand' \in [1 .. MaxBody + 1 -> Unit] /\ Len(dlcommand') = MaxBody + 1
  BY <1>3 DEF SessionInv, Types, TypeOK
<1>10. CASE closed' = "empty lines" /\ buffer' = all /\ handled' = handled
  <2>1. closed' \in Reasons \ {"no", "fin", "framing"}
    BY <1>10 DEF Reasons
  <2> QED
    BY <1>3, <1>5, <1>6, <1>9, <1>10, <2>1, Closes
<1>11. CASE buffer' = line /\ closed' = closed /\ handled' = handled
  <2> USE DEF SessionInv
  <2>1. Types'
    BY <1>3, <1>6, <1>8, <1>11 DEF Types
  <2>2. Len(line) <= RecvBufferSize
    BY ONLY <1>6, <1>8
  <2>3. TypeOK'
    BY <1>3, <1>11, <2>2 DEF TypeOK
  <2>4. Framed'
    <3>1. h = Len(handled') + 1 /\ Len(handled') <= Len(sent) /\ closed' = "no" /\ writing' = NoWrite
      BY <1>3, <1>5, <1>11 DEF Parts
    <3> HIDE DEF h
    <3> QED
      BY <1>3, <1>5, <1>8, <1>11, <3>1, ComesFramed
  <2>5. Guessed'
    BY <1>3, <1>5 DEF Guessed, Line, Misread
  <2>6. WritingOK'
    BY <1>3, <1>5 DEF WritingOK, NoWrite
  <2>7. Waiting'
    BY <1>3, <1>5, <1>11 DEF Waiting
  <2>8. CommandsInOrder'
    BY <1>3, <1>11, OrderKept
  <2>9. FinLosesNothing'
    BY <1>5, <1>11 DEF FinLosesNothing
  <2> QED
    BY <2>1, <2>3, <2>4, <2>5, <2>6, <2>7, <2>8, <2>9
<1>12. CASE HasTerminator(line) /\ Finish(got) /\ buffer' = left
  <2>1. IsLine(line, w)
    BY <1>3, <1>6, <1>7, <1>12, LineFound
  <2>2. /\ Len(handled) < Len(sent) /\ line[1] = <<h, "two">> /\ line[2] = <<h, "text">>
        /\ LineLen(line) = 2 /\ Consumed(line) \in 3 .. Len(line)
        /\ Comes(left, w, h + 1)
    BY <2>1 DEF IsLine
  <2>3. handled' = Append(handled, got) /\ closed' \in {"no", "command"}
    BY <1>12 DEF Finish
  <2>4. left \in Seq(Unit) /\ Len(left) <= Len(line)
    <3>1. PICK c : c = Consumed(line)
      OBVIOUS
    <3>2. left = SubSeq(line, c + 1, Len(line)) /\ c \in 3 .. Len(line)
      BY <2>2, <3>1
    <3>3. line \in Seq(Unit) /\ Len(line) \in Nat
      BY ONLY <1>8
    <3>4. /\ SubSeq(line, c + 1, Len(line)) \in Seq(Unit)
          /\ Len(SubSeq(line, c + 1, Len(line))) = Len(line) - c
      BY ONLY <3>2, <3>3
    <3> HIDE DEF left
    <3>5. Len(line) - c <= Len(line)
      BY ONLY <3>2, <3>3
    <3> QED
      BY ONLY <3>2, <3>4, <3>5
  <2>5. h \in Nat /\ h \in 1 .. Len(sent) /\ Len(sent) \in Nat
    <3>1. Len(sent) \in Nat /\ Len(handled) \in Nat
      BY <1>5 DEF Parts
    <3> QED
      BY ONLY <2>2, <3>1
  <2>6. /\ got.cmd = h /\ got.data = <<>> /\ got.text = SubSeq(line, 1, 2)
    BY <2>2
  <2>7. got.text = Body(h) /\ got.text \in Seq(Unit)
    <3>1. /\ SubSeq(line, 1, 2) \in Seq(Unit) /\ Len(SubSeq(line, 1, 2)) = 2
          /\ SubSeq(line, 1, 2)[1] = line[1] /\ SubSeq(line, 1, 2)[2] = line[2]
      <4>1. Len(line) >= 3
        BY ONLY <1>8, <2>2
      <4> QED
        BY ONLY <1>8, <4>1
    <3> DEFINE two == <<<<h, "two">>, <<h, "text">>>>
    <3>2. two \in Seq(Unit) /\ Len(two) = 2 /\ two[1] = <<h, "two">> /\ two[2] = <<h, "text">>
      BY <2>5 DEF Unit
    <3> HIDE DEF two
    <3>3. \A i \in 1 .. 2 : SubSeq(line, 1, 2)[i] = two[i]
      <4> TAKE i \in 1 .. 2
      <4>1. i = 1 \/ i = 2
        OBVIOUS
      <4> QED
        BY <2>2, <3>1, <3>2, <4>1
    <3>4. SubSeq(line, 1, 2) = two
      BY <3>1, <3>2, <3>3, SeqEqual
    <3> QED
      BY <1>5, <2>6, <3>1, <3>4 DEF Body, two
  <2>8. got.data = Data(h)
    <3>1. sent[h].data = 0
      <4>1. h \in DOMAIN sent
        BY <1>5, <2>5 DEF Parts
      <4> QED
        BY <1>5, <4>1 DEF SessionInv, Types
    <3>2. Data(h) = <<>>
      BY <3>1 DEF Data, Repeat
    <3> QED
      BY <2>6, <3>2
  <2>9. got \in Got
    <3>1. <<>> \in Seq(Unit)
      OBVIOUS
    <3>2. got.cmd \in Nat /\ got.text \in Seq(Unit) /\ got.data \in Seq(Unit)
      BY <2>5, <2>6, <2>7, <3>1
    <3>3. got = [cmd |-> got.cmd, text |-> got.text, data |-> got.data]
      OBVIOUS
    <3> HIDE DEF got
    <3> QED
      BY ONLY <3>2, <3>3 DEF Got
  <2>10. IsPrefix(Body(h), got.text)
    <3> DEFINE s == got.text
    <3>1. s \in Seq(Unit)
      BY <2>7
    <3> HIDE DEF s
    <3>2. IsPrefix(s, s)
      <4>1. Len(s) <= Len(s)
        BY <3>1
      <4> QED
        BY <3>1, <4>1, PrefixOf
    <3> QED
      BY <2>7, <3>2 DEF s
  <2> HIDE DEF got, left
  <2>11. /\ handled' \in Seq(Got) /\ Len(handled') = Len(handled) + 1 /\ CommandsInOrder'
    BY <1>3, <2>3, <2>6, <2>8, <2>9, <2>10, OrderGrows
  <2>12. Types'
    BY <1>3, <1>6, <1>12, <2>4, <2>11 DEF SessionInv, Types
  <2>13. TypeOK'
    <3>1. Len(left) <= RecvBufferSize
      <4>1. Len(left) \in Nat
        BY <2>4
      <4>2. Len(left) <= Len(line)
        BY <2>4
      <4> QED
        BY ONLY <1>6, <1>8, <4>1, <4>2
    <3>2. Len(handled') <= Len(sent)
      BY ONLY <2>5, <2>11
    <3> QED
      BY <1>3, <1>5, <1>12, <2>3, <3>1, <3>2 DEF SessionInv, TypeOK, Reasons
  <2>14. Framed'
    <3> SUFFICES ASSUME closed' = "no" PROVE Framed'
      BY DEF Framed
    <3>1. PICK k : k = h + 1
      OBVIOUS
    <3>2. k = Len(handled') + 1 /\ Comes(left, w, k)
      BY <2>2, <2>11, <3>1 DEF left
    <3>3. Len(handled') <= Len(sent)
      BY ONLY <2>5, <2>11
    <3> QED
      BY <1>3, <1>5, <1>12, <3>2, <3>3, ComesFramed
  <2>15. Guessed'
    BY <1>3, <1>5 DEF SessionInv, Guessed, Line, Misread
  <2>16. WritingOK'
    BY <1>3, <1>5 DEF WritingOK, NoWrite
  <2>17. Waiting'
    BY <1>3, <1>5, <2>3 DEF SessionInv, Waiting
  <2>18. FinLosesNothing'
    BY <2>3 DEF FinLosesNothing
  <2> QED
    BY <2>11, <2>12, <2>13, <2>14, <2>15, <2>16, <2>17, <2>18 DEF SessionInv
<1> QED
  BY <1>2, <1>10, <1>11, <1>12

-----------------------------------------------------------------------------
(* The theorems                                                            *)

LEMMA SessionInvHolds == Spec => []SessionInv
<1>1. Init => SessionInv
  BY InitHolds
<1>2. SessionInv /\ [Next]_vars => SessionInv'
  <2> SUFFICES ASSUME SessionInv, [Next]_vars PROVE SessionInv'
    OBVIOUS
  <2>1. CASE BeginCommand
    BY <2>1, BeginHolds
  <2>2. CASE Arrive
    BY <2>2, ArriveHolds
  <2>3. CASE Disconnect
    BY <2>3, DisconnectHolds
  <2>4. CASE Detect
    BY <2>4, DetectHolds
  <2>5. CASE RecvFin
    BY <2>5, FinHolds
  <2>6. CASE RecvDLPart
    BY <2>6, DLPartHolds
  <2>7. CASE RecvDLCommand
    BY <2>7, DLCommandHolds
  <2>8. CASE RecvData
    BY <2>8, DataHolds
  <2>9. CASE RecvLine
    BY <2>9, LineHolds
  <2>10. CASE Timeout \/ Leave
    BY <2>10, LeaveHolds
  <2>11. CASE UNCHANGED vars
    <3>1. /\ peer' = peer /\ sent' = sent /\ rest' = rest /\ wire' = wire /\ type' = type /\ buffer' = buffer
          /\ dlcommand' = dlcommand /\ writing' = writing /\ closed' = closed /\ handled' = handled
          /\ ahead' = ahead
      BY <2>11 DEF vars
    <3> USE DEF SessionInv
    <3>2. Stream' = Stream
      BY <3>1 DEF Stream
    <3>3. Types' /\ TypeOK' /\ Guessed' /\ Waiting' /\ FinLosesNothing'
      BY <3>1 DEF Types, TypeOK, Guessed, Line, Misread, NoWrite, Waiting, FinLosesNothing, SentWhole
    <3>4. Framed' /\ CommandsInOrder' /\ WritingOK'
      BY <3>1, <3>2, FramedKept, OrderKept, WritingKept DEF WritingOK
    <3> QED
      BY <3>3, <3>4
  <2> QED
    BY <2>1, <2>2, <2>3, <2>4, <2>5, <2>6, <2>7, <2>8, <2>9, <2>10, <2>11 DEF Next, Turn
<1> QED
  BY <1>1, <1>2, PTL DEF Spec

\* Whatever arrives, and however it is split, RecvBuffer is never overrun, no more
\* commands are handled than were sent, and a handler that waits in RecvData has
\* data still to come (ClientHandler.cs:506, 557).
THEOREM TypeCorrect == Spec => []TypeOK
<1>1. SessionInv => TypeOK
  BY DEF SessionInv
<1> QED
  BY <1>1, SessionInvHolds, PTL

\* For every splitting of what the client sends, every length of bodies and data and
\* every ending of lines, the commands are handled in the order in which they were
\* sent, none twice and none passed over, each with its own text and data
\* (RecvDLCommand, RecvData, RecvLine, and what RunInner consumes).
THEOREM CommandsAreInOrder == Spec => []CommandsInOrder
<1>1. SessionInv => CommandsInOrder
  BY DEF SessionInv
<1> QED
  BY <1>1, SessionInvHolds, PTL

\* The end of what the client sent is not met before the commands in front of it have
\* been handled (Receive returning 0 in RecvDLCommand, RecvData and RecvLine).
THEOREM FinLosesNoCommand == Spec => []FinLosesNothing
<1>1. SessionInv => FinLosesNothing
  BY DEF SessionInv
<1> QED
  BY <1>1, SessionInvHolds, PTL
=============================================================================
