------------------------- MODULE ServerThreadsProofs -------------------------
(***************************************************************************)
(* Theorems about ServerThreads, for every number of listeners, clients    *)
(* and signals, and every limit of connections.                            *)
(***************************************************************************)
EXTENDS ServerThreads, FiniteSetTheorems, TLAPS

-----------------------------------------------------------------------------
(* The inductive invariant                                                 *)

Dispatching == {"accepted", "spawn", "list", "count"}

\* A listener holds a client exactly while it dispatches it, and no other
\* listener holds the same one.
OneDispatcher ==
  /\ \A l \in Listeners : accepted[l] # NoClient <=> lpc[l] \in Dispatching
  /\ \A l, m \in Listeners : accepted[l] # NoClient /\ accepted[l] = accepted[m] => l = m

\* The client's thread is started between "spawn" and "list".
ThreadStarted ==
  \A l \in Listeners :
    /\ lpc[l] \in {"accepted", "spawn"} => cpc[accepted[l]] = "connected"
    /\ lpc[l] \in {"list", "count"} => cpc[accepted[l]] \notin {"none", "connected"}
                                       /\ state[accepted[l]] # "none"

\* What a client thread may find in its State at each point of its run.
StateOfThread ==
  \A c \in Clients :
    /\ cpc[c] \in {"none", "connected"} => state[c] = "none"
    /\ cpc[c] = "setup" => state[c] \in {"Spawning", "Close"}
    /\ cpc[c] \in {"loop", "send", "recv", "cleanup"} => state[c] \in {"Active", "Close"}
    /\ cpc[c] = "closing" => state[c] = "Closing"
    /\ cpc[c] = "gone" => state[c] \in {"none", "Closed"}

\* Only clients whose thread was started are in the list or in a pass over it.
ListedStarted == todo \subseteq cthreads /\ \A c \in cthreads : state[c] # "none"

\* The clients that were accepted and that their listener is done with: every
\* increment of ClientCount stands for one of them.
Dispatched == {c \in Clients : cpc[c] # "none" /\ \A l \in Listeners : accepted[l] # c}

CountBounded ==
  /\ clientCount <= Cardinality(Dispatched)
  /\ wpc = "store" => loaded \in 1 .. Cardinality(Dispatched)

ThreadsInv ==
  /\ TypeOK /\ ThreadsTracked
  /\ OneDispatcher /\ ThreadStarted /\ StateOfThread /\ ListedStarted /\ CountBounded

\* What does not speak of the counts.
Control == ThreadsTracked /\ OneDispatcher /\ ThreadStarted /\ StateOfThread /\ ListedStarted

-----------------------------------------------------------------------------
(* The steps of a listener thread                                          *)

LEMMA ListenerControl ==
  ASSUME ThreadsInv, NEW l \in Listeners, Listener(l)
  PROVE  Control'
<1> USE ServerAssumption DEF ThreadsInv, Control, TypeOK, ListenerStep, clientVars, watchdogVars, listenerVars
<1>1. ASSUME Listening(l) \/ CheckShutdown(l) \/ CallAccept(l) \/ AcceptThrows(l) \/ ListenerReturns(l)
      PROVE  Control'
  <2>1. ThreadsTracked'
    BY <1>1 DEF Listening, CheckShutdown, CallAccept, AcceptThrows, ListenerReturns, ThreadsTracked, Alive, OneDispatcher, Dispatching
  <2>2. OneDispatcher'
    BY <1>1 DEF Listening, CheckShutdown, CallAccept, AcceptThrows, ListenerReturns, OneDispatcher, Dispatching
  <2>3. ThreadStarted'
    BY <1>1 DEF Listening, CheckShutdown, CallAccept, AcceptThrows, ListenerReturns, ThreadStarted
  <2>4. StateOfThread' /\ ListedStarted'
    BY <1>1 DEF Listening, CheckShutdown, CallAccept, AcceptThrows, ListenerReturns, StateOfThread, ListedStarted
  <2> QED BY <2>1, <2>2, <2>3, <2>4
<1>2. ASSUME NEW c \in Clients, Accept(l, c) PROVE Control'
  <2>1. ThreadsTracked'
    BY <1>2 DEF Accept, ThreadsTracked, Alive
  <2>2. OneDispatcher'
    BY <1>2 DEF Accept, OneDispatcher, Dispatching, ThreadStarted
  <2>3. ThreadStarted'
    BY <1>2 DEF Accept, ThreadStarted, OneDispatcher, Dispatching
  <2>4. StateOfThread' /\ ListedStarted'
    BY <1>2 DEF Accept, StateOfThread, ListedStarted
  <2> QED BY <2>1, <2>2, <2>3, <2>4
<1>3. ASSUME Refuse(l) \/ Admit(l) \/ StartClient(l) \/ ListClient(l) \/ CountClient(l)
      PROVE  Control'
  <2>0. lpc[l] \in Dispatching /\ accepted[l] \in Clients
    BY <1>3 DEF Refuse, Admit, StartClient, ListClient, CountClient, OneDispatcher, Dispatching
  <2>1. ThreadsTracked'
    BY <1>3, <2>0 DEF Refuse, Admit, StartClient, ListClient, CountClient, ThreadsTracked, Alive, ThreadStarted
  <2>2. OneDispatcher'
    BY <1>3, <2>0 DEF Refuse, Admit, StartClient, ListClient, CountClient, OneDispatcher, Dispatching
  <2>3. ThreadStarted'
    BY <1>3, <2>0 DEF Refuse, Admit, StartClient, ListClient, CountClient, ThreadStarted, OneDispatcher, Dispatching
  <2>4. StateOfThread' /\ ListedStarted'
    BY <1>3, <2>0 DEF Refuse, Admit, StartClient, ListClient, CountClient, StateOfThread, ListedStarted, ThreadStarted
  <2> QED BY <2>1, <2>2, <2>3, <2>4
<1> QED
  BY <1>1, <1>2, <1>3 DEF Listener, ListenerProceeds, SocketClosed

-----------------------------------------------------------------------------
(* The steps of a client thread                                            *)

LEMMA ClientControl ==
  ASSUME ThreadsInv, NEW c \in Clients, Client(c)
  PROVE  Control'
<1> USE ServerAssumption
    DEF ThreadsInv, Control, TypeOK, ClientStep, SetState, clientVars, watchdogVars, listenerVars,
        Client, Setup, SetupState, Send, Sent, RecvData, DataReceived, LeaveLoop, Cleanup, ClientReturns
<1>1. ThreadsTracked'
  BY DEF ThreadsTracked, Alive, OneDispatcher, Dispatching
<1>2. OneDispatcher'
  BY DEF OneDispatcher, Dispatching
<1>3. ThreadStarted'
  BY DEF ThreadStarted, OneDispatcher, Dispatching
<1>4. StateOfThread'
  BY DEF StateOfThread
<1>5. ListedStarted'
  BY DEF ListedStarted
<1> QED
  BY <1>1, <1>2, <1>3, <1>4, <1>5

-----------------------------------------------------------------------------
(* The steps of the watchdog                                               *)

LEMMA WatchdogControl ==
  ASSUME ThreadsInv, Watchdog
  PROVE  Control'
<1> USE ServerAssumption
    DEF ThreadsInv, Control, TypeOK, WatchdogStep, SetState, clientVars, watchdogVars, listenerVars
<1>1. CASE CloseClients
  <2> USE <1>1 DEF CloseClients, MayClose
  <2>1. ThreadsTracked' /\ OneDispatcher'
    BY DEF ThreadsTracked, Alive, OneDispatcher, Dispatching
  <2>2. ThreadStarted'
    BY DEF ThreadStarted, OneDispatcher, Dispatching
  <2>3. StateOfThread' /\ ListedStarted'
    BY DEF StateOfThread, ListedStarted
  <2> QED
    BY <2>1, <2>2, <2>3
<1>2. CASE MonitorListeners
  <2> USE <1>2 DEF MonitorListeners, Restartable
  <2>1. ThreadsTracked'
    BY DEF ThreadsTracked, Alive, OneDispatcher, Dispatching
  <2>2. OneDispatcher'
    BY DEF ThreadsTracked, OneDispatcher, Dispatching
  <2>3. ThreadStarted'
    BY DEF ThreadStarted, OneDispatcher, Dispatching
  <2>4. StateOfThread' /\ ListedStarted'
    BY DEF StateOfThread, ListedStarted
  <2> QED
    BY <2>1, <2>2, <2>3, <2>4
<1>3. ASSUME NEW c \in Clients, RemoveClient(c)
      PROVE  Control'
  <2> USE <1>3 DEF RemoveClient, Removable
  <2>1. ThreadsTracked'
    BY DEF ThreadsTracked, Alive, StateOfThread
  <2>2. OneDispatcher' /\ ThreadStarted' /\ StateOfThread' /\ ListedStarted'
    BY DEF OneDispatcher, ThreadStarted, StateOfThread, ListedStarted
  <2> QED
    BY <2>1, <2>2
<1>4. ASSUME NEW c \in Clients, KeepClient(c)
      PROVE  Control'
  <2> USE <1>4 DEF KeepClient, MayClose
  <2>1. ThreadsTracked' /\ OneDispatcher'
    BY DEF ThreadsTracked, Alive, OneDispatcher
  <2>2. ThreadStarted'
    BY DEF ThreadStarted, OneDispatcher, Dispatching
  <2>3. StateOfThread' /\ ListedStarted'
    BY DEF StateOfThread, ListedStarted
  <2> QED
    BY <2>1, <2>2, <2>3
<1>5. CASE CloseListeners \/ GiveUp \/ StoreCount \/ EndRound
  BY <1>5 DEF CloseListeners, GiveUp, StoreCount, EndRound, ThreadsTracked, Alive,
              OneDispatcher, ThreadStarted, StateOfThread, ListedStarted
<1> QED
  BY <1>1, <1>2, <1>3, <1>4, <1>5 DEF Watchdog

-----------------------------------------------------------------------------
(* Counting the clients                                                    *)

\* A set of clients has a size, and a larger set of them is not smaller.
LEMMA Sizes ==
  ASSUME NEW S \in SUBSET Clients, NEW T \in SUBSET S
  PROVE  /\ IsFiniteSet(S) /\ IsFiniteSet(T)
         /\ Cardinality(S) \in Nat /\ Cardinality(T) \in Nat
         /\ Cardinality(T) <= Cardinality(S)
<1>1. IsFiniteSet(S)
  BY FS_Subset, ServerAssumption DEF ServerAssumption
<1> QED
  BY <1>1, FS_Subset, FS_CardinalityType

\* The server never forgets that it dispatched a client.
LEMMA DispatchedGrows ==
  ASSUME ThreadsInv, Next
  PROVE  Dispatched \subseteq Dispatched'
<1> USE ServerAssumption DEF ThreadsInv, TypeOK, Dispatched, clientVars, watchdogVars, listenerVars
<1>1. ASSUME NEW l \in Listeners, Listener(l)
      PROVE  Dispatched \subseteq Dispatched'
  BY <1>1 DEF Listener, ListenerProceeds, ListenerStep, Listening, CheckShutdown, CallAccept,
     SocketClosed, AcceptThrows, Accept, Refuse, Admit, StartClient, ListClient, CountClient,
     ListenerReturns, OneDispatcher, Dispatching
<1>2. ASSUME NEW c \in Clients, Client(c)
      PROVE  Dispatched \subseteq Dispatched'
  BY <1>2 DEF Client, ClientStep, Setup, Send, Sent, RecvData, DataReceived, LeaveLoop, Cleanup, ClientReturns
<1>3. CASE Signal \/ Watchdog
  BY <1>3 DEF Signal, Watchdog, WatchdogStep, CloseListeners, CloseClients, GiveUp,
     MonitorListeners, RemoveClient, KeepClient, StoreCount, EndRound
<1> QED
  BY <1>1, <1>2, <1>3 DEF Next

LEMMA CountStep ==
  ASSUME ThreadsInv, Next
  PROVE  clientCount' \in Nat /\ loaded' \in Nat /\ CountBounded'
<1> USE DEF ThreadsInv, TypeOK, clientVars, watchdogVars, listenerVars
<1>1. /\ Cardinality(Dispatched) \in Nat /\ Cardinality(Dispatched') \in Nat
      /\ Cardinality(Dispatched) <= Cardinality(Dispatched')
  BY Sizes, DispatchedGrows DEF Dispatched
<1>2. ASSUME NEW l \in Listeners, CountClient(l)
      PROVE  clientCount' \in Nat /\ loaded' \in Nat /\ CountBounded'
  <2> USE ServerAssumption DEF CountClient, ListenerStep
  <2>1. accepted[l] \in Clients /\ accepted[l] \notin Dispatched /\ accepted[l] \in Dispatched'
    BY <1>2 DEF OneDispatcher, Dispatching, Dispatched, ThreadStarted
  <2>2. /\ Dispatched \cup {accepted[l]} \subseteq Dispatched'
        /\ Dispatched' \subseteq Clients /\ Dispatched \subseteq Clients
    BY <2>1, DispatchedGrows DEF Dispatched
  <2>3. Cardinality(Dispatched \cup {accepted[l]}) = Cardinality(Dispatched) + 1
    BY <2>1, <2>2, Sizes, FS_AddElement
  <2>4. Cardinality(Dispatched) + 1 <= Cardinality(Dispatched')
    BY <2>2, <2>3, Sizes
  <2> QED
    BY <1>1, <1>2, <2>4 DEF CountBounded
<1>3. ASSUME NEW l \in Listeners, Listener(l), ~CountClient(l)
      PROVE  clientCount' \in Nat /\ loaded' \in Nat /\ CountBounded'
  <2>1. clientCount' = clientCount /\ loaded' = loaded /\ wpc' \in {wpc, "crashed"}
    BY <1>3 DEF Listener, ListenerProceeds, ListenerStep, Listening, CheckShutdown, CallAccept,
       SocketClosed, AcceptThrows, Accept, Refuse, Admit, StartClient, ListClient, ListenerReturns
  <2> QED
    BY <1>1, <2>1 DEF CountBounded
<1>4. ASSUME NEW c \in Clients, RemoveClient(c)
      PROVE  clientCount' \in Nat /\ loaded' \in Nat /\ CountBounded'
  BY <1>1, <1>4 DEF RemoveClient, Counted, WatchdogStep, CountBounded
<1>5. CASE StoreCount
  BY <1>1, <1>5 DEF StoreCount, WatchdogStep, CountBounded
<1>6. ASSUME clientCount' = clientCount, loaded' = loaded, wpc' = "store" => wpc = "store"
      PROVE  clientCount' \in Nat /\ loaded' \in Nat /\ CountBounded'
  BY <1>1, <1>6 DEF CountBounded
<1>7. CASE Signal \/ (\E c \in Clients : Client(c) \/ KeepClient(c)) \/ CloseListeners \/ CloseClients
           \/ GiveUp \/ MonitorListeners \/ EndRound
  BY <1>6, <1>7 DEF Signal, Client, Setup, Send, Sent, RecvData, DataReceived, LeaveLoop, Cleanup, ClientReturns,
     WatchdogStep, CloseListeners, CloseClients, GiveUp, MonitorListeners, KeepClient, EndRound
<1> QED
  BY <1>2, <1>3, <1>4, <1>5, <1>7 DEF Next, Watchdog

-----------------------------------------------------------------------------
(* The invariant                                                           *)

LEMMA TypeStep ==
  ASSUME ThreadsInv, Next
  PROVE  TypeOK'
<1> USE ServerAssumption DEF ThreadsInv, TypeOK, clientVars, watchdogVars, listenerVars
<1>1. clientCount' \in 0 .. Cardinality(Clients) /\ loaded' \in Nat
  <2>1. Cardinality(Dispatched') <= Cardinality(Clients)
        /\ Cardinality(Dispatched') \in Nat /\ Cardinality(Clients) \in Nat
    BY Sizes DEF Dispatched
  <2> QED
    BY <2>1, CountStep DEF CountBounded
<1>2. ASSUME NEW l \in Listeners, Listener(l)
      PROVE  TypeOK'
  <2> USE <1>2 DEF Listener, ListenerProceeds, ListenerStep, Listening, CheckShutdown, CallAccept,
     SocketClosed, AcceptThrows, Accept, Refuse, Admit, StartClient, ListClient, CountClient,
     ListenerReturns
  <2>1. (sig \in 0 .. SafetyValve /\ signals \in 0 .. MaxSignals /\ sockets \subseteq Listeners
          /\ todo \subseteq Clients /\ servercount \in 0 .. Cardinality(Listeners))'
    OBVIOUS
  <2>2. serverState' \in [Listeners -> {"none", "Spawning", "Active", "Closing", "Closed"}]
    OBVIOUS
  <2>3. lpc' \in [Listeners -> {"none", "start", "loop", "accept", "blocked", "accepted",
                                "spawn", "list", "count", "closing"}]
    OBVIOUS
  <2>4. accepted' \in [Listeners -> Clients \cup {NoClient}]
    OBVIOUS
  <2>5. state' \in [Clients -> {"none", "Spawning", "Active", "Close", "Closing", "Closed"}]
    OBVIOUS
  <2>6. cpc' \in [Clients -> {"none", "connected", "setup", "loop", "send", "recv",
                              "cleanup", "closing", "gone"}]
    OBVIOUS
  <2>7. cthreads' \subseteq Clients
    BY DEF OneDispatcher, Dispatching
  <2>8. wpc' \in {"top", "closeclients", "round", "visit", "store", "alldone", "gaveup", "crashed"}
    OBVIOUS
  <2> QED
    BY ONLY <1>1, <2>1, <2>2, <2>3, <2>4, <2>5, <2>6, <2>7, <2>8 DEF TypeOK
<1>3. ASSUME NEW c \in Clients, Client(c)
      PROVE  TypeOK'
  BY <1>1, <1>3 DEF Client, ClientStep, SetState, SetupState, Setup, Send, Sent, RecvData, DataReceived, LeaveLoop,
     Cleanup, ClientReturns
<1>4. CASE Signal
  BY <1>1, <1>4 DEF Signal
<1>5. CASE Watchdog
  <2>1. CASE MonitorListeners
    <3>1. servercount' \in 0 .. Cardinality(Listeners)
      <4> DEFINE S == {l \in Listeners : serverState[l] # "none"}
      <4>1. Cardinality(S) \in Nat /\ Cardinality(S) <= Cardinality(Listeners)
            /\ Cardinality(Listeners) \in Nat
        BY FS_Subset, FS_CardinalityType
      <4> QED
        BY <2>1, <4>1 DEF MonitorListeners
    <3> QED
      BY <1>1, <2>1, <3>1 DEF MonitorListeners, WatchdogStep, NextSig
  <2>2. CASE CloseListeners \/ CloseClients \/ GiveUp \/ StoreCount \/ EndRound
    BY <1>1, <2>2 DEF WatchdogStep, CloseListeners, CloseClients, GiveUp, StoreCount, EndRound
  <2>3. ASSUME NEW c \in Clients, RemoveClient(c) \/ KeepClient(c)
        PROVE  TypeOK'
    BY <1>1, <2>3 DEF WatchdogStep, RemoveClient, KeepClient, SetState
  <2> QED
    BY <1>5, <2>1, <2>2, <2>3 DEF Watchdog
<1> QED
  BY <1>2, <1>3, <1>4, <1>5 DEF Next

LEMMA InvInit == Init => ThreadsInv
<1> SUFFICES ASSUME Init PROVE ThreadsInv
  OBVIOUS
<1> USE ServerAssumption DEF Init
<1>1. TypeOK
  BY FS_CardinalityType DEF TypeOK
<1>2. Control
  BY DEF Control, ThreadsTracked, Alive, OneDispatcher, Dispatching, ThreadStarted, StateOfThread,
     ListedStarted
<1>3. CountBounded
  BY Sizes DEF CountBounded, Dispatched
<1> QED
  BY <1>1, <1>2, <1>3 DEF ThreadsInv, Control

LEMMA InvStep == ThreadsInv /\ [Next]_vars => ThreadsInv'
<1> SUFFICES ASSUME ThreadsInv, [Next]_vars PROVE ThreadsInv'
  OBVIOUS
<1>1. CASE Next
  <2>1. Control'
    <3>1. CASE Signal
      BY <3>1 DEF Signal, ThreadsInv, Control, clientVars, listenerVars, watchdogVars, ThreadsTracked, Alive,
         OneDispatcher, ThreadStarted, StateOfThread, ListedStarted
    <3> QED
      BY <1>1, <3>1, ListenerControl, ClientControl, WatchdogControl DEF Next
  <2> QED
    BY <1>1, <2>1, TypeStep, CountStep DEF ThreadsInv, Control
<1>2. CASE UNCHANGED vars
  BY <1>2 DEF vars, clientVars, listenerVars, watchdogVars, ThreadsInv, TypeOK, ThreadsTracked, Alive,
     OneDispatcher, ThreadStarted, StateOfThread, ListedStarted, CountBounded, Dispatched
<1> QED
  BY <1>1, <1>2

LEMMA Invariance == Spec => []ThreadsInv
BY InvInit, InvStep, PTL DEF Spec

\* The count of clients and the number of rounds stay within their bounds,
\* although the watchdog stores a count it loaded a step before.
THEOREM TypeCorrect == Spec => []TypeOK
<1>1. ThreadsInv => TypeOK
  BY DEF ThreadsInv
<1> QED
  BY <1>1, Invariance, PTL

\* Whatever listeners, clients and the watchdog do between each other's steps,
\* no client thread runs outside the list once its listener has put it there,
\* and no socket has two listener threads.
THEOREM ThreadsAreTracked == Spec => []ThreadsTracked
<1>1. ThreadsInv => ThreadsTracked
  BY DEF ThreadsInv
<1> QED
  BY <1>1, Invariance, PTL

-----------------------------------------------------------------------------
(* The state of a client                                                   *)

LEMMA Ranks ==
  /\ Rank("none") = 1 /\ Rank("Spawning") = 2 /\ Rank("Active") = 3
  /\ Rank("Close") = 4 /\ Rank("Closing") = 5 /\ Rank("Closed") = 6
<1>1. /\ DOMAIN ThreadState = 1 .. 6
      /\ ThreadState[1] = "none" /\ ThreadState[2] = "Spawning" /\ ThreadState[3] = "Active"
      /\ ThreadState[4] = "Close" /\ ThreadState[5] = "Closing" /\ ThreadState[6] = "Closed"
  BY DEF ThreadState
<1>2. \A i \in 1 .. 6 : i = 1 \/ i = 2 \/ i = 3 \/ i = 4 \/ i = 5 \/ i = 6
  OBVIOUS
<1>3. ASSUME NEW i \in 1 .. 6 PROVE Rank(ThreadState[i]) = i
  <2>1. \A j \in DOMAIN ThreadState : ThreadState[j] = ThreadState[i] => j = i
    BY <1>1, <1>2
  <2> QED
    BY <1>1, <2>1 DEF Rank
<1> QED
  BY <1>1, <1>3

LEMMA StateStep ==
  ASSUME ThreadsInv, Next, NEW c \in Clients
  PROVE  Rank(state'[c]) >= Rank(state[c])
<1> USE ServerAssumption, Ranks DEF ThreadsInv, TypeOK, clientVars
<1>1. CASE state' = state
  BY <1>1
<1>2. ASSUME NEW l \in Listeners, StartClient(l)
      PROVE  Rank(state'[c]) >= Rank(state[c])
  BY <1>2 DEF StartClient, ListenerStep, ThreadStarted, StateOfThread, OneDispatcher, Dispatching
<1>3. ASSUME NEW d \in Clients, Client(d)
      PROVE  Rank(state'[c]) >= Rank(state[c])
  BY <1>3 DEF Client, ClientStep, Setup, SetupState, SetState, Send, Sent, RecvData, DataReceived, LeaveLoop, Cleanup,
     ClientReturns, StateOfThread
<1>4. CASE CloseClients
  BY <1>4 DEF CloseClients, MayClose, ListedStarted
<1>5. ASSUME NEW d \in Clients, KeepClient(d)
      PROVE  Rank(state'[c]) >= Rank(state[c])
  BY <1>5 DEF KeepClient, MayClose, SetState, ListedStarted
<1>6. ASSUME NEW l \in Listeners, Listener(l), ~StartClient(l)
      PROVE  state' = state
  BY <1>6 DEF Listener, ListenerProceeds, Listening, CheckShutdown, CallAccept, SocketClosed,
     AcceptThrows, Accept, Refuse, Admit, ListClient, CountClient, ListenerReturns
<1>7. ASSUME Signal \/ CloseListeners \/ GiveUp \/ MonitorListeners \/ StoreCount \/ EndRound
             \/ \E d \in Clients : RemoveClient(d)
      PROVE  state' = state
  BY <1>7 DEF Signal, CloseListeners, GiveUp, MonitorListeners, StoreCount, EndRound, RemoveClient
<1> QED
  BY <1>1, <1>2, <1>3, <1>4, <1>5, <1>6, <1>7 DEF Next, Watchdog

\* No interleaving of the listener, the client thread and the watchdog takes a
\* client's State back: a request to close made at any moment survives.
THEOREM StateOnlyAdvances == Spec => StateAdvances
<1>1. ThreadsInv /\ [Next]_vars => [\A c \in Clients : Rank(state'[c]) >= Rank(state[c])]_vars
  BY StateStep
<1> QED
  BY <1>1, Invariance, PTL DEF Spec, StateAdvances
=============================================================================
