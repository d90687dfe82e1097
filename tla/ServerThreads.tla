---------------------------- MODULE ServerThreads ----------------------------
(***************************************************************************)
(* The threads of the server: listener threads that accept connections     *)
(* (Net/ListenServer.cs), a thread per client (Net/ClientHandler.cs), and  *)
(* the watchdog loop of Program.cs that restarts listeners, removes closed *)
(* clients, closes idle ones and shuts the server down.                    *)
(*                                                                         *)
(* A step is one access to what the threads share: ShutdownSig, the        *)
(* listening sockets, ThreadData.State, the Cthreads list and ClientCount. *)
(* A pass of the watchdog over the clients holds CthreadsLock.             *)
(***************************************************************************)
EXTENDS Integers, FiniteSets

CONSTANTS
  Listeners,     \* one per port and address family
  Clients,       \* connections that may be opened
  WriteIps,      \* those from an address in config.WriteIps
  Stalled,       \* those whose peer may stop reading, or sending, for good
  NoClient,
  MaxClients,    \* config.MaxClients, 0 for no limit
  Reserve,       \* Constants.ReserveConnections
  SafetyValve,   \* ShutdownSig at which the watchdog gives up (100 in the code)
  MaxSignals     \* bound: termination signals received

ASSUME ServerAssumption ==
  /\ WriteIps \subseteq Clients /\ Stalled \subseteq Clients
  /\ NoClient \notin Clients
  /\ IsFiniteSet(Listeners) /\ IsFiniteSet(Clients)
  /\ MaxClients \in Nat /\ Reserve \in Nat /\ MaxSignals \in Nat
  /\ SafetyValve \in Nat /\ SafetyValve > 2

VARIABLES
  sig,           \* ServerParams.ShutdownSig
  signals,       \* bound: signals received so far
  sockets,       \* listeners whose ListenSocket is not null
  serverState,   \* SThread.Td.State of a listener, "none" when Td is null
  lpc, accepted, \* where a listener thread is, and the client it dispatches
  state,         \* ThreadData.State of a client, "none" before there is one
  cpc,           \* where a client thread is
  cthreads,      \* ServerParams.Cthreads
  clientCount,   \* ServerParams.ClientCount
  wpc, todo,     \* where the watchdog is, and the clients left in its pass
  loaded,        \* ClientCount as the watchdog loaded it to decrement it
  servercount    \* listeners counted in this round

listenerVars == <<serverState, lpc, accepted>>
clientVars == <<state, cpc>>
watchdogVars == <<wpc, todo, loaded, servercount>>
vars == <<sig, signals, sockets, listenerVars, clientVars, cthreads,
          clientCount, watchdogVars>>

ThreadState == <<"none", "Spawning", "Active", "Close", "Closing", "Closed">>
Rank(s) == CHOOSE i \in DOMAIN ThreadState : ThreadState[i] = s

\* The watchdog left its loop because nothing was left to wait for, or because
\* it gave up waiting; an unhandled exception ends the process.
Ended == wpc \in {"alldone", "gaveup", "crashed"}

CthreadsLocked == wpc \in {"visit", "store"}

-----------------------------------------------------------------------------
(* Signals                                                                 *)

Signal ==
  /\ ~Ended /\ signals < MaxSignals
  /\ sig' = 1
  /\ signals' = signals + 1
  /\ UNCHANGED <<sockets, listenerVars, clientVars, cthreads, clientCount, watchdogVars>>

-----------------------------------------------------------------------------
(* Listener threads                                                        *)

ListenerStep(l, from, to) ==
  ~Ended /\ lpc[l] = from /\ lpc' = [lpc EXCEPT ![l] = to]

Listening(l) ==
  /\ ListenerStep(l, "start", "loop")
  /\ serverState' = [serverState EXCEPT ![l] = "Active"]
  /\ UNCHANGED <<sig, signals, sockets, accepted, clientVars, cthreads, clientCount, watchdogVars>>

\* "while (params.ShutdownSig == 0)".
CheckShutdown(l) ==
  /\ IF sig = 0
     THEN ListenerStep(l, "loop", "accept") /\ UNCHANGED serverState
     ELSE /\ ListenerStep(l, "loop", "closing")
          /\ serverState' = [serverState EXCEPT ![l] = "Closing"]
  /\ UNCHANGED <<sig, signals, sockets, accepted, clientVars, cthreads, clientCount, watchdogVars>>

\* lpp.ListenSocket!.Accept(): the socket may have become null since the check,
\* and nothing catches the NullReferenceException.
CallAccept(l) ==
  /\ ListenerStep(l, "accept", "blocked")
  /\ wpc' = IF l \in sockets THEN wpc ELSE "crashed"
  /\ UNCHANGED <<sig, signals, sockets, serverState, accepted, clientVars, cthreads,
                 clientCount, todo, loaded, servercount>>

\* Accept throws: an aborted or interrupted call is made again, any other error
\* ends the thread.
AcceptThrows(l) ==
  /\ \/ ListenerStep(l, "blocked", "loop") /\ UNCHANGED serverState
     \/ /\ ListenerStep(l, "blocked", "closing")
        /\ serverState' = [serverState EXCEPT ![l] = "Closing"]
  /\ UNCHANGED <<sig, signals, sockets, accepted, clientVars, cthreads, clientCount, watchdogVars>>

\* The watchdog closed the socket under the blocked call.
SocketClosed(l) == l \notin sockets /\ AcceptThrows(l)

Accept(l, c) ==
  /\ l \in sockets
  /\ cpc[c] = "none"
  /\ ListenerStep(l, "blocked", "accepted")
  /\ accepted' = [accepted EXCEPT ![l] = c]
  /\ cpc' = [cpc EXCEPT ![c] = "connected"]
  /\ UNCHANGED <<sig, signals, sockets, serverState, state, cthreads, clientCount, watchdogVars>>

\* The connection limit, with the space reserved for addresses that may write.
Admitted(c) ==
  \/ MaxClients = 0 \/ clientCount < MaxClients
  \/ c \in WriteIps /\ clientCount <= MaxClients + Reserve

\* Closed at once: over the limit, an address that is not allowed, or an
\* exception before the thread is started.
Refuse(l) ==
  /\ ListenerStep(l, "accepted", "loop")
  /\ cpc' = [cpc EXCEPT ![accepted[l]] = "gone"]
  /\ accepted' = [accepted EXCEPT ![l] = NoClient]
  /\ UNCHANGED <<sig, signals, sockets, serverState, state, cthreads, clientCount, watchdogVars>>

Admit(l) ==
  /\ Admitted(accepted[l])
  /\ ListenerStep(l, "accepted", "spawn")
  /\ UNCHANGED <<sig, signals, sockets, serverState, accepted, clientVars, cthreads,
                 clientCount, watchdogVars>>

StartClient(l) ==
  /\ ListenerStep(l, "spawn", "list")
  /\ state' = [state EXCEPT ![accepted[l]] = "Spawning"]
  /\ cpc' = [cpc EXCEPT ![accepted[l]] = "setup"]
  /\ UNCHANGED <<sig, signals, sockets, serverState, accepted, cthreads, clientCount, watchdogVars>>

ListClient(l) ==
  /\ ~CthreadsLocked
  /\ ListenerStep(l, "list", "count")
  /\ cthreads' = cthreads \cup {accepted[l]}
  /\ UNCHANGED <<sig, signals, sockets, serverState, accepted, clientVars, clientCount, watchdogVars>>

CountClient(l) ==
  /\ ListenerStep(l, "count", "loop")
  /\ clientCount' = clientCount + 1
  /\ accepted' = [accepted EXCEPT ![l] = NoClient]
  /\ UNCHANGED <<sig, signals, sockets, serverState, clientVars, cthreads, watchdogVars>>

ListenerReturns(l) ==
  /\ ListenerStep(l, "closing", "none")
  /\ serverState' = [serverState EXCEPT ![l] = "Closed"]
  /\ UNCHANGED <<sig, signals, sockets, accepted, clientVars, cthreads, clientCount, watchdogVars>>

\* What a listener thread does by itself, without a connection or an error.
ListenerProceeds(l) ==
  \/ Listening(l) \/ CheckShutdown(l) \/ CallAccept(l) \/ SocketClosed(l)
  \/ Refuse(l) \/ Admit(l) \/ StartClient(l) \/ ListClient(l) \/ CountClient(l)
  \/ ListenerReturns(l)

Listener(l) == ListenerProceeds(l) \/ AcceptThrows(l) \/ \E c \in Clients : Accept(l, c)

-----------------------------------------------------------------------------
(* Client threads                                                          *)

ClientStep(c, from, to) ==
  ~Ended /\ cpc[c] = from /\ cpc' = [cpc EXCEPT ![c] = to]

SetState(c, s) == state' = [state EXCEPT ![c] = s]

\* Mutation of SetupState: a Close requested during the setup is overwritten.
SetupStateAlways(c) == "Active"

SetupState(c) == IF state[c] = "Spawning" THEN "Active" ELSE state[c]

\* The thread is set up and enters its loop, or cleans up after a setup error.
Setup(c) ==
  /\ \/ ClientStep(c, "setup", "loop") /\ SetState(c, SetupState(c))
     \/ ClientStep(c, "setup", "closing") /\ SetState(c, "Closing")
  /\ UNCHANGED <<sig, signals, sockets, listenerVars, cthreads, clientCount, watchdogVars>>

\* A turn of the loop that sends: the socket is made blocking, without a time
\* limit, so the thread stays there until the peer has taken the data.
Send(c) ==
  /\ state[c] # "Close"
  /\ ClientStep(c, "loop", "send")
  /\ UNCHANGED <<sig, signals, sockets, listenerVars, state, cthreads, clientCount, watchdogVars>>

Sent(c) ==
  /\ ClientStep(c, "send", "loop")
  /\ UNCHANGED <<sig, signals, sockets, listenerVars, state, cthreads, clientCount, watchdogVars>>

\* A turn of the loop that receives the data of a WRITE, MATCH or REJECT: Receive is
\* called on a blocking socket, without a time limit, until the peer has sent it all.
RecvData(c) ==
  /\ state[c] # "Close"
  /\ ClientStep(c, "loop", "recv")
  /\ UNCHANGED <<sig, signals, sockets, listenerVars, state, cthreads, clientCount, watchdogVars>>

DataReceived(c) ==
  /\ ClientStep(c, "recv", "loop")
  /\ UNCHANGED <<sig, signals, sockets, listenerVars, state, cthreads, clientCount, watchdogVars>>

\* "while (tdp.State != ThreadState.Close)", or a break: the peer is gone, the
\* command or the send failed.
LeaveLoop(c) ==
  /\ ClientStep(c, "loop", "cleanup")
  /\ UNCHANGED <<sig, signals, sockets, listenerVars, state, cthreads, clientCount, watchdogVars>>

\* ClientCleanup takes CthreadsLock, not the lock of the ThreadData.
Cleanup(c) ==
  /\ ~CthreadsLocked
  /\ ClientStep(c, "cleanup", "closing") /\ SetState(c, "Closing")
  /\ UNCHANGED <<sig, signals, sockets, listenerVars, cthreads, clientCount, watchdogVars>>

\* The end of the cleanup, or the catch around the whole thread.
ClientReturns(c) ==
  /\ \E from \in {"setup", "loop", "send", "recv", "cleanup", "closing"} :
       ClientStep(c, from, "gone")
  /\ SetState(c, "Closed")
  /\ UNCHANGED <<sig, signals, sockets, listenerVars, cthreads, clientCount, watchdogVars>>

\* What a client thread does by itself, without its peer.
ClientProceeds(c) ==
  \/ Setup(c) \/ Cleanup(c)
  \/ state[c] = "Close" /\ LeaveLoop(c)
  \/ cpc[c] = "closing" /\ ClientReturns(c)

Client(c) ==
  \/ Setup(c) \/ Send(c) \/ Sent(c) \/ RecvData(c) \/ DataReceived(c)
  \/ LeaveLoop(c) \/ Cleanup(c) \/ ClientReturns(c)

-----------------------------------------------------------------------------
(* The watchdog loop                                                       *)

WatchdogStep(from, to) == wpc = from /\ wpc' = to

\* Mutation of MayClose: a thread that has ended is told to close as well.
MayCloseEnded(c) == state[c] # "Closing"

\* The states in which a client may be told to close.
MayClose(c) == state[c] \notin {"Closing", "Closed"}

\* ShutdownSig 1: all listening sockets are closed ...
CloseListeners ==
  /\ IF sig = 1
     THEN WatchdogStep("top", "closeclients") /\ sig' = 2 /\ sockets' = {}
     ELSE WatchdogStep("top", "round") /\ UNCHANGED <<sig, sockets>>
  /\ UNCHANGED <<signals, listenerVars, clientVars, cthreads, clientCount, todo, loaded, servercount>>

\* ... and all clients in the list are told to close.
CloseClients ==
  /\ WatchdogStep("closeclients", "round")
  /\ state' = [c \in Clients |-> IF c \in cthreads /\ MayClose(c) THEN "Close" ELSE state[c]]
  /\ UNCHANGED <<sig, signals, sockets, listenerVars, cpc, cthreads, clientCount,
                 todo, loaded, servercount>>

GiveUp ==
  /\ sig >= SafetyValve
  /\ WatchdogStep("round", "gaveup")
  /\ UNCHANGED <<sig, signals, sockets, listenerVars, clientVars, cthreads, clientCount,
                 todo, loaded, servercount>>

\* Mutation of NextSig: the rounds of a shutdown are not counted.
NextSigSame == sig

NextSig == IF sig > 1 THEN sig + 1 ELSE sig

\* The watchdog forgets a listener thread that has closed, and starts one where
\* there is none.
Restartable(l) == serverState[l] \in {"none", "Closed"}

MonitorListeners ==
  /\ sig < SafetyValve
  /\ WatchdogStep("round", "visit")
  /\ sig' = NextSig
  /\ servercount' = Cardinality({l \in Listeners : serverState[l] # "none"})
  /\ LET starts == {l \in sockets : Restartable(l) /\ sig = 0}
     IN /\ serverState' = [l \in Listeners |-> IF l \in starts THEN "Spawning"
                                               ELSE IF Restartable(l) THEN "none"
                                               ELSE serverState[l]]
        /\ lpc' = [l \in Listeners |-> IF l \in starts THEN "start" ELSE lpc[l]]
  /\ todo' = cthreads
  /\ UNCHANGED <<signals, sockets, accepted, clientVars, cthreads, clientCount, loaded>>

\* Mutation of Removable: a thread on its way out is taken off the list.
RemovableClosing(c) == state[c] \in {"Closing", "Closed"}

Removable(c) == state[c] = "Closed"

\* Mutation of Counted: the count is decremented unchecked.
CountedAlways == TRUE

Counted == clientCount > 0

\* A closed client is unlinked; "if (ClientCount > 0) ClientCount--" loads the
\* count here and stores it one step later.
RemoveClient(c) ==
  /\ c \in todo /\ Removable(c)
  /\ IF Counted
     THEN WatchdogStep("visit", "store") /\ loaded' = clientCount
     ELSE WatchdogStep("visit", "visit") /\ UNCHANGED loaded
  /\ todo' = todo \ {c}
  /\ cthreads' = cthreads \ {c}
  /\ UNCHANGED <<sig, signals, sockets, listenerVars, clientVars, clientCount, servercount>>

StoreCount ==
  /\ WatchdogStep("store", "visit")
  /\ clientCount' = loaded - 1
  /\ UNCHANGED <<sig, signals, sockets, listenerVars, clientVars, cthreads, todo, loaded, servercount>>

\* Any other client is left alone, or told to close if it has been idle.
KeepClient(c) ==
  /\ c \in todo /\ ~Removable(c)
  /\ WatchdogStep("visit", "visit")
  /\ todo' = todo \ {c}
  /\ UNCHANGED state \/ (MayClose(c) /\ SetState(c, "Close"))
  /\ UNCHANGED <<sig, signals, sockets, listenerVars, cpc, cthreads, clientCount, loaded, servercount>>

\* The end of a round: all done if shutting down and no threads left.
EndRound ==
  /\ todo = {}
  /\ WatchdogStep("visit", IF sig >= 2 /\ clientCount = 0 /\ servercount = 0
                           THEN "alldone" ELSE "top")
  /\ UNCHANGED <<sig, signals, sockets, listenerVars, clientVars, cthreads, clientCount,
                 todo, loaded, servercount>>

Watchdog ==
  \/ CloseListeners \/ CloseClients \/ GiveUp \/ MonitorListeners
  \/ \E c \in Clients : RemoveClient(c) \/ KeepClient(c)
  \/ StoreCount \/ EndRound

-----------------------------------------------------------------------------
Init ==
  /\ sig = 0 /\ signals = 0
  /\ sockets = Listeners
  /\ serverState = [l \in Listeners |-> "none"]
  /\ lpc = [l \in Listeners |-> "none"]
  /\ accepted = [l \in Listeners |-> NoClient]
  /\ state = [c \in Clients |-> "none"]
  /\ cpc = [c \in Clients |-> "none"]
  /\ cthreads = {} /\ clientCount = 0
  /\ wpc = "top" /\ todo = {} /\ loaded = 0 /\ servercount = 0

Next ==
  \/ Signal
  \/ Watchdog
  \/ \E l \in Listeners : Listener(l)
  \/ \E c \in Clients : Client(c)

(* The operating system runs every thread.  What depends on a peer (a        *)
(* connection, an end of the session) need not happen, except that a peer    *)
(* which is not stalled takes what is sent to it, and sends the data of the  *)
(* command it has begun.  A thread that waits for CthreadsLock gets it in    *)
(* the end: the watchdog sleeps between two rounds without holding it.       *)
Fairness ==
  /\ WF_vars(Watchdog)
  /\ \A l \in Listeners : WF_vars(ListenerProceeds(l)) /\ SF_vars(ListClient(l))
  /\ \A c \in Clients : WF_vars(ClientProceeds(c)) /\ SF_vars(Cleanup(c))
  /\ \A c \in Clients \ Stalled : WF_vars(Sent(c)) /\ WF_vars(DataReceived(c))

Spec == Init /\ [][Next]_vars /\ Fairness

-----------------------------------------------------------------------------
(* Properties                                                              *)

Alive(c) == cpc[c] \in {"setup", "loop", "send", "recv", "cleanup", "closing"}

TypeOK ==
  /\ sig \in 0 .. SafetyValve /\ signals \in 0 .. MaxSignals
  /\ sockets \subseteq Listeners
  /\ serverState \in [Listeners -> {"none", "Spawning", "Active", "Closing", "Closed"}]
  /\ lpc \in [Listeners -> {"none", "start", "loop", "accept", "blocked", "accepted",
                            "spawn", "list", "count", "closing"}]
  /\ accepted \in [Listeners -> Clients \cup {NoClient}]
  /\ state \in [Clients -> {"none", "Spawning", "Active", "Close", "Closing", "Closed"}]
  /\ cpc \in [Clients -> {"none", "connected", "setup", "loop", "send", "recv",
                          "cleanup", "closing", "gone"}]
  /\ cthreads \subseteq Clients /\ todo \subseteq Clients
  /\ clientCount \in 0 .. Cardinality(Clients)
  /\ wpc \in {"top", "closeclients", "round", "visit", "store", "alldone", "gaveup", "crashed"}
  /\ loaded \in Nat /\ servercount \in 0 .. Cardinality(Listeners)

\* The watchdog knows every thread that runs: a client thread is in the list as
\* soon as its listener has put it there and until it has ended, and a listener
\* thread that runs has its ThreadData, so that no second one is started for
\* its socket.
ThreadsTracked ==
  /\ \A c \in Clients : Alive(c) => \/ c \in cthreads
                                    \/ \E l \in Listeners : lpc[l] = "list" /\ accepted[l] = c
  /\ \A l \in Listeners : lpc[l] # "none" <=> serverState[l] \in {"Spawning", "Active", "Closing"}

\* Three threads write a client's state under two different locks: it only
\* advances, so that a request to close is never lost and a thread that has
\* ended is never taken for one that runs.
StateAdvances == [][\A c \in Clients : Rank(state'[c]) >= Rank(state[c])]_vars

\* A termination signal ends the server, whatever its clients do.
ShutdownEnds == sig > 0 ~> Ended

\* A client that is told to close leaves the list, or the server ends first; not so
\* one whose peer leaves a send or the data of its command standing for good: that
\* thread never looks at its State again.
ClosesOnRequest ==
  \A c \in Clients \ Stalled : c \in cthreads /\ state[c] = "Close" ~> c \notin cthreads \/ Ended

\* "All done if shutting down and no threads left" (Program.cs:658).
NoThreadsLeft ==
  wpc = "alldone" => /\ \A c \in Clients : ~Alive(c)
                     /\ \A l \in Listeners : lpc[l] = "none"
=============================================================================
