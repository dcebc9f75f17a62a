----------------------------- MODULE ShareAgent -----------------------------
(***************************************************************************)
(* The launch agent's life (src/instant_sharing/runtime.py) and how it     *)
(* keeps the desktop visible: a monitor thread compares the addresses of   *)
(* the machine with its snapshot and publishes a change, each change       *)
(* starts a thread that stops and starts the mDNS advertiser, and every    *)
(* start of the advertiser is a thread with a Zeroconf instance of its own.*)
(* Several threads use the advertiser's start and stop at once; launchd    *)
(* starts the agent again when it dies.                                    *)
(***************************************************************************)
EXTENDS Naturals, FiniteSets

CONSTANTS
  Nets,        \* addresses the machine can have
  Restarters,  \* threads mdns_restart_on_ip_change
  Runs,        \* advertiser threads, each with its Zeroconf instance
  MaxChanges,  \* bound on changes of the address
  MaxCrashes,  \* bound on deaths of the agent
  MaxFaults,   \* bound on failing Zeroconf calls and socket binds
  Prompt       \* a started thread soon runs its first statement, a join does not
               \* give up on it, and no address comes back before the monitor missed it

ASSUME AgentAssumption ==
  /\ MaxChanges \in Nat /\ MaxCrashes \in Nat /\ MaxFaults \in Nat
  /\ Prompt \in BOOLEAN
  /\ "none" \notin Runs /\ "none" \notin Nets /\ "main" \notin Restarters

VARIABLES
  net,         \* the machine's address
  agent,       \* how far main() is
  up,          \* servers that listen, and the WebRTC peer manager
  sock,        \* the Unix socket: "none", "live", or "stale" after a crash
  subscribed,  \* _network_change_subscription
  mon,         \* NetworkMonitor: thread, snapshot, notice that is due, address read
  starter,     \* the thread instant_share_mdns_startup has not run yet
  current,     \* the advertiser's _thread and _zeroconf, and its _stop_event
  run,         \* advertiser thread -> how far it is, address read, Zeroconf instance
  call,        \* who is in the advertiser's stop and start
  used         \* environment steps taken

process == <<agent, up, sock, subscribed, starter>>
agentVars == <<net, process, mon, current, run, call, used>>

None == "none"
Main == "main"
Callers == Restarters \cup {Main}

NoMonitor == [at |-> "off", snap |-> None, due |-> FALSE, read |-> None]
NoRun == [at |-> "free", addr |-> None, open |-> FALSE, listed |-> FALSE]
NoCall == [at |-> "idle", zc |-> None, run |-> None]
Unused == [thread |-> None, zc |-> None, stop |-> FALSE]

Alive(i) == run[i].at \in {"created", "opened", "read", "serving"}
IsRunning == current.thread # None /\ Alive(current.thread)

\* Instances whose service the network sees.
Listed == {i \in Runs : run[i].open /\ run[i].listed}

\* A thread object that nothing refers to any more.
Spent(i) == ~Alive(i) /\ ~run[i].open /\ \A c \in Callers : call[c].run # i /\ call[c].zc # i

Fault == used.faults < MaxFaults /\ used' = [used EXCEPT !.faults = @ + 1]

-----------------------------------------------------------------------------
(* runtime.start and runtime.stop, called by main().                       *)

Step(from, to) == agent = from /\ agent' = to

\* default_bus.subscribe, and the monitor's snapshot before its thread runs.
Watched == [NoMonitor EXCEPT !.at = "started", !.snap = net]

Launch ==
  /\ Step("down", "watching")
  /\ subscribed' = TRUE
  /\ mon' = Watched
  /\ UNCHANGED <<net, up, sock, starter, current, run, call, used>>

\* Each server binds a port, which the advertiser is told, and gets a thread.
Starts(s) ==
  /\ up' = up \cup {s}
  /\ UNCHANGED <<net, sock, subscribed, starter, mon, current, run, call, used>>

Stops(s) ==
  /\ up' = up \ {s}
  /\ UNCHANGED <<net, sock, subscribed, starter, mon, current, run, call, used>>

StartHttp == Step("watching", "http") /\ Starts("http")

StartTls == Step("http", "tls") /\ Starts("tls")

\* The daemon's loop hands the advertiser's start to a thread of its own.
StartDaemon ==
  /\ Step("tls", "daemon")
  /\ starter' = TRUE
  /\ UNCHANGED <<net, up, sock, subscribed, mon, current, run, call, used>>

\* A stale socket is removed first; a failing bind is logged and never retried.
StartSocket ==
  /\ Step("daemon", "socket")
  /\ \/ sock' = "live" /\ UNCHANGED used
     \/ sock' = "none" /\ Fault
  /\ UNCHANGED <<net, up, subscribed, starter, mon, current, run, call>>

StartPeers == Step("socket", "running") /\ Starts("peers")

\* SIGTERM: the monitor's thread is joined, then the subscription disposed of.
StopWatch ==
  /\ Step("running", "unwatched")
  /\ mon.read = None
  /\ mon' = NoMonitor
  /\ subscribed' = FALSE
  /\ UNCHANGED <<net, up, sock, starter, current, run, call, used>>

StopSocket ==
  /\ Step("unwatched", "nosocket")
  /\ sock' = "none"
  /\ UNCHANGED <<net, up, subscribed, starter, mon, current, run, call, used>>

StopPeers == Step("nosocket", "nopeers") /\ Stops("peers")

StopTls == Step("nopeers", "notls") /\ Stops("tls")

StopHttp == Step("notls", "nohttp") /\ Stops("http")

\* The daemon's stop stops the advertiser, but not the thread that starts it.
StopDaemon ==
  /\ Step("nohttp", "nodaemon")
  /\ call' = [call EXCEPT ![Main].at = "stop"]
  /\ UNCHANGED <<net, up, sock, subscribed, starter, mon, current, run, used>>

\* All threads of a process that ends are gone.
Gone ==
  /\ mon' = NoMonitor /\ starter' = FALSE /\ current' = Unused
  /\ run' = [i \in Runs |-> NoRun] /\ call' = [c \in Callers |-> NoCall]

\* main() returns.
Exit ==
  /\ Step("nodaemon", "ended") /\ call[Main].at = "start"
  /\ Gone
  /\ UNCHANGED <<net, up, sock, subscribed, used>>

\* The process dies; the socket's file stays, and launchd starts the agent again.
Crash ==
  /\ agent \notin {"down", "ended"} /\ used.crashes < MaxCrashes
  /\ used' = [used EXCEPT !.crashes = @ + 1]
  /\ agent' = "down" /\ up' = {} /\ subscribed' = FALSE
  /\ sock' = IF sock = "none" THEN "none" ELSE "stale"
  /\ Gone
  /\ UNCHANGED net

-----------------------------------------------------------------------------
(* The network monitor.                                                    *)

\* Some state of the network changes, its address or not; a change before the
\* notification keys are set is not notified.
NetworkChange(a) ==
  /\ used.changes < MaxChanges
  /\ Prompt => mon.at # "started" /\ a \notin {mon.snap} \ {net}
  /\ net' = a
  /\ used' = [used EXCEPT !.changes = @ + 1]
  /\ mon' = [mon EXCEPT !.due = (mon.at = "listening")]
  /\ UNCHANGED <<process, current, run, call>>

Listen ==
  /\ mon.at = "started"
  /\ mon' = [mon EXCEPT !.at = "listening"]
  /\ UNCHANGED <<net, process, current, run, call, used>>

\* _on_network_changed reads the addresses ...
ReadAddresses ==
  /\ mon.due /\ mon.read = None
  /\ mon' = [mon EXCEPT !.due = FALSE, !.read = net]
  /\ UNCHANGED <<net, process, current, run, call, used>>

\* The bus calls _on_ip_changed, which only starts a thread.
Published ==
  \E r \in Restarters : /\ call[r] = NoCall
                        /\ call' = [call EXCEPT ![r].at = "check"]

\* ... and when they differ from the snapshot replaces it and publishes.
Compare ==
  /\ mon.read # None
  /\ mon' = [mon EXCEPT !.snap = mon.read, !.read = None]
  /\ IF mon.read # mon.snap /\ subscribed THEN Published ELSE UNCHANGED call
  /\ UNCHANGED <<net, process, current, run, used>>

-----------------------------------------------------------------------------
(* The advertiser's start and stop, for every thread that calls them.      *)

\* start(): nothing when the thread is alive, else a new event and thread.
NewRun(i) ==
  /\ current' = [current EXCEPT !.thread = i, !.stop = FALSE]
  /\ run' = [run EXCEPT ![i] = [NoRun EXCEPT !.at = "created"]]

StartRun ==
  IF IsRunning THEN UNCHANGED <<current, run>>
  ELSE /\ \E i \in Runs : Spent(i)
       /\ NewRun(CHOOSE i \in Runs : Spent(i))

FirstStart ==
  /\ starter
  /\ starter' = FALSE
  /\ StartRun
  /\ UNCHANGED <<net, agent, up, sock, subscribed, mon, call, used>>

\* Slip: a restart is skipped while the advertiser is not ready.
RestartsReady == IsRunning /\ run[current.thread].at = "serving"

\* A restart is skipped while the advertiser is not running.
Restarts == IsRunning

CheckRunning(r) ==
  /\ call[r].at = "check"
  /\ call' = [call EXCEPT ![r] = IF Restarts THEN [@ EXCEPT !.at = "stop"] ELSE NoCall]
  /\ UNCHANGED <<net, process, mon, current, run, used>>

\* Slip: the instance is forgotten without being closed.
TakenThread == [at |-> "close", zc |-> None, run |-> current.thread]

\* stop() under the lock: who waits on the event leaves its loop.
Taken == [at |-> "close", zc |-> current.zc, run |-> current.thread]

Take(c) ==
  /\ call[c].at = "stop"
  /\ Prompt => \A i \in Runs : run[i].at # "created"
  /\ call' = [call EXCEPT ![c] = Taken]
  /\ current' = [thread |-> None, zc |-> None, stop |-> TRUE]
  /\ run' = [i \in Runs |-> [run[i] EXCEPT !.at = IF @ = "serving" THEN "ended" ELSE @]]
  /\ UNCHANGED <<net, process, mon, used>>

\* Slip: the service stays registered.
ClosedListed(i) == [run[i] EXCEPT !.open = FALSE]

\* zeroconf.close() unregisters the service, outside the lock.
Closed(i) == [run[i] EXCEPT !.open = FALSE, !.listed = FALSE]

Close(c) ==
  /\ call[c].at = "close"
  /\ run' = [i \in Runs |-> IF i = call[c].zc THEN Closed(i) ELSE run[i]]
  /\ call' = [call EXCEPT ![c].at = "join", ![c].zc = None]
  /\ UNCHANGED <<net, process, mon, current, used>>

\* thread.join, which gives up after timeout_seconds + 1 on a thread that has
\* gone on serving with the event of a later start.
Join(c) ==
  /\ call[c].at = "join"
  /\ Prompt /\ call[c].run # None => run[call[c].run].at \notin {"created", "opened", "read"}
  /\ call' = [call EXCEPT ![c] = [NoCall EXCEPT !.at = "start"]]
  /\ UNCHANGED <<net, process, mon, current, run, used>>

StartAgain(r) ==
  /\ r # Main /\ call[r].at = "start"
  /\ call' = [call EXCEPT ![r] = NoCall]
  /\ StartRun
  /\ UNCHANGED <<net, process, mon, used>>

-----------------------------------------------------------------------------
(* The advertiser's thread, _run_loop.                                     *)

Fails(i) ==
  /\ Fault
  /\ run' = [run EXCEPT ![i].at = "ended"]
  /\ UNCHANGED current

\* The instance is stored although stop may have been called in between.
OpenZeroconf(i) ==
  /\ run[i].at = "created"
  /\ \/ /\ run' = [run EXCEPT ![i].at = "opened", ![i].open = TRUE]
        /\ current' = [current EXCEPT !.zc = i]
        /\ UNCHANGED used
     \/ Fails(i)
  /\ UNCHANGED <<net, process, mon, call>>

LocalAddresses(i) ==
  /\ run[i].at = "opened"
  /\ run' = [run EXCEPT ![i].at = "read", ![i].addr = net]
  /\ UNCHANGED <<net, process, mon, current, call, used>>

\* register_service raises when the instance was closed, and may raise when
\* another instance has the service's name.
Register(i) ==
  /\ run[i].at = "read"
  /\ \/ /\ run[i].open
        /\ run' = [run EXCEPT ![i].listed = TRUE, ![i].at = IF current.stop THEN "ended" ELSE "serving"]
        /\ UNCHANGED <<current, used>>
     \/ /\ ~run[i].open \/ Listed # {}
        /\ run' = [run EXCEPT ![i].at = "ended"]
        /\ UNCHANGED <<current, used>>
     \/ Fails(i)
  /\ UNCHANGED <<net, process, mon, call>>

-----------------------------------------------------------------------------
AgentInit ==
  /\ net \in Nets
  /\ agent = "down" /\ up = {} /\ subscribed = FALSE /\ starter = FALSE
  /\ sock \in {"none", "stale"}
  /\ mon = NoMonitor /\ current = Unused
  /\ run = [i \in Runs |-> NoRun]
  /\ call = [c \in Callers |-> NoCall]
  /\ used = [changes |-> 0, crashes |-> 0, faults |-> 0]

Start == Launch \/ StartHttp \/ StartTls \/ StartDaemon \/ StartSocket \/ StartPeers
Stop == StopSocket \/ StopPeers \/ StopTls \/ StopHttp \/ StopDaemon \/ Exit
Monitor == Listen \/ ReadAddresses \/ Compare
Caller(c) == CheckRunning(c) \/ Take(c) \/ Close(c) \/ Join(c) \/ StartAgain(c)
Advertiser(i) == OpenZeroconf(i) \/ LocalAddresses(i) \/ Register(i)

AgentNext ==
  \/ Start \/ StopWatch \/ Stop \/ Crash \/ Monitor \/ FirstStart
  \/ \E a \in Nets : NetworkChange(a)
  \/ \E c \in Callers : Caller(c)
  \/ \E i \in Runs : Advertiser(i)

\* Threads run, and launchd keeps the agent alive.
AgentFairness ==
  /\ WF_agentVars(Start) /\ WF_agentVars(Stop) /\ WF_agentVars(Monitor) /\ WF_agentVars(FirstStart)
  /\ \A c \in Callers : WF_agentVars(Caller(c))
  /\ \A i \in Runs : WF_agentVars(Advertiser(i))

AgentSpec == AgentInit /\ [][AgentNext]_agentVars /\ AgentFairness

-----------------------------------------------------------------------------
(* Properties.                                                             *)

\* Every variable keeps its type, and a closed instance lists nothing.
AgentTypeOK ==
  /\ net \in Nets
  /\ agent \in {"down", "watching", "http", "tls", "daemon", "socket", "running", "unwatched",
                "nosocket", "nopeers", "notls", "nohttp", "nodaemon", "ended"}
  /\ up \subseteq {"http", "tls", "peers"} /\ subscribed \in BOOLEAN /\ starter \in BOOLEAN
  /\ sock \in {"none", "live", "stale"}
  /\ mon.at \in {"off", "started", "listening"}
  /\ mon.snap \in Nets \cup {None} /\ mon.read \in Nets \cup {None}
  /\ current.thread \in Runs \cup {None} /\ current.zc \in Runs \cup {None}
  /\ \A i \in Runs : /\ run[i].at \in {"free", "created", "opened", "read", "serving", "ended"}
                      /\ run[i].addr \in Nets \cup {None}
                      /\ run[i].listed => run[i].open
  /\ \A c \in Callers : call[c].at \in {"idle", "check", "stop", "close", "join", "start"}

\* If threads that are started run their first statement soon (Prompt), no
\* advertisement is lost, however the restarts overlap: an instance that lists
\* the service is the advertiser's, or a thread inside stop will close it.
NoneLeaked ==
  \A i \in Listed : current.zc = i \/ \E c \in Callers : call[c].zc = i

\* Whatever the overlap of restarts, crashes and changes of the address, the
\* running agent ends up listening on its socket and advertised once, under
\* the machine's present address, unless a Zeroconf call or the bind failed.
EndsUpVisible ==
  <>[](agent = "running" /\ used.faults = 0 =>
         /\ up = {"http", "tls", "peers"} /\ sock = "live"
         /\ Cardinality(Listed) = 1 /\ \A i \in Listed : run[i].addr = net)
=============================================================================
