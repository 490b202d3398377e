----------------------------- MODULE McpClient -----------------------------
(***************************************************************************)
(* Calls of the tools of one MCP server over stdio: the client that        *)
(* McpBridge keeps for the server                                          *)
(* (packages/integrations/src/mcp-bridge.ts), the server processes the     *)
(* client spawns, and its requests that wait for an answer                 *)
(* (mcp-stdio-client.ts).  All callers share the client: the sessions of   *)
(* the gateway, the workflows, the health report.                          *)
(***************************************************************************)
EXTENDS Integers

CONSTANTS
    Calls,       \* the calls of the bridge: callTool and listTools
    None,
    MaxRestarts, \* maxRestarts
    MaxCrashes   \* bound: server processes that end or go deaf by themselves

ASSUME NumbersAssumption == MaxRestarts \in Nat /\ MaxCrashes \in Nat

\* A client is named after the call that created it, a process after the call
\* that spawned it and the place: start(), or ensureRunning().
Places == {"start", "ensure"}
Processes == Calls \X Places

ASSUME NoneAssumption == None \notin Calls \cup Processes

VARIABLES
    clients, \* the client in the bridge's map, or None
    closing, \* close() of the bridge waits for the clients it has closed
    client,  \* [proc, started, restarts] of each client
    process, \* "none", "live", "deaf": runs, but its stdin is not writable,
             \* "killed", "gone"
    pending, \* the calls whose request each client has in its pending map
    call,    \* where each call is, with which client; place: where it spawns, and
             \* "ensure" once ensureRunning has let it pass
    crashes

vars == <<clients, closing, client, process, pending, call, crashes>>

Settled == {"done", "failed"}
Waiting == {"initializing", "calling"}

TypeOK ==
    /\ clients \in Calls \cup {None}
    /\ closing \in BOOLEAN
    /\ client \in [Calls -> [proc : Processes \cup {None}, started : BOOLEAN,
                             restarts : 0..MaxRestarts]]
    /\ process \in [Processes -> {"none", "live", "deaf", "killed", "gone"}]
    /\ pending \in [Calls -> SUBSET Calls]
    /\ call \in [Calls ->
          [at : {"new", "entered", "spawning", "sending", "rejected"} \cup Waiting \cup Settled,
           client : Calls \cup {None}, place : Places]]
    /\ crashes \in 0..MaxCrashes

At(c, place) == call[c].at = place
Goes(c, at) == call' = [call EXCEPT ![c].at = at]
Mine(c) == call[c].client
Running(p) == process[p] \in {"live", "deaf"}

-----------------------------------------------------------------------------
(* McpBridge *)

Spawns(c, g, place) ==
    /\ process' = [process EXCEPT ![<<c, place>>] = "live"]
    /\ call' = [call EXCEPT ![c] =
                  [at |-> "spawning", client |-> g, place |-> place]]

Kill(p) == IF p # None /\ Running(p) THEN [process EXCEPT ![p] = "killed"] ELSE process

\* Mutant: the process is left running.
LeavesRunning(g) == process

KillOf(g) == Kill(client[g].proc)

\* invalidate(): the client in the map, whichever it is by now.  Its pending
\* map is cleared, and with it what the timers of its requests look for.
Invalidates ==
    IF clients = None
    THEN UNCHANGED <<clients, client, process, pending>>
    ELSE /\ client' = [client EXCEPT ![clients].proc = None,
                                     ![clients].started = FALSE]
         /\ process' = KillOf(clients)
         /\ pending' = [pending EXCEPT ![clients] = {}]
         /\ clients' = None

\* The catch of tryCallStdioTool.
CallFails(c) ==
    /\ At(c, "rejected")
    /\ Invalidates
    /\ Goes(c, "failed")
    /\ UNCHANGED <<closing, crashes>>

\* The configuration of the server is changed.
Reconfigure ==
    /\ clients # None
    /\ Invalidates
    /\ UNCHANGED <<closing, call, crashes>>

\* close(): the client is closed, and the map cleared when that is done.
Close ==
    /\ ~closing
    /\ closing' = TRUE
    /\ IF clients = None
       THEN UNCHANGED <<client, process>>
       ELSE /\ process' = KillOf(clients)
            /\ client' = [client EXCEPT ![clients] =
                            [proc |-> None, started |-> FALSE, restarts |-> 0]]
    /\ UNCHANGED <<clients, pending, call, crashes>>

ClearMap ==
    /\ closing
    /\ closing' = FALSE
    /\ clients' = None
    /\ UNCHANGED <<client, process, pending, call, crashes>>

-----------------------------------------------------------------------------
(* McpStdioClient: the server process *)

\* It has a process whose stdin is writable.
Writable(g) == client[g].proc # None /\ process[client[g].proc] # "deaf"

Connected(g) == client[g].started /\ Writable(g)

\* request(): it goes to the process the client has now.
Requests(c, waiting) ==
    IF Writable(Mine(c))
    THEN /\ Goes(c, waiting)
         /\ pending' = [pending EXCEPT ![Mine(c)] = @ \cup {c}]
    ELSE /\ Goes(c, "rejected")
         /\ UNCHANGED pending

\* getClient: a new client is put in the map before it has started.
EnterNew(c) ==
    /\ At(c, "new")
    /\ clients = None
    /\ clients' = c
    /\ client' = [client EXCEPT ![c].proc = <<c, "start">>]
    /\ Spawns(c, c, "start")
    /\ UNCHANGED <<closing, pending, crashes>>

\* getClient finds a client.
EnterKnown(c) ==
    /\ At(c, "new")
    /\ clients # None
    /\ call' = [call EXCEPT ![c].at = "entered", ![c].client = clients]
    /\ UNCHANGED <<clients, closing, client, process, pending, crashes>>

\* ensureRunning, whatever has become of the client.
Ensures(c) ==
    LET g == Mine(c)
    IN  /\ At(c, "entered")
        /\ \/ /\ Connected(g)
              /\ call' = [call EXCEPT ![c].at = "sending", ![c].place = "ensure"]
              /\ UNCHANGED <<client, process>>
           \/ /\ ~Connected(g)
              /\ client[g].restarts >= MaxRestarts
              /\ Goes(c, "rejected")
              /\ UNCHANGED <<client, process>>
           \/ /\ ~Connected(g)
              /\ client[g].restarts < MaxRestarts
              /\ client' = [client EXCEPT ![g].restarts = @ + 1,
                                          ![g].proc = <<c, "ensure">>]
              /\ Spawns(c, g, "ensure")
        /\ UNCHANGED <<clients, closing, pending, crashes>>

\* 'spawn' was emitted: initialize is sent.
Spawned(c) ==
    /\ At(c, "spawning")
    /\ Requests(c, "initializing")
    /\ UNCHANGED <<clients, closing, client, process, crashes>>

\* callTool sends its request.
Sends(c) ==
    /\ At(c, "sending")
    /\ Requests(c, "calling")
    /\ UNCHANGED <<clients, closing, client, process, crashes>>

\* Mutant: what is pending is dropped.
Dropped(g) == call

\* What is pending is rejected.
Rejected(g) ==
    [d \in Calls |-> IF d \in pending[g] THEN [call[d] EXCEPT !.at = "rejected"]
                     ELSE call[d]]

\* 'error' or 'exit' of a process: everything its client has pending fails, be
\* it sent to this process or to another one.
ProcessLost(p, g) ==
    /\ process' = [process EXCEPT ![p] = "gone"]
    /\ pending' = [pending EXCEPT ![g] = {}]
    /\ client' = [client EXCEPT
          ![g].started = FALSE,
          ![g].proc = IF @ = p THEN None ELSE @]
    /\ UNCHANGED <<clients, closing>>

SpawnFails(c) ==
    /\ At(c, "spawning")
    /\ process[<<c, call[c].place>>] \in {"live", "killed"}
    /\ ProcessLost(<<c, call[c].place>>, Mine(c))
    /\ call' = [Rejected(Mine(c)) EXCEPT ![c].at = "rejected"]
    /\ UNCHANGED crashes

\* Not before 'spawn'.
HasSpawned(p) == ~(At(p[1], "spawning") /\ call[p[1]].place = p[2])

\* A process that was killed, or that closed its stdin, ends.
Exits(p) ==
    /\ process[p] \in {"deaf", "killed"} /\ HasSpawned(p)
    /\ ProcessLost(p, Mine(p[1]))
    /\ call' = Rejected(Mine(p[1]))
    /\ UNCHANGED crashes

Crash(p) ==
    /\ process[p] = "live" /\ HasSpawned(p)
    /\ crashes < MaxCrashes
    /\ crashes' = crashes + 1
    /\ ProcessLost(p, Mine(p[1]))
    /\ call' = Rejected(Mine(p[1]))

\* Its stdin is closed, or a write to it fails: it can be noticed before 'exit'.
GoesDeaf(p) ==
    /\ process[p] = "live" /\ HasSpawned(p)
    /\ crashes < MaxCrashes
    /\ crashes' = crashes + 1
    /\ process' = [process EXCEPT ![p] = "deaf"]
    /\ UNCHANGED <<clients, closing, client, pending, call>>

-----------------------------------------------------------------------------
(* McpStdioClient: requests *)

IsPending(c) == c \in pending[Mine(c)]

Forget(c) == pending' = [pending EXCEPT ![Mine(c)] = @ \ {c}]

\* initialize is answered: notify throws, or the client has started.  start()
\* leaves it to ensureRunning to look once more.
Initialized(c) ==
    /\ At(c, "initializing") /\ IsPending(c)
    /\ Forget(c)
    /\ IF Writable(Mine(c))
       THEN /\ client' = [client EXCEPT ![Mine(c)].started = TRUE]
            /\ Goes(c, IF call[c].place = "start" THEN "entered" ELSE "sending")
       ELSE Goes(c, "rejected") /\ UNCHANGED client
    /\ UNCHANGED <<clients, closing, process, crashes>>

\* The call is answered.
Answered(c) ==
    /\ At(c, "calling") /\ IsPending(c)
    /\ Forget(c)
    /\ Goes(c, "done")
    /\ UNCHANGED <<clients, closing, client, process, crashes>>

\* Mutant: initialize has no timer.
OnlyCallsFail(c) ==
    /\ At(c, "calling") /\ IsPending(c)
    /\ Forget(c)
    /\ Goes(c, "rejected")
    /\ UNCHANGED <<clients, closing, client, process, crashes>>

\* A request is answered with an error, or not within MCP_REQUEST_TIMEOUT_MS.
RequestFails(c) ==
    /\ call[c].at \in Waiting /\ IsPending(c)
    /\ Forget(c)
    /\ Goes(c, "rejected")
    /\ UNCHANGED <<clients, closing, client, process, crashes>>

-----------------------------------------------------------------------------
Init ==
    /\ clients = None
    /\ closing = FALSE
    /\ client = [g \in Calls |-> [proc |-> None, started |-> FALSE, restarts |-> 0]]
    /\ process = [p \in Processes |-> "none"]
    /\ pending = [g \in Calls |-> {}]
    /\ call = [c \in Calls |-> [at |-> "new", client |-> None, place |-> "start"]]
    /\ crashes = 0

\* What the client does without the server: a request ends by its timer.
ClientStep(c) ==
    Ensures(c) \/ Spawned(c) \/ Sends(c) \/ RequestFails(c) \/ CallFails(c)

Next ==
    \/ \E c \in Calls :
          \/ EnterNew(c) \/ EnterKnown(c) \/ ClientStep(c) \/ SpawnFails(c)
          \/ Initialized(c) \/ Answered(c)
    \/ \E p \in Processes : Exits(p) \/ Crash(p) \/ GoesDeaf(p)
    \/ Reconfigure \/ Close \/ ClearMap

Spec == Init /\ [][Next]_vars

\* Timers fire; nothing is said of the server.
FairSpec == Spec /\ \A c \in Calls : WF_vars(ClientStep(c))

-----------------------------------------------------------------------------
(* Properties *)

\* The timer of its request finds nothing to reject.
Forgotten(c) == call[c].at \in Waiting /\ ~IsPending(c)

\* mcp-stdio-client.ts:50, "How long one MCP request may take before it is
\* failed": a call gets its result or fails, whatever the server and its
\* process do.
EveryCallSettles ==
    \A c \in Calls : ~At(c, "new") ~> call[c].at \in Settled

\* The same but for the calls that the client has forgotten: each of the others
\* settles by itself, however many there are and whatever the server does.
SettlesUnlessForgotten ==
    \A c \in Calls : ~At(c, "new") ~> call[c].at \in Settled \/ Forgotten(c)

\* A call is forgotten only with the client in the map: by a failed call or by
\* a change of the configuration, never by the loss of a process.
OnlyInvalidationForgets ==
    [][\A c \in Calls :
          Forgotten(c)' /\ ~Forgotten(c) => clients = Mine(c) /\ clients' = None]_vars

\* The processes that run and that the bridge would neither use nor kill.
Orphans ==
    {p \in Processes : Running(p) /\ ~(clients # None /\ client[clients].proc = p)}

\* A process is left behind only by a restart, which restartCount bounds, or by
\* close(), of a client restarted before the map is cleared: not by a start or a
\* call that fails, an invalidation or the loss of another process.
OnlyRestartsLeaveOrphans ==
    [][\/ Orphans' \subseteq Orphans
       \/ \E g \in Calls : client'[g].restarts > client[g].restarts
       \/ closing /\ ~closing']_vars

\* None at all is left behind.
NoOrphanProcess == Orphans = {}

\* A call fails by its own request, or with the process it was sent to.
OneFailureStaysOne ==
    [][\A c, d \in Calls :
          (c # d /\ At(c, "rejected") /\ At(c, "failed")' /\ At(d, "calling"))
             => IsPending(d)']_vars

=============================================================================
