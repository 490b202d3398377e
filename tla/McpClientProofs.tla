--------------------------- MODULE McpClientProofs ---------------------------
(***************************************************************************)
(* Proofs about McpClient for any calls, however they overlap, and any     *)
(* restarts and crashes: the type invariant, what makes the client forget  *)
(* a call, and what leaves a server process behind.  EnteredInv, that      *)
(* clients, requests and processes are those of calls that have entered,   *)
(* is all that has to be known of the states; the rest is in the steps.    *)
(***************************************************************************)
EXTENDS McpClient, TLAPS

Client == [proc : Processes \cup {None}, started : BOOLEAN, restarts : 0..MaxRestarts]
CallState == [at : {"new", "entered", "spawning", "sending", "rejected"}
                   \cup Waiting \cup Settled,
              client : Calls \cup {None}, place : Places]
Life == [Processes -> {"none", "live", "deaf", "killed", "gone"}]

EnteredInv ==
    /\ \A c \in Calls : ~At(c, "new") => Mine(c) \in Calls
    /\ \A g, c \in Calls : c \in pending[g] => ~At(c, "new")
    /\ \A p \in Processes : process[p] # "none" => ~At(p[1], "new")

Inv == TypeOK /\ EnteredInv

-----------------------------------------------------------------------------
(* Lemmas *)

\* The records of TypeOK by name.
LEMMA TypeFacts ==
    /\ TypeOK <=> /\ clients \in Calls \cup {None} /\ closing \in BOOLEAN
                  /\ client \in [Calls -> Client] /\ process \in Life
                  /\ pending \in [Calls -> SUBSET Calls]
                  /\ call \in [Calls -> CallState] /\ crashes \in 0..MaxCrashes
    /\ TypeOK' <=> /\ clients' \in Calls \cup {None} /\ closing' \in BOOLEAN
                   /\ client' \in [Calls -> Client] /\ process' \in Life
                   /\ pending' \in [Calls -> SUBSET Calls]
                   /\ call' \in [Calls -> CallState] /\ crashes' \in 0..MaxCrashes
BY DEF TypeOK, Client, CallState, Life

\* Killing a process leaves the processes well typed, and no other one runs
\* or stops running.
LEMMA KillFacts ==
    ASSUME NEW p, process \in Life
    PROVE  /\ Kill(p) \in Life
           /\ \A q \in Processes :
                 /\ Kill(p)[q] \in {"live", "deaf"} => Running(q) /\ q # p
                 /\ Kill(p)[q] # "none" => process[q] # "none"
<1>1. CASE p # None /\ Running(p)
  <2>1. Kill(p) = [process EXCEPT ![p] = "killed"]
    BY <1>1 DEF Kill
  <2>2. \A q \in Processes : Kill(p)[q] = IF q = p THEN "killed" ELSE process[q]
    BY <2>1 DEF Life
  <2>3. Kill(p) \in Life
    BY <2>1 DEF Life
  <2> QED
    BY <1>1, <2>2, <2>3 DEF Running
<1>2. CASE ~(p # None /\ Running(p))
  <2>1. Kill(p) = process
    BY <1>2 DEF Kill
  <2>2. \A q \in Processes : Running(q) => q # None
    BY NoneAssumption
  <2> QED
    BY <1>2, <2>1, <2>2 DEF Running
<1> QED
  BY <1>1, <1>2

\* A call goes from one place to another, with the client it has.
LEMMA GoesFacts ==
    ASSUME call \in [Calls -> CallState], NEW c \in Calls,
           NEW a \in {"entered", "spawning", "sending", "rejected"} \cup Waiting \cup Settled,
           Goes(c, a)
    PROVE  /\ call' \in [Calls -> CallState]
           /\ \A d \in Calls : /\ call'[d].client = call[d].client
                               /\ call'[d].at = IF d = c THEN a ELSE call[d].at
<1>1. call' = [call EXCEPT ![c] = [call[c] EXCEPT !.at = a]]
  BY DEF Goes
<1>2. /\ [call[c] EXCEPT !.at = a] \in CallState
      /\ [call[c] EXCEPT !.at = a].client = call[c].client
      /\ [call[c] EXCEPT !.at = a].at = a
  BY DEF CallState
<1> QED
  BY <1>1, <1>2

\* Rejecting what is pending changes nothing but where calls are.
LEMMA RejectedFacts ==
    ASSUME call \in [Calls -> CallState], NEW g
    PROVE  /\ Rejected(g) \in [Calls -> CallState]
           /\ \A d \in Calls :
                 /\ Rejected(g)[d].client = call[d].client
                 /\ Rejected(g)[d].at = IF d \in pending[g] THEN "rejected" ELSE call[d].at
<1>1. \A d \in Calls : Rejected(g)[d] = IF d \in pending[g]
                                        THEN [call[d] EXCEPT !.at = "rejected"]
                                        ELSE call[d]
  BY DEF Rejected
<1>2. \A d \in Calls : [call[d] EXCEPT !.at = "rejected"] \in CallState
  BY DEF CallState
<1>3. Rejected(g) \in [Calls -> CallState]
  BY <1>2 DEF Rejected
<1> QED
  BY <1>1, <1>3 DEF CallState

\* A request is pending from the moment it is sent, or rejected.
LEMMA RequestsFacts ==
    ASSUME Inv, NEW c \in Calls, ~At(c, "new"), NEW w \in Waiting, Requests(c, w)
    PROVE  /\ call' \in [Calls -> CallState] /\ pending' \in [Calls -> SUBSET Calls]
           /\ \A d \in Calls : /\ call'[d].client = call[d].client
                               /\ d # c => call'[d].at = call[d].at
                               /\ IsPending(d) => IsPending(d)'
           /\ \A h, d \in Calls : d \in pending'[h] => d \in pending[h] \/ d = c
           /\ At(c, "rejected")' \/ (At(c, w) /\ IsPending(c))'
<1>1. /\ call \in [Calls -> CallState] /\ pending \in [Calls -> SUBSET Calls]
      /\ Mine(c) \in Calls
  BY TypeFacts DEF Inv, EnteredInv
<1>2. CASE Writable(Mine(c))
  <2>1. Goes(c, w) /\ pending' = [pending EXCEPT ![Mine(c)] = @ \cup {c}]
    BY <1>2 DEF Requests
  <2>2. /\ call' \in [Calls -> CallState]
        /\ \A d \in Calls : /\ call'[d].client = call[d].client
                            /\ call'[d].at = IF d = c THEN w ELSE call[d].at
    BY <1>1, <2>1, GoesFacts
  <2>3. /\ pending' \in [Calls -> SUBSET Calls] /\ c \in pending'[Mine(c)]
        /\ \A g \in Calls : pending[g] \subseteq pending'[g]
        /\ \A h, d \in Calls : d \in pending'[h] => d \in pending[h] \/ d = c
    BY <1>1, <2>1
  <2>4. ASSUME NEW d \in Calls, IsPending(d) PROVE IsPending(d)'
    <3>1. CASE Mine(d) = Mine(c)
      BY <1>1, <2>1, <2>2, <2>4, <3>1 DEF IsPending, Mine
    <3>2. CASE Mine(d) # Mine(c)
      BY <1>1, <2>1, <2>2, <2>4, <3>2 DEF IsPending, Mine
    <3> QED
      BY <3>1, <3>2
  <2> QED
    BY <2>2, <2>3, <2>4 DEF At, IsPending, Mine
<1>3. CASE ~Writable(Mine(c))
  <2>1. Goes(c, "rejected") /\ pending' = pending
    BY <1>3 DEF Requests
  <2>2. /\ call' \in [Calls -> CallState]
        /\ \A d \in Calls : /\ call'[d].client = call[d].client
                            /\ call'[d].at = IF d = c THEN "rejected" ELSE call[d].at
    BY <1>1, <2>1, GoesFacts
  <2> QED
    BY <1>1, <2>1, <2>2 DEF At, IsPending, Mine
<1> QED
  BY <1>2, <1>3

\* Losing a process leaves the state well typed, no process runs that did not,
\* and a client that has another one keeps it.
LEMMA LostFacts ==
    ASSUME Inv, NEW p \in Processes, NEW g, ProcessLost(p, g)
    PROVE  /\ process' \in Life /\ pending' \in [Calls -> SUBSET Calls]
           /\ client' \in [Calls -> Client]
           /\ \A q \in Processes : Running(q)' => Running(q) /\ q # p
           /\ \A h \in Calls : client[h].proc # p => client'[h].proc = client[h].proc
           /\ \A h \in Calls : h # g => pending'[h] = pending[h]
           /\ \A h \in Calls : pending'[h] \subseteq pending[h]
           /\ \A q \in Processes : process'[q] # "none" => process[q] # "none" \/ q = p
           /\ UNCHANGED <<clients, closing>>
<1>1. /\ client \in [Calls -> Client] /\ process \in Life
      /\ pending \in [Calls -> SUBSET Calls]
  BY TypeFacts DEF Inv
<1>2. /\ process' = [process EXCEPT ![p] = "gone"]
      /\ pending' = [pending EXCEPT ![g] = {}]
      /\ client' = [client EXCEPT ![g].started = FALSE,
                                  ![g].proc = IF @ = p THEN None ELSE @]
      /\ UNCHANGED <<clients, closing>>
  BY DEF ProcessLost
<1>3. client' \in [Calls -> Client]
  BY <1>1, <1>2 DEF Client
<1>4. \A h \in Calls : client[h].proc # p => client'[h].proc = client[h].proc
  BY <1>1, <1>2 DEF Client
<1>5. /\ process' \in Life
      /\ \A q \in Processes : Running(q)' => Running(q) /\ q # p
      /\ \A q \in Processes : process'[q] # "none" => process[q] # "none" \/ q = p
  <2>1. \A q \in Processes : process'[q] = IF q = p THEN "gone" ELSE process[q]
    BY <1>1, <1>2 DEF Life
  <2>2. process' \in Life
    BY <1>1, <1>2 DEF Life
  <2> QED
    BY <2>1, <2>2 DEF Running
<1> QED
  BY <1>1, <1>2, <1>3, <1>4, <1>5

\* What an invalidation does: what was pending elsewhere stays, and no process
\* runs but those that the client in the map did not have.
LEMMA InvalidatesFacts ==
    ASSUME Inv, Invalidates
    PROVE  /\ client' \in [Calls -> Client] /\ clients' \in Calls \cup {None}
           /\ process' \in Life /\ pending' \in [Calls -> SUBSET Calls]
           /\ \A h \in Calls : pending'[h] # pending[h] => clients = h /\ clients' = None
           /\ \A h \in Calls : pending'[h] \subseteq pending[h]
           /\ \A q \in Processes : process'[q] # "none" => process[q] # "none"
           /\ Orphans' \subseteq Orphans
<1>1. /\ client \in [Calls -> Client] /\ process \in Life
      /\ pending \in [Calls -> SUBSET Calls] /\ clients \in Calls \cup {None}
  BY TypeFacts DEF Inv
<1>2. CASE clients = None
  <2>1. UNCHANGED <<clients, client, process, pending>>
    BY <1>2 DEF Invalidates
  <2> QED
    BY <1>1, <2>1 DEF Orphans, Running
<1>3. CASE clients # None
  <2>1. /\ client' = [client EXCEPT ![clients].proc = None, ![clients].started = FALSE]
        /\ process' = Kill(client[clients].proc) /\ clients' = None
        /\ pending' = [pending EXCEPT ![clients] = {}]
    BY <1>3 DEF Invalidates, KillOf
  <2>2. client' \in [Calls -> Client]
    BY <1>1, <2>1 DEF Client
  <2>3. \A q \in Processes : Running(q)' => Running(q) /\ q # client[clients].proc
    BY <1>1, <2>1, KillFacts DEF Running
  <2>4. Orphans' \subseteq Orphans
    BY <2>3 DEF Orphans
  <2> QED
    BY <1>1, <2>1, <2>2, <2>4, KillFacts
<1> QED
  BY <1>2, <1>3

-----------------------------------------------------------------------------
(* One lemma per kind of step: what it keeps, forgets and leaves behind *)

Forgets ==
    \A c \in Calls : Forgotten(c)' /\ ~Forgotten(c) => clients = Mine(c) /\ clients' = None

Leaves ==
    \/ Orphans' \subseteq Orphans
    \/ \E g \in Calls : client'[g].restarts > client[g].restarts
    \/ closing /\ ~closing'

\* A step that leaves processes and clients alone leaves no process behind.
LEMMA NothingLeft ==
    ASSUME UNCHANGED <<clients, process>>,
           \A g \in Calls : client'[g].proc = client[g].proc, clients \in Calls \cup {None}
    PROVE  Leaves
BY DEF Leaves, Orphans, Running

\* A call that waits for nothing, or for what is pending, is not forgotten.
LEMMA NothingForgotten ==
    ASSUME NEW c \in Calls,
           ~(call'[c].at \in Waiting) \/ IsPending(c)',
           \A d \in Calls \ {c} : Forgotten(d)' => Forgotten(d)
    PROVE  Forgets
BY DEF Forgets, Forgotten

CallsGoOn ==
    \A c \in Calls : /\ ~At(c, "new")' => Mine(c)' \in Calls
                     /\ ~At(c, "new") => ~At(c, "new")'

RequestsEntered ==
    \A g, c \in Calls : c \in pending'[g] => c \in pending[g] \/ ~At(c, "new")'

ProcessesEntered ==
    \A p \in Processes : process'[p] # "none" => process[p] # "none" \/ ~At(p[1], "new")'

\* What is new among requests and processes is of calls that have entered.
LEMMA EnteredStays ==
    ASSUME EnteredInv, CallsGoOn, RequestsEntered, ProcessesEntered
    PROVE  EnteredInv'
<1>1. \A p \in Processes : p[1] \in Calls
  BY DEF Processes
<1> QED
  BY <1>1 DEF EnteredInv, CallsGoOn, RequestsEntered, ProcessesEntered

\* Calls go on where none but one changes, which has a client.
LEMMA OneGoesOn ==
    ASSUME EnteredInv, NEW c \in Calls, ~At(c, "new")', Mine(c)' \in Calls,
           \A d \in Calls \ {c} : call'[d].client = call[d].client
                                  /\ (At(d, "new")' <=> At(d, "new"))
    PROVE  CallsGoOn
BY DEF EnteredInv, CallsGoOn, Mine

\* Calls go on where they stay.
LEMMA AllStay ==
    ASSUME EnteredInv,
           \A d \in Calls : call'[d].client = call[d].client
                            /\ (At(d, "new")' <=> At(d, "new"))
    PROVE  CallsGoOn
BY DEF EnteredInv, CallsGoOn, Mine

\* A new call makes a client or finds one.
LEMMA EnterStep ==
    ASSUME Inv, NEW c \in Calls, EnterNew(c) \/ EnterKnown(c)
    PROVE  Inv' /\ Forgets /\ Leaves
<1>0. /\ client \in [Calls -> Client] /\ call \in [Calls -> CallState]
      /\ process \in Life /\ clients \in Calls \cup {None} /\ TypeOK
      /\ pending \in [Calls -> SUBSET Calls]
  BY TypeFacts DEF Inv
<1>1. CASE EnterNew(c)
  <2>1. /\ call' = [call EXCEPT ![c] =
                      [at |-> "spawning", client |-> c, place |-> "start"]]
        /\ process' = [process EXCEPT ![<<c, "start">>] = "live"]
        /\ client' = [client EXCEPT ![c].proc = <<c, "start">>]
        /\ clients = None /\ clients' = c
        /\ UNCHANGED <<closing, pending, crashes>>
    BY <1>1 DEF EnterNew, Spawns
  <2>2. [at |-> "spawning", client |-> c, place |-> "start"] \in CallState
    BY DEF CallState, Places
  <2>3. <<c, "start">> \in Processes
    BY DEF Processes, Places
  <2>4. call' \in [Calls -> CallState] /\ process' \in Life
    BY <1>0, <2>1, <2>2 DEF Life
  <2>5. client' \in [Calls -> Client] /\ client'[c].proc = <<c, "start">>
    BY <1>0, <2>1, <2>3 DEF Client
  <2>6. TypeOK'
    BY <1>0, <2>1, <2>4, <2>5, TypeFacts
  <2>7. EnteredInv'
    <3>1. call'[c].at = "spawning" /\ call'[c].client = c
          /\ \A d \in Calls \ {c} : call'[d] = call[d]
      BY <1>0, <2>1
    <3>2. ~At(c, "new")' /\ Mine(c)' \in Calls
      BY <3>1 DEF At, Mine
    <3>3. CallsGoOn
      BY <3>1, <3>2, OneGoesOn DEF At, Inv
    <3>4. RequestsEntered
      BY <2>1 DEF RequestsEntered
    <3>5. ProcessesEntered
      BY <1>0, <2>1, <3>2 DEF Life, ProcessesEntered
    <3> QED
      BY <3>3, <3>4, <3>5, EnteredStays DEF Inv
  <2>8. Forgets
    <3>1. call'[c].at = "spawning" /\ \A d \in Calls \ {c} : call'[d] = call[d]
      BY <1>0, <2>1
    <3>2. \A d \in Calls \ {c} : Forgotten(d)' => Forgotten(d)
      BY <2>1, <3>1 DEF Forgotten, IsPending, Mine
    <3>3. ~(call'[c].at \in Waiting)
      BY <3>1 DEF Waiting
    <3> QED
      BY <3>2, <3>3, NothingForgotten
  <2>9. Orphans' \subseteq Orphans
    <3>1. \A q \in Processes : Running(q)' => Running(q) \/ q = <<c, "start">>
      BY <1>0, <2>1 DEF Running, Life
    <3>2. c # None
      BY NoneAssumption
    <3> QED
      BY <2>1, <2>5, <3>1, <3>2 DEF Orphans
  <2> QED
    BY <2>6, <2>7, <2>8, <2>9 DEF Inv, Leaves
<1>2. CASE EnterKnown(c)
  <2>1. /\ call' = [call EXCEPT ![c].at = "entered", ![c].client = clients]
        /\ clients # None
        /\ UNCHANGED <<clients, closing, client, process, pending, crashes>>
    BY <1>2 DEF EnterKnown
  <2>2. /\ [call[c] EXCEPT !.at = "entered", !.client = clients] \in CallState
        /\ call' = [call EXCEPT ![c] = [call[c] EXCEPT !.at = "entered", !.client = clients]]
    BY <1>0, <2>1 DEF CallState
  <2>3. call' \in [Calls -> CallState]
    BY <1>0, <2>2
  <2>4. /\ call'[c].at = "entered" /\ call'[c].client = clients
        /\ \A d \in Calls \ {c} : call'[d] = call[d]
    BY <1>0, <2>1 DEF CallState
  <2>5. TypeOK'
    BY <1>0, <2>1, <2>3, TypeFacts
  <2>6. EnteredInv'
    <3>1. ~At(c, "new")' /\ Mine(c)' \in Calls
      BY <1>0, <2>1, <2>4 DEF At, Mine
    <3>2. CallsGoOn
      BY <2>4, <3>1, OneGoesOn DEF At, Inv
    <3>3. RequestsEntered /\ ProcessesEntered
      BY <2>1 DEF RequestsEntered, ProcessesEntered
    <3> QED
      BY <3>2, <3>3, EnteredStays DEF Inv
  <2>7. Forgets
    <3>1. \A d \in Calls \ {c} : Forgotten(d)' => Forgotten(d)
      BY <2>1, <2>4 DEF Forgotten, IsPending, Mine
    <3>2. ~(call'[c].at \in Waiting)
      BY <2>4 DEF Waiting
    <3> QED
      BY <3>1, <3>2, NothingForgotten
  <2>8. Leaves
    BY <1>0, <2>1, NothingLeft
  <2> QED
    BY <2>5, <2>6, <2>7, <2>8 DEF Inv
<1> QED
  BY <1>1, <1>2

\* ensureRunning: a restart is counted.
LEMMA EnsuresStep ==
    ASSUME Inv, NEW c \in Calls, Ensures(c)
    PROVE  Inv' /\ Forgets /\ Leaves
<1> DEFINE g == Mine(c)
<1>0. /\ client \in [Calls -> Client] /\ call \in [Calls -> CallState]
      /\ process \in Life /\ clients \in Calls \cup {None} /\ TypeOK /\ g \in Calls
      /\ pending \in [Calls -> SUBSET Calls] /\ At(c, "entered") /\ ~At(c, "new")
      /\ UNCHANGED <<clients, closing, pending, crashes>>
  BY TypeFacts DEF Inv, EnteredInv, Ensures, At
<1>1. ASSUME call' \in [Calls -> CallState], call'[c].at \notin Waiting \cup {"new"},
             \A d \in Calls : /\ call'[d].client = call[d].client
                              /\ d # c => call'[d].at = call[d].at,
             \A q \in Processes : process'[q] # "none" => process[q] # "none" \/ q[1] = c
      PROVE  Forgets /\ EnteredInv'
  <2>1. \A d \in Calls \ {c} : Forgotten(d)' => Forgotten(d)
    BY <1>0, <1>1 DEF Forgotten, IsPending, Mine
  <2>2. ~At(c, "new")' /\ Mine(c)' \in Calls
    BY <1>0, <1>1 DEF At, Mine
  <2>3. CallsGoOn /\ RequestsEntered /\ ProcessesEntered
    BY <1>0, <1>1, <2>2, OneGoesOn DEF At, Inv, RequestsEntered, ProcessesEntered
  <2>4. EnteredInv'
    BY <2>3, EnteredStays DEF Inv
  <2> QED
    BY <1>1, <2>1, <2>4, NothingForgotten
<1>2. CASE /\ call' = [call EXCEPT ![c].at = "sending", ![c].place = "ensure"]
           /\ UNCHANGED <<client, process>>
  <2>1. /\ [call[c] EXCEPT !.at = "sending", !.place = "ensure"] \in CallState
        /\ call' = [call EXCEPT ![c] = [call[c] EXCEPT !.at = "sending", !.place = "ensure"]]
    BY <1>0, <1>2 DEF CallState, Places
  <2>2. call' \in [Calls -> CallState]
    BY <1>0, <2>1
  <2>3. /\ call'[c].at = "sending" /\ call'[c].client = call[c].client
        /\ \A d \in Calls \ {c} : call'[d] = call[d]
    BY <1>0, <1>2 DEF CallState
  <2>4. call'[c].at \notin Waiting \cup {"new"}
    BY <2>3 DEF Waiting
  <2>5. TypeOK' /\ Leaves
    BY <1>0, <1>2, <2>2, TypeFacts, NothingLeft
  <2> QED
    BY <1>1, <1>2, <2>2, <2>3, <2>4, <2>5 DEF Inv
<1>3. CASE Goes(c, "rejected") /\ UNCHANGED <<client, process>>
  <2>1. /\ call' \in [Calls -> CallState]
        /\ \A d \in Calls : /\ call'[d].client = call[d].client
                            /\ call'[d].at = IF d = c THEN "rejected" ELSE call[d].at
    BY <1>0, <1>3, GoesFacts
  <2>2. call'[c].at \notin Waiting \cup {"new"}
    BY <2>1 DEF Waiting
  <2>3. TypeOK' /\ Leaves
    BY <1>0, <1>3, <2>1, TypeFacts, NothingLeft
  <2> QED
    BY <1>1, <1>3, <2>1, <2>2, <2>3 DEF Inv
<1>4. CASE /\ client[g].restarts < MaxRestarts
           /\ client' = [client EXCEPT ![g].restarts = @ + 1,
                                       ![g].proc = <<c, "ensure">>]
           /\ Spawns(c, g, "ensure")
  <2>1. /\ call' = [call EXCEPT ![c] =
                      [at |-> "spawning", client |-> g, place |-> "ensure"]]
        /\ process' = [process EXCEPT ![<<c, "ensure">>] = "live"]
    BY <1>4 DEF Spawns
  <2>2. [at |-> "spawning", client |-> g, place |-> "ensure"] \in CallState
    BY <1>0 DEF CallState, Places
  <2>3. call' \in [Calls -> CallState] /\ process' \in Life
    BY <1>0, <2>1, <2>2 DEF Life
  <2>4. /\ call'[c].at = "spawning" /\ call'[c].client = call[c].client
        /\ \A d \in Calls \ {c} : call'[d] = call[d]
    BY <1>0, <2>1 DEF Mine
  <2>5. call'[c].at \notin Waiting \cup {"new"}
    BY <2>4 DEF Waiting
  <2>6. /\ client[g].restarts + 1 \in 0..MaxRestarts /\ client[g].restarts \in Nat
        /\ <<c, "ensure">> \in Processes
    BY <1>0, <1>4, NumbersAssumption DEF Client, Processes, Places
  <2>7. client' \in [Calls -> Client] /\ client'[g].restarts = client[g].restarts + 1
    BY <1>0, <1>4, <2>6 DEF Client
  <2>8. TypeOK'
    BY <1>0, <2>3, <2>7, TypeFacts
  <2>9. Leaves
    BY <1>0, <2>6, <2>7 DEF Leaves
  <2>10. \A q \in Processes : process'[q] # "none" => process[q] # "none" \/ q[1] = c
    BY <1>0, <2>1 DEF Life
  <2> QED
    BY <1>1, <2>3, <2>4, <2>5, <2>8, <2>9, <2>10 DEF Inv
<1> QED
  BY <1>2, <1>3, <1>4 DEF Ensures

\* A request is sent, and pending, or it is rejected.
LEMMA RequestStep ==
    ASSUME Inv, NEW c \in Calls, Spawned(c) \/ Sends(c)
    PROVE  Inv' /\ Forgets /\ Leaves
<1>1. PICK w \in Waiting : Requests(c, w)
  BY DEF Spawned, Sends, Waiting
<1>2. /\ ~At(c, "new") /\ UNCHANGED <<clients, closing, client, process, crashes>>
      /\ TypeOK /\ clients \in Calls \cup {None}
  BY DEF Spawned, Sends, At, Inv, TypeOK
<1>3. /\ call' \in [Calls -> CallState] /\ pending' \in [Calls -> SUBSET Calls]
      /\ \A d \in Calls : /\ call'[d].client = call[d].client
                          /\ d # c => call'[d].at = call[d].at
                          /\ IsPending(d) => IsPending(d)'
      /\ \A h, d \in Calls : d \in pending'[h] => d \in pending[h] \/ d = c
      /\ At(c, "rejected")' \/ (At(c, w) /\ IsPending(c))'
  BY <1>1, <1>2, RequestsFacts
<1>4. TypeOK'
  BY <1>2, <1>3, TypeFacts
<1>5. EnteredInv'
  <2>1. ~At(c, "new")' /\ Mine(c)' \in Calls
    BY <1>2, <1>3 DEF At, Mine, Waiting, Inv, EnteredInv
  <2>2. CallsGoOn
    BY <1>3, <2>1, OneGoesOn DEF At, Inv
  <2>3. RequestsEntered /\ ProcessesEntered
    BY <1>2, <1>3, <2>1 DEF RequestsEntered, ProcessesEntered
  <2> QED
    BY <2>2, <2>3, EnteredStays DEF Inv
<1>6. \A d \in Calls \ {c} : Forgotten(d)' => Forgotten(d)
  BY <1>3 DEF Forgotten
<1>7. ~(call'[c].at \in Waiting) \/ IsPending(c)'
  BY <1>3 DEF At, Waiting
<1>8. Forgets
  BY <1>6, <1>7, NothingForgotten
<1>9. Leaves
  BY <1>2, NothingLeft
<1> QED
  BY <1>4, <1>5, <1>8, <1>9 DEF Inv

\* A request ends: its call waits no longer, the others' stay pending.
LEMMA EndStep ==
    ASSUME Inv, NEW c \in Calls, Initialized(c) \/ Answered(c) \/ RequestFails(c)
    PROVE  Inv' /\ Forgets /\ Leaves
<1>0. /\ client \in [Calls -> Client] /\ call \in [Calls -> CallState]
      /\ clients \in Calls \cup {None} /\ TypeOK
      /\ pending \in [Calls -> SUBSET Calls] /\ ~At(c, "new") /\ Mine(c) \in Calls
      /\ Forget(c) /\ UNCHANGED <<clients, closing, process, crashes>>
  BY TypeFacts DEF Inv, EnteredInv, Initialized, Answered, RequestFails, At, Waiting
<1>1. PICK a \in {"entered", "sending", "rejected", "done"} : Goes(c, a)
  BY DEF Initialized, Answered, RequestFails
<1>2. /\ call' \in [Calls -> CallState]
      /\ \A d \in Calls : /\ call'[d].client = call[d].client
                          /\ call'[d].at = IF d = c THEN a ELSE call[d].at
  <2>1. a \in {"entered", "spawning", "sending", "rejected"} \cup Waiting \cup Settled
    BY <1>1 DEF Settled
  <2> QED
    BY <1>0, <1>1, <2>1, GoesFacts
<1>3. /\ client' \in [Calls -> Client]
      /\ \A g \in Calls : client'[g].proc = client[g].proc
  <2>1. client' = client \/ client' = [client EXCEPT ![Mine(c)].started = TRUE]
    BY DEF Initialized, Answered, RequestFails
  <2>2. CASE client' = client
    BY <1>0, <2>2
  <2>3. CASE client' = [client EXCEPT ![Mine(c)].started = TRUE]
    BY <1>0, <2>3 DEF Client
  <2> QED
    BY <2>1, <2>2, <2>3
<1>4. /\ pending' \in [Calls -> SUBSET Calls]
      /\ \A g, d \in Calls : d # c /\ d \in pending[g] => d \in pending'[g]
      /\ \A g, d \in Calls : d \in pending'[g] => d \in pending[g]
  BY <1>0 DEF Forget
<1>5. TypeOK'
  BY <1>0, <1>2, <1>3, <1>4, TypeFacts
<1>6. EnteredInv'
  <2>1. ~At(c, "new")' /\ Mine(c)' \in Calls
    BY <1>0, <1>1, <1>2 DEF At, Mine
  <2>2. CallsGoOn
    BY <1>2, <2>1, OneGoesOn DEF At, Inv
  <2>3. RequestsEntered /\ ProcessesEntered
    BY <1>0, <1>4 DEF RequestsEntered, ProcessesEntered
  <2> QED
    BY <2>2, <2>3, EnteredStays DEF Inv
<1>7. Forgets
  <2>1. \A d \in Calls \ {c} : Forgotten(d)' => Forgotten(d)
    <3> SUFFICES ASSUME NEW d \in Calls \ {c}, Forgotten(d)' PROVE Forgotten(d)
      OBVIOUS
    <3>1. call[d].at \in Waiting /\ ~At(d, "new") /\ Mine(d)' = Mine(d) /\ ~IsPending(d)'
      BY <1>2 DEF Forgotten, At, Mine, Waiting
    <3>2. Mine(d) \in Calls
      BY <3>1 DEF Inv, EnteredInv
    <3> QED
      BY <1>4, <3>1, <3>2 DEF Forgotten, IsPending
  <2>2. ~(call'[c].at \in Waiting)
    BY <1>1, <1>2 DEF Waiting
  <2> QED
    BY <2>1, <2>2, NothingForgotten
<1>8. Leaves
  BY <1>0, <1>3, NothingLeft
<1> QED
  BY <1>5, <1>6, <1>7, <1>8 DEF Inv

\* The client in the map is invalidated: what it forgets are its own calls.
LEMMA InvalidationStep ==
    ASSUME Inv, Reconfigure \/ \E c \in Calls : CallFails(c)
    PROVE  Inv' /\ Forgets /\ Leaves
<1>0. call \in [Calls -> CallState] /\ TypeOK
  BY TypeFacts DEF Inv
<1>1. /\ Invalidates /\ UNCHANGED <<closing, crashes>>
      /\ call' \in [Calls -> CallState]
      /\ \A d \in Calls : /\ call'[d].client = call[d].client
                          /\ At(d, "new")' <=> At(d, "new")
                          /\ call'[d].at \in Waiting => call'[d].at = call[d].at
  <2>1. CASE Reconfigure
    BY <1>0, <2>1 DEF Reconfigure, At
  <2>2. ASSUME NEW c \in Calls, CallFails(c)
        PROVE  /\ call' \in [Calls -> CallState]
               /\ \A d \in Calls : /\ call'[d].client = call[d].client
                                   /\ At(d, "new")' <=> At(d, "new")
                                   /\ call'[d].at \in Waiting => call'[d].at = call[d].at
    <3>1. At(c, "rejected") /\ Goes(c, "failed")
      BY <2>2 DEF CallFails
    <3>2. "failed" \in {"entered", "spawning", "sending", "rejected"} \cup Waiting \cup Settled
      BY DEF Settled
    <3>3. /\ call' \in [Calls -> CallState]
          /\ \A d \in Calls : /\ call'[d].client = call[d].client
                              /\ call'[d].at = IF d = c THEN "failed" ELSE call[d].at
      BY <1>0, <3>1, <3>2, GoesFacts
    <3> QED
      BY <3>1, <3>3 DEF At, Waiting
  <2>3. Invalidates /\ UNCHANGED <<closing, crashes>>
    BY DEF Reconfigure, CallFails
  <2> QED
    BY <2>1, <2>2, <2>3
<1>2. /\ client' \in [Calls -> Client] /\ clients' \in Calls \cup {None}
      /\ process' \in Life /\ pending' \in [Calls -> SUBSET Calls]
      /\ \A h \in Calls : pending'[h] # pending[h] => clients = h /\ clients' = None
      /\ \A h \in Calls : pending'[h] \subseteq pending[h]
      /\ \A q \in Processes : process'[q] # "none" => process[q] # "none"
      /\ Orphans' \subseteq Orphans
  BY <1>1, InvalidatesFacts
<1>3. TypeOK'
  BY <1>0, <1>1, <1>2, TypeFacts
<1>4. EnteredInv'
  <2>1. CallsGoOn
    BY <1>1, AllStay DEF Inv
  <2>2. RequestsEntered /\ ProcessesEntered
    BY <1>2 DEF RequestsEntered, ProcessesEntered
  <2> QED
    BY <2>1, <2>2, EnteredStays DEF Inv
<1>5. Forgets
  <2> SUFFICES ASSUME NEW c \in Calls, Forgotten(c)', ~Forgotten(c)
               PROVE  clients = Mine(c) /\ clients' = None
    BY DEF Forgets
  <2>1. call[c].at \in Waiting /\ ~At(c, "new") /\ Mine(c)' = Mine(c)
    BY <1>1 DEF Forgotten, At, Mine, Waiting
  <2>2. Mine(c) \in Calls /\ pending'[Mine(c)] # pending[Mine(c)]
    BY <2>1 DEF Inv, EnteredInv, Forgotten, IsPending
  <2> QED
    BY <1>2, <2>2
<1> QED
  BY <1>2, <1>3, <1>4, <1>5 DEF Inv, Leaves

\* close() kills the process of the client in the map, and forgets nothing.
LEMMA CloseStep ==
    ASSUME Inv, Close \/ ClearMap
    PROVE  Inv' /\ Forgets /\ Leaves
<1>0. /\ client \in [Calls -> Client] /\ process \in Life /\ TypeOK
      /\ clients \in Calls \cup {None} /\ UNCHANGED <<pending, call, crashes>>
  BY TypeFacts DEF Inv, Close, ClearMap
<1>1. EnteredInv' /\ Forgets
  <2>1. \A q \in Processes : process'[q] # "none" => process[q] # "none"
    BY <1>0, KillFacts DEF Close, ClearMap, KillOf
  <2>2. CallsGoOn
    BY <1>0, AllStay DEF Inv, At
  <2>3. EnteredInv'
    BY <1>0, <2>1, <2>2, EnteredStays DEF Inv, RequestsEntered, ProcessesEntered
  <2>4. Forgets
    BY <1>0 DEF Forgets, Forgotten, IsPending, Mine
  <2> QED
    BY <2>3, <2>4
<1>2. CASE ClearMap
  <2>1. TypeOK' /\ Leaves
    BY <1>0, <1>2, TypeFacts DEF ClearMap, Leaves
  <2> QED
    BY <1>1, <2>1 DEF Inv
<1>3. CASE Close /\ clients = None
  <2>1. UNCHANGED <<clients, client, process>> /\ closing' \in BOOLEAN
    BY <1>3 DEF Close
  <2>2. TypeOK' /\ Leaves
    BY <1>0, <2>1, TypeFacts, NothingLeft
  <2> QED
    BY <1>1, <2>2 DEF Inv
<1>4. CASE Close /\ clients # None
  <2>1. /\ process' = Kill(client[clients].proc) /\ clients' = clients /\ clients \in Calls
        /\ client' = [client EXCEPT ![clients] =
                        [proc |-> None, started |-> FALSE, restarts |-> 0]]
        /\ closing' \in BOOLEAN
    BY <1>0, <1>4 DEF Close, KillOf
  <2>2. [proc |-> None, started |-> FALSE, restarts |-> 0] \in Client
    BY NumbersAssumption DEF Client
  <2>3. client' \in [Calls -> Client]
    BY <1>0, <2>1, <2>2
  <2>4. process' \in Life
    BY <1>0, <2>1, KillFacts
  <2>5. TypeOK'
    BY <1>0, <2>1, <2>3, <2>4, TypeFacts
  <2>6. \A q \in Processes : Running(q)' => Running(q) /\ q # client[clients].proc
    BY <1>0, <2>1, KillFacts DEF Running
  <2>7. Orphans' \subseteq Orphans
    BY <2>6 DEF Orphans
  <2> QED
    BY <1>1, <2>5, <2>7 DEF Inv, Leaves
<1> QED
  BY <1>2, <1>3, <1>4

\* A process is lost: what its client had pending is rejected, not forgotten.
LEMMA LostStep ==
    ASSUME Inv, NEW p \in Processes, NEW g, ProcessLost(p, g), crashes' \in 0..MaxCrashes,
           g = Mine(p[1]), ~At(p[1], "new"),
           \/ call' = Rejected(g)
           \/ \E c \in Calls : ~At(c, "new") /\ call' = [Rejected(g) EXCEPT ![c].at = "rejected"]
    PROVE  Inv' /\ Forgets /\ Leaves
<1>0. call \in [Calls -> CallState] /\ TypeOK /\ closing \in BOOLEAN
      /\ clients \in Calls \cup {None} /\ p[1] \in Calls /\ g \in Calls
  BY TypeFacts DEF Inv, EnteredInv, Processes
<1>1. /\ process' \in Life /\ pending' \in [Calls -> SUBSET Calls]
      /\ client' \in [Calls -> Client]
      /\ \A q \in Processes : Running(q)' => Running(q) /\ q # p
      /\ \A h \in Calls : client[h].proc # p => client'[h].proc = client[h].proc
      /\ \A h \in Calls : h # g => pending'[h] = pending[h]
      /\ \A h \in Calls : pending'[h] \subseteq pending[h]
      /\ \A q \in Processes : process'[q] # "none" => process[q] # "none" \/ q = p
      /\ UNCHANGED <<clients, closing>>
  BY LostFacts
<1>2. /\ Rejected(g) \in [Calls -> CallState]
      /\ \A d \in Calls :
            /\ Rejected(g)[d].client = call[d].client
            /\ Rejected(g)[d].at = IF d \in pending[g] THEN "rejected" ELSE call[d].at
  BY <1>0, RejectedFacts
<1>3. /\ call' \in [Calls -> CallState]
      /\ \A d \in Calls :
            /\ call'[d].client = call[d].client
            /\ (call'[d].at = call[d].at /\ d \notin pending[g]) \/ call'[d].at = "rejected"
            /\ ~At(d, "new") \/ d \in pending[g] \/ call'[d].at = call[d].at
  <2>1. CASE call' = Rejected(g)
    BY <1>2, <2>1
  <2>2. ASSUME NEW c \in Calls, ~At(c, "new"),
               call' = [Rejected(g) EXCEPT ![c].at = "rejected"]
        PROVE  /\ call' \in [Calls -> CallState]
               /\ \A d \in Calls :
                    /\ call'[d].client = call[d].client
                    /\ (call'[d].at = call[d].at /\ d \notin pending[g]) \/ call'[d].at = "rejected"
                    /\ ~At(d, "new") \/ d \in pending[g] \/ call'[d].at = call[d].at
    <3>1. call' = [Rejected(g) EXCEPT ![c] = [Rejected(g)[c] EXCEPT !.at = "rejected"]]
      BY <2>2
    <3>2. /\ [Rejected(g)[c] EXCEPT !.at = "rejected"] \in CallState
          /\ [Rejected(g)[c] EXCEPT !.at = "rejected"].client = Rejected(g)[c].client
          /\ [Rejected(g)[c] EXCEPT !.at = "rejected"].at = "rejected"
      BY <1>2 DEF CallState
    <3> QED
      BY <1>2, <2>2, <3>1, <3>2
  <2> QED
    BY <2>1, <2>2
<1>4. TypeOK'
  BY <1>0, <1>1, <1>3, TypeFacts
<1>5. Forgets
  <2> SUFFICES ASSUME NEW d \in Calls, Forgotten(d)', ~Forgotten(d) PROVE FALSE
    BY DEF Forgets
  <2>1. /\ call'[d].at \in Waiting /\ call'[d].at # "rejected" /\ Mine(d)' = Mine(d)
    BY <1>3 DEF Forgotten, Mine, Waiting
  <2>2. call[d].at \in Waiting /\ d \notin pending[g] /\ ~At(d, "new")
    BY <1>3, <2>1 DEF At, Waiting
  <2>3. Mine(d) \in Calls /\ d \in pending[Mine(d)]
    BY <2>2 DEF Inv, EnteredInv, Forgotten, IsPending
  <2> QED
    BY <1>1, <2>1, <2>2, <2>3 DEF Forgotten, IsPending
<1>6. EnteredInv'
  <2>1. \A d \in Calls : call'[d].client = call[d].client /\ (At(d, "new")' <=> At(d, "new"))
    <3> SUFFICES ASSUME NEW d \in Calls
                 PROVE  call'[d].client = call[d].client /\ (At(d, "new")' <=> At(d, "new"))
      OBVIOUS
    <3>1. call'[d].at = call[d].at \/ (call'[d].at = "rejected" /\ ~At(d, "new"))
      BY <1>0, <1>3 DEF Inv, EnteredInv
    <3>2. call'[d].client = call[d].client
      BY <1>3
    <3> QED
      BY <3>1, <3>2 DEF At
  <2>2. CallsGoOn
    BY <2>1, AllStay DEF Inv
  <2>3. RequestsEntered
    BY <1>1 DEF RequestsEntered
  <2>4. ProcessesEntered
    BY <1>0, <1>1, <2>1 DEF ProcessesEntered
  <2> QED
    BY <2>2, <2>3, <2>4, EnteredStays DEF Inv
<1>7. Orphans' \subseteq Orphans
  <2> SUFFICES ASSUME NEW q \in Processes, Running(q)', clients # None,
                      client[clients].proc = q
               PROVE  client'[clients].proc = q
    BY <1>1 DEF Orphans
  <2> QED
    BY <1>0, <1>1
<1> QED
  BY <1>4, <1>5, <1>6, <1>7 DEF Inv, Leaves

-----------------------------------------------------------------------------
(* Theorems *)

\* Every step keeps the invariant, forgets only with an invalidation and leaves
\* only after a restart.
LEMMA EachStep ==
    ASSUME Inv, [Next]_vars
    PROVE  Inv' /\ Forgets /\ Leaves
<1>0. /\ TypeOK /\ \A p \in Processes : p[1] \in Calls
      /\ clients \in Calls \cup {None} /\ crashes \in 0..MaxCrashes
  BY DEF Inv, TypeOK, Processes
<1>1. ASSUME NEW c \in Calls,
             \/ EnterNew(c) \/ EnterKnown(c) \/ ClientStep(c)
             \/ Initialized(c) \/ Answered(c)
      PROVE  Inv' /\ Forgets /\ Leaves
  BY <1>1, EnterStep, EnsuresStep, RequestStep, EndStep, InvalidationStep DEF ClientStep
<1>2. ASSUME NEW c \in Calls, SpawnFails(c) PROVE Inv' /\ Forgets /\ Leaves
  <2> DEFINE p == <<c, call[c].place>>
  <2>1. p \in Processes /\ p[1] = c
    BY TypeFacts DEF Inv, Processes, CallState
  <2>2. /\ ProcessLost(p, Mine(c)) /\ ~At(c, "new") /\ crashes' = crashes
        /\ call' = [Rejected(Mine(c)) EXCEPT ![c].at = "rejected"]
    BY <1>2 DEF SpawnFails, At
  <2> HIDE DEF p
  <2> QED
    BY <1>0, <2>1, <2>2, LostStep
<1>3. ASSUME NEW p \in Processes, Exits(p) \/ Crash(p) PROVE Inv' /\ Forgets /\ Leaves
  <2>1. crashes' \in 0..MaxCrashes
    BY <1>0, <1>3, NumbersAssumption DEF Exits, Crash
  <2>2. ProcessLost(p, Mine(p[1])) /\ call' = Rejected(Mine(p[1])) /\ process[p] # "none"
    BY <1>3 DEF Exits, Crash
  <2>3. ~At(p[1], "new")
    BY <2>2 DEF Inv, EnteredInv
  <2> QED
    BY <2>1, <2>2, <2>3, LostStep
<1>4. ASSUME NEW p \in Processes, GoesDeaf(p) PROVE Inv' /\ Forgets /\ Leaves
  <2>1. /\ crashes' \in 0..MaxCrashes
        /\ process' = [process EXCEPT ![p] = "deaf"] /\ process[p] = "live"
        /\ UNCHANGED <<clients, closing, client, pending, call>>
    BY <1>0, <1>4, NumbersAssumption DEF GoesDeaf
  <2>2. process \in Life
    BY TypeFacts DEF Inv
  <2>3. /\ process' \in Life
        /\ \A q \in Processes : /\ Running(q)' => Running(q)
                                /\ process'[q] # "none" => process[q] # "none"
    BY <2>1, <2>2 DEF Life, Running
  <2>4. TypeOK'
    BY <2>1, <2>3, TypeFacts DEF Inv
  <2>5. CallsGoOn
    BY <2>1, AllStay DEF Inv, At
  <2>6. EnteredInv'
    BY <2>1, <2>3, <2>5, EnteredStays DEF Inv, RequestsEntered, ProcessesEntered
  <2>7. Forgets
    BY <2>1 DEF Forgets, Forgotten, IsPending, Mine
  <2>8. Orphans' \subseteq Orphans
    BY <2>1, <2>3 DEF Orphans
  <2> QED
    BY <2>4, <2>6, <2>7, <2>8 DEF Inv, Leaves
<1>5. CASE UNCHANGED vars
  <2>1. UNCHANGED <<clients, closing, client, process, pending, call, crashes>>
    BY <1>5 DEF vars
  <2>2. TypeOK'
    BY <2>1, TypeFacts DEF Inv
  <2>3. CallsGoOn
    BY <2>1, AllStay DEF Inv, At
  <2>4. EnteredInv'
    BY <2>1, <2>3, EnteredStays DEF Inv, RequestsEntered, ProcessesEntered
  <2>5. Forgets
    BY <2>1 DEF Forgets, Forgotten, IsPending, Mine
  <2>6. Leaves
    BY <1>0, <2>1, NothingLeft
  <2> QED
    BY <2>2, <2>4, <2>5, <2>6 DEF Inv
<1> QED
  BY <1>1, <1>2, <1>3, <1>4, <1>5, CloseStep, InvalidationStep DEF Next

\* The initial states satisfy the invariant.
LEMMA InitInv == Init => Inv
<1> SUFFICES ASSUME Init PROVE Inv
  OBVIOUS
<1>1. /\ \A c \in Calls : call[c].at = "new"
      /\ pending = [g \in Calls |-> {}] /\ process = [p \in Processes |-> "none"]
  BY DEF Init
<1>2. /\ client \in [Calls -> Client] /\ call \in [Calls -> CallState] /\ process \in Life
  <2>1. [proc |-> None, started |-> FALSE, restarts |-> 0] \in Client
    BY NumbersAssumption DEF Client
  <2>2. [at |-> "new", client |-> None, place |-> "start"] \in CallState
    BY DEF CallState, Places
  <2> QED
    BY <2>1, <2>2 DEF Init, Life
<1>3. TypeOK
  <2>1. /\ clients \in Calls \cup {None} /\ closing \in BOOLEAN
        /\ pending \in [Calls -> SUBSET Calls] /\ crashes \in 0..MaxCrashes
    <3>1. pending = [g \in Calls |-> {}] /\ {} \in SUBSET Calls
      BY DEF Init
    <3>2. crashes = 0 /\ closing = FALSE /\ clients = None
      BY DEF Init
    <3>3. crashes \in 0..MaxCrashes
      BY <3>2, NumbersAssumption
    <3> QED
      BY <3>1, <3>2, <3>3
  <2> QED
    BY <1>2, <2>1, TypeFacts
<1>4. EnteredInv
  BY <1>1 DEF EnteredInv, At
<1> QED
  BY <1>3, <1>4 DEF Inv

\* The invariant holds throughout.
THEOREM Invariance == Spec => []Inv
<1>1. Inv /\ [Next]_vars => Inv'
  BY EachStep
<1> QED
  BY <1>1, InitInv, PTL DEF Spec

\* Every variable stays in its type.
THEOREM TypeCorrect == Spec => []TypeOK
<1>1. Inv => TypeOK
  BY DEF Inv
<1> QED
  BY <1>1, Invariance, PTL

\* OnlyInvalidationForgets, for any number of calls that overlap: the losses of
\* processes, the timers and the answers leave no call behind.
THEOREM ForgettingTakesInvalidation == Spec => OnlyInvalidationForgets
<1>1. Inv /\ [Next]_vars => Forgets
  BY EachStep
<1>2. Forgets <=> \A c \in Calls :
         Forgotten(c)' /\ ~Forgotten(c) => clients = Mine(c) /\ clients' = None
  BY DEF Forgets
<1> QED
  BY <1>1, <1>2, Invariance, PTL DEF Spec, OnlyInvalidationForgets

\* OnlyRestartsLeaveOrphans, for any number of calls that overlap: failed starts
\* and calls, invalidations and lost processes leave no process behind.
THEOREM OrphansTakeRestarts == Spec => OnlyRestartsLeaveOrphans
<1>1. Inv /\ [Next]_vars => Leaves
  BY EachStep
<1>2. Leaves <=> \/ Orphans' \subseteq Orphans
                 \/ \E g \in Calls : client'[g].restarts > client[g].restarts
                 \/ closing /\ ~closing'
  BY DEF Leaves
<1> QED
  BY <1>1, <1>2, Invariance, PTL DEF Spec, OnlyRestartsLeaveOrphans

=============================================================================
