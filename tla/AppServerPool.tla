--------------------------- MODULE AppServerPool ---------------------------
(***************************************************************************)
(* The pool of Codex App Server children: turns and account requests check *)
(* a child out and release it, while the sweeper retires idle children, an *)
(* administrator closes those of a profile, and the broker shuts down.     *)
(*                                                                         *)
(* A step is one section under the pool's lock. Children are started and   *)
(* closed outside of it, so that a child that has left the pool lives on   *)
(* until the thread that removed it comes to close it.                     *)
(***************************************************************************)
EXTENDS Integers, FiniteSets

CONSTANTS
  Users,      (* threads that check a child out                            *)
  Profiles,   (* auth profiles (principal and profile name)                *)
  Variants,   (* auth fingerprints or MCP secrets that supersede each other *)
  Hosted,     (* the keys of turns with hosted tools, one for each turn    *)
  Children,   (* child processes; one that is forgotten may be used again  *)
  Limit,      (* max_pooled_app_servers; 0: no limit                       *)
  Sweeper, Admin, Main,
  NoChild, NoKey, NoGate

Keys == Profiles \X Variants
Actors == Users \union {Sweeper, Admin, Main}

ASSUME PoolAssumption ==
  /\ Limit \in Nat
  /\ Hosted \subseteq Keys
  /\ IsFiniteSet(Users) /\ IsFiniteSet(Profiles) /\ IsFiniteSet(Variants)
  /\ NoChild \notin Children
  /\ NoKey \notin Keys
  /\ NoGate \notin Users
  /\ {Sweeper, Admin, Main} \intersect Users = {}
  /\ Sweeper # Admin /\ Sweeper # Main /\ Admin # Main

VARIABLES
  clients,   (* _clients                                                   *)
  leases,    (* _leases                                                    *)
  pending,   (* _pending_creations                                         *)
  closed,    (* _closed                                                    *)
  gates,     (* _creation_locks: the gate of each key                      *)
  at,        (* how far a user has come in get() and beyond                *)
  key,       (* the key it asks for                                        *)
  child,     (* the child it starts or holds                               *)
  gate,      (* the creation gate it has joined                            *)
  closing,   (* what a thread has removed from the pool and not yet closed *)
  alive,     (* the children whose process runs                            *)
  strays     (* history: children that failed to start and run all the same *)

pool == <<clients, leases, pending, closed, gates>>
users == <<at, key, child, gate>>
vars == <<pool, users, closing, alive, strays>>

Stages == {"out", "entered", "swept", "retired", "joining", "waiting", "inside", "reserving",
           "spawning", "starting", "leaving", "using", "serving", "served", "ending"}
Creating == {"spawning", "starting"}
InGate == {"inside", "reserving", "spawning", "starting", "leaving"}

(* As many gates as users are enough: a gate lives while a user has joined *)
(* it (PoolCreationGate.users counts them).                                *)
GateIds == Users

-----------------------------------------------------------------------------
Pooled == {clients[k] : k \in Keys} \ {NoChild}
Joined(g) == {u \in Users : gate[u] = g}
Holds(u, c) == child[u] = c /\ at[u] \in {"leaving", "using", "serving", "served"}

(* has_active_contexts, and what may be evicted, retired or swept.         *)
Serving(c) == \E u \in Users : child[u] = c /\ at[u] = "serving"
UnservedOnly(c) == ~Serving(c)
Idle(c) == leases[c] = 0 /\ ~Serving(c)

Evictable == {c \in Pooled : leases[c] = 0 /\ (c \notin alive \/ ~Serving(c))}

(* The children S leave the pool; the thread a has yet to close them.      *)
RemoveUnclosed(a, S) ==
  /\ clients' = [k \in Keys |-> IF clients[k] \in S THEN NoChild ELSE clients[k]]
  /\ leases' = [c \in Children |-> IF c \in S THEN 0 ELSE leases[c]]
  /\ UNCHANGED closing

Remove(a, S) ==
  /\ clients' = [k \in Keys |-> IF clients[k] \in S THEN NoChild ELSE clients[k]]
  /\ leases' = [c \in Children |-> IF c \in S THEN 0 ELSE leases[c]]
  /\ closing' = [closing EXCEPT ![a] = @ \union S]

Move(u, from, to) ==
  /\ at[u] = from
  /\ closing[u] = {}
  /\ at' = [at EXCEPT ![u] = to]

Init ==
  /\ clients = [k \in Keys |-> NoChild]
  /\ leases = [c \in Children |-> 0]
  /\ pending = 0
  /\ closed = FALSE
  /\ gates = [k \in Keys |-> NoGate]
  /\ at = [u \in Users |-> "out"]
  /\ key = [u \in Users |-> NoKey]
  /\ child = [u \in Users |-> NoChild]
  /\ gate = [u \in Users |-> NoGate]
  /\ closing = [a \in Actors |-> {}]
  /\ alive = {}
  /\ strays = {}

-----------------------------------------------------------------------------
(* AppServerClient.close, by the thread that removed the child.            *)
Close(a) ==
  \E c \in closing[a] :
    /\ closing' = [closing EXCEPT ![a] = @ \ {c}]
    /\ alive' = alive \ {c}
    /\ UNCHANGED <<pool, users, strays>>

(* The child exits, or a request to it has timed out and closed it.        *)
Dies(c) ==
  /\ alive' = alive \ {c}
  /\ c \in alive
  /\ strays' = strays \ {c}
  /\ UNCHANGED <<pool, users, closing>>

-----------------------------------------------------------------------------
(* get(), with a lease.                                                    *)

Request(u, k) ==
  /\ ~closed
  /\ k \in Hosted => \A v \in Users : key[v] # k
  /\ Move(u, "out", "entered")
  /\ key' = [key EXCEPT ![u] = k]
  /\ UNCHANGED <<pool, child, gate, closing, alive, strays>>

(* _sweep: the dead, and those idle for longer than the TTL.               *)
Sweep(a) ==
  \E expired \in SUBSET {c \in Pooled : Idle(c)} :
    /\ Remove(a, expired \union (Pooled \ alive))
    /\ UNCHANGED <<pending, closed, gates, key, child, gate, alive, strays>>

SweepFirst(u) ==
  /\ Move(u, "entered", "swept")
  /\ Sweep(u)

(* _close_idle_stale_auth and _close_idle_stale_mcp_secret_variant.        *)
Superseded(k) == {c \in Pooled : \E v \in Variants \ {k[2]} : clients[<<k[1], v>>] = c}

Retire(u) ==
  /\ Move(u, "swept", "retired")
  /\ Remove(u, {c \in Superseded(key[u]) : Idle(c)})
  /\ UNCHANGED <<pending, closed, gates, key, child, gate, alive, strays>>

(* A living child of that key is leased under the same lock.               *)
Lease(c) == [leases EXCEPT ![c] = @ + 1]

TakePooled(u, from, to) ==
  /\ Move(u, from, to)
  /\ clients[key[u]] \in alive
  /\ leases' = Lease(clients[key[u]])
  /\ child' = [child EXCEPT ![u] = clients[key[u]]]
  /\ UNCHANGED <<clients, pending, closed, gates, key, gate, closing, alive, strays>>

Find(u) == TakePooled(u, "retired", "using")

Miss(u) ==
  /\ Move(u, "retired", "joining")
  /\ clients[key[u]] \notin alive
  /\ UNCHANGED <<pool, key, child, gate, closing, alive, strays>>

(* _creation_gate: join the gate of the key or set a new one up, ...       *)
JoinGate(u) ==
  /\ Move(u, "joining", "waiting")
  /\ \E g \in GateIds :
       /\ IF gates[key[u]] = NoGate THEN Joined(g) = {} ELSE g = gates[key[u]]
       /\ gates' = [gates EXCEPT ![key[u]] = g]
       /\ gate' = [gate EXCEPT ![u] = g]
  /\ UNCHANGED <<clients, leases, pending, closed, key, child, closing, alive, strays>>

EnterGate(u) ==
  /\ Move(u, "waiting", "inside")
  /\ \A v \in Joined(gate[u]) : at[v] \notin InGate
  /\ UNCHANGED <<pool, key, child, gate, closing, alive, strays>>

(* ... and leave it; the last to leave takes it down.                      *)
LeavesNobody(u) == TRUE
LeavesLast(u) == Joined(gate[u]) = {u}

LeaveGate(u) ==
  /\ at[u] = "leaving"
  /\ closing[u] = {}
  /\ at' = [at EXCEPT ![u] = IF child[u] = NoChild THEN "out" ELSE "using"]
  /\ key' = [key EXCEPT ![u] = IF child[u] = NoChild THEN NoKey ELSE @]
  /\ gate' = [gate EXCEPT ![u] = NoGate]
  /\ gates' = IF LeavesLast(u) /\ gates[key[u]] = gate[u]
                THEN [gates EXCEPT ![key[u]] = NoGate]
                ELSE gates
  /\ UNCHANGED <<clients, leases, pending, closed, child, closing, alive, strays>>

(* A second look under the gate; a dead child is taken out and closed.     *)
FindAgain(u) == TakePooled(u, "inside", "leaving")

MissAgain(u) ==
  /\ Move(u, "inside", "reserving")
  /\ clients[key[u]] \notin alive
  /\ Remove(u, {clients[key[u]]} \ {NoChild})
  /\ UNCHANGED <<pending, closed, gates, key, child, gate, alive, strays>>

(* _reserve_child_slot: evict idle children until a slot is free. (It      *)
(* takes the least recently used first; any may be that.)                  *)
PooledOnly == Cardinality(Pooled)
SlotsUsed == Cardinality(Pooled) + pending
Excess == IF Limit = 0 \/ SlotsUsed < Limit THEN 0 ELSE SlotsUsed - Limit + 1

Reserve(u) ==
  /\ Move(u, "reserving", "spawning")
  /\ \E S \in SUBSET Evictable :
       /\ Cardinality(S) = Excess
       /\ Remove(u, S)
  /\ pending' = IF Limit = 0 THEN 0 ELSE pending + 1
  /\ UNCHANGED <<closed, gates, key, child, gate, alive, strays>>

(* Nothing more to evict: get() raises, and has evicted in vain.           *)
Exhausted(u) ==
  /\ Move(u, "reserving", "leaving")
  /\ Cardinality(Evictable) < Excess
  /\ clients' = [k \in Keys |-> IF clients[k] \in Evictable THEN NoChild ELSE clients[k]]
  /\ UNCHANGED <<leases, pending, closed, gates, key, child, gate, closing, alive, strays>>

(* The evicted are closed before the process is started.                   *)
Spawn(u) ==
  /\ Move(u, "spawning", "starting")
  /\ \E c \in Children \ (alive \union Pooled \union {child[v] : v \in Users}
                            \union UNION {closing[a] : a \in Actors}) :
       /\ child' = [child EXCEPT ![u] = c]
       /\ alive' = alive \union {c}
  /\ UNCHANGED <<pool, key, gate, closing, strays>>

SlotGivenBack == IF Limit = 0 THEN 0 ELSE pending - 1

(* What is left of a child whose constructor raises: nothing, if Popen has *)
(* failed or initialize() has timed out, which closes it; a process that   *)
(* nobody knows, if the reply to initialize() was an error.                *)
LeftBehind(c) ==
  \/ /\ alive' = alive \ {c}
     /\ UNCHANGED strays
  \/ /\ strays' = strays \union ({c} \intersect alive)
     /\ UNCHANGED alive

StartFails(u) ==
  /\ at[u] \in Creating
  /\ closing[u] = {}
  /\ at' = [at EXCEPT ![u] = "leaving"]
  /\ child' = [child EXCEPT ![u] = NoChild]
  /\ pending' = SlotGivenBack
  /\ LeftBehind(child[u])
  /\ UNCHANGED <<clients, leases, closed, gates, key, gate, closing>>

(* The child is pooled, unless the pool has been closed meanwhile.         *)
ClosedUnnoticed == FALSE
ClosedDuringStart == closed

Publish(u) ==
  /\ Move(u, "starting", "leaving")
  /\ pending' = IF Limit = 0 THEN 0 ELSE pending - 1
  /\ IF ClosedDuringStart
       THEN /\ closing' = [closing EXCEPT ![u] = {child[u]}]
            /\ child' = [child EXCEPT ![u] = NoChild]
            /\ UNCHANGED <<clients, leases>>
       ELSE /\ clients' = [clients EXCEPT ![key[u]] = child[u]]
            /\ leases' = Lease(child[u])
            /\ UNCHANGED <<closing, child>>
  /\ UNCHANGED <<closed, gates, key, gate, alive, strays>>

-----------------------------------------------------------------------------
(* The use of a child: a turn registers its context, an account request    *)
(* only sends requests; both release the child.                            *)

Register(u) ==
  /\ Move(u, "using", "serving")
  /\ UNCHANGED <<pool, key, child, gate, closing, alive, strays>>

Unregister(u) ==
  /\ Move(u, "serving", "served")
  /\ UNCHANGED <<pool, key, child, gate, closing, alive, strays>>

ReleasedAtOnce(c) == [leases EXCEPT ![c] = 0]
ReleasedUnclamped(c) == [leases EXCEPT ![c] = @ - 1]
Released(c) == [leases EXCEPT ![c] = IF @ <= 1 THEN 0 ELSE @ - 1]

Release(u) ==
  /\ at[u] \in {"using", "served"}
  /\ leases' = Released(child[u])
  /\ IF at[u] = "served" /\ key[u] \in Hosted
       THEN /\ at' = [at EXCEPT ![u] = "ending"]
            /\ UNCHANGED <<key, child>>
       ELSE /\ at' = [at EXCEPT ![u] = "out"]
            /\ key' = [key EXCEPT ![u] = NoKey]
            /\ child' = [child EXCEPT ![u] = NoChild]
  /\ UNCHANGED <<clients, pending, closed, gates, gate, closing, alive, strays>>

(* close_client: the child of a turn with hosted tools ends with the turn. *)
CloseClient(u) ==
  /\ Move(u, "ending", "out")
  /\ Remove(u, {child[u]})
  /\ key' = [key EXCEPT ![u] = NoKey]
  /\ child' = [child EXCEPT ![u] = NoChild]
  /\ UNCHANGED <<pending, closed, gates, gate, alive, strays>>

-----------------------------------------------------------------------------
SweepLater ==
  /\ closing[Sweeper] = {}
  /\ Sweep(Sweeper)
  /\ UNCHANGED at

(* close_profile: a login, a logout or a failure of authentication.        *)
CloseProfile(p) ==
  /\ closing[Admin] = {}
  /\ Remove(Admin, {clients[<<p, v>>] : v \in Variants} \ {NoChild})
  /\ UNCHANGED <<pending, closed, gates, users, alive, strays>>

CloseAll ==
  /\ ~closed
  /\ closed' = TRUE
  /\ Remove(Main, Pooled)
  /\ UNCHANGED <<pending, gates, users, alive, strays>>

-----------------------------------------------------------------------------
Get(u) ==
  \/ SweepFirst(u)
  \/ Retire(u)
  \/ Find(u)
  \/ Miss(u)
  \/ JoinGate(u)
  \/ EnterGate(u)
  \/ FindAgain(u)
  \/ MissAgain(u)
  \/ Reserve(u)
  \/ Exhausted(u)
  \/ Spawn(u)
  \/ StartFails(u)
  \/ Publish(u)
  \/ LeaveGate(u)

Use(u) ==
  \/ Register(u)
  \/ Unregister(u)
  \/ Release(u)
  \/ CloseClient(u)

Next ==
  \/ \E u \in Users : (\E k \in Keys : Request(u, k)) \/ Get(u) \/ Use(u)
  \/ \E a \in Actors : Close(a)
  \/ \E c \in Children : Dies(c)
  \/ SweepLater
  \/ \E p \in Profiles : CloseProfile(p)
  \/ CloseAll

Spec == Init /\ [][Next]_vars

-----------------------------------------------------------------------------
(* Properties.                                                             *)

TypeOK ==
  /\ clients \in [Keys -> Children \union {NoChild}]
  /\ leases \in [Children -> Nat]
  /\ pending \in Nat
  /\ closed \in BOOLEAN
  /\ gates \in [Keys -> GateIds \union {NoGate}]
  /\ at \in [Users -> Stages]
  /\ key \in [Users -> Keys \union {NoKey}]
  /\ child \in [Users -> Children \union {NoChild}]
  /\ gate \in [Users -> GateIds \union {NoGate}]
  /\ closing \in [Actors -> SUBSET Children]
  /\ alive \subseteq Children
  /\ strays \subseteq Children

(* README, "an optional pooled App Server child cap": the children in the  *)
(* pool and those being started for it stay within the limit, whoever      *)
(* fails, evicts or closes meanwhile.                                      *)
WithinLimit == Limit # 0 => Cardinality(Pooled) + pending <= Limit

(* A reserved slot is given back exactly once, by success and by failure.  *)
SlotsExact == pending = IF Limit = 0 THEN 0 ELSE Cardinality({u \in Users : at[u] \in Creating})

(* Every child that runs is in the pool or has a thread that is starting   *)
(* or about to close it: none is overwritten or forgotten. (A child whose  *)
(* initialization was refused is: see strays.)                             *)
NoOrphan ==
  \A c \in alive \ strays :
    \/ c \in Pooled
    \/ \E a \in Actors : c \in closing[a]
    \/ \E u \in Users : child[u] = c /\ at[u] \in {"starting", "ending"}

(* _leases counts the users that hold a pooled child: one too many and the *)
(* child is never evicted, one too few and it is taken from a turn.        *)
LeasesExact ==
  \A c \in Children :
    leases[c] = IF c \in Pooled THEN Cardinality({u \in Users : Holds(u, c)}) ELSE 0

(* checkout, "hold it against idle-pool eviction": a living child in use   *)
(* is taken out only by an administrator or the shutdown.                  *)
HeldIsKept ==
  [][\A c \in Pooled \intersect alive : \A u \in Users :
       Holds(u, c) /\ c \notin Pooled' => c \in closing'[Admin] \union closing'[Main]]_vars

(* One child of a key is started at a time.                                *)
OneCreationPerKey ==
  \A u, v \in Users : at[u] \in InGate /\ at[v] \in InGate /\ key[u] = key[v] => u = v

(* A pool that has been closed stays empty, also when a child was being    *)
(* started at the time.                                                    *)
ClosedStaysEmpty == closed => Pooled = {}
=============================================================================
