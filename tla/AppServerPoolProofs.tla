------------------------ MODULE AppServerPoolProofs ------------------------
(***************************************************************************)
(* Proofs about the App Server pool, for any numbers of users, keys,       *)
(* children and slots: its creation gates exclude, a pool that has been    *)
(* closed stays empty whatever was being started at the time, its children *)
(* stay within the limit and none is lost, and its leases are those of the *)
(* users that hold a child, so that no child in use is taken from them.    *)
(***************************************************************************)
EXTENDS AppServerPool, FiniteSetTheorems, TLAPS

(* The types of what the creation gates are made of.                       *)
GateTypes ==
  /\ gates \in [Keys -> GateIds \union {NoGate}]
  /\ at \in [Users -> Stages]
  /\ key \in [Users -> Keys \union {NoKey}]
  /\ gate \in [Users -> GateIds \union {NoGate}]

InGet(u) == at[u] \in {"entered", "swept", "retired", "joining", "waiting"} \union InGate

(* A user that has joined a gate finds it in the table under its key, and  *)
(* whoever waits at or is inside a gate has joined one.                    *)
JoinedIsListed ==
  \A u \in Users :
    /\ InGet(u) => key[u] \in Keys
    /\ gate[u] # NoGate <=> at[u] \in {"waiting"} \union InGate
    /\ gate[u] # NoGate => gates[key[u]] = gate[u]

Exclusion ==
  \A u, v \in Users :
    at[u] \in InGate /\ at[v] \in InGate /\ gate[u] = gate[v] => u = v

GateInv == GateTypes /\ JoinedIsListed /\ Exclusion

LEMMA GateInit == Init => GateInv
  BY PoolAssumption DEF Init, GateInv, GateTypes, JoinedIsListed, Exclusion, InGet, InGate, Stages,
     GateIds

(* The two invariants together exclude two creations of one key.           *)
LEMMA GateExcludes == GateInv => OneCreationPerKey
  BY DEF GateInv, GateTypes, JoinedIsListed, Exclusion, OneCreationPerKey, InGate, InGet, Stages

(* Moving on within a phase of get(), without touching the gates.          *)
LEMMA Moves ==
  ASSUME GateInv, NEW u \in Users, NEW from, NEW to \in Stages,
         Move(u, from, to), UNCHANGED <<gates, key, gate>>,
         \/ from \in {"waiting"} \union InGate /\ to \in {"waiting"} \union InGate
         \/ from \notin {"waiting"} \union InGate /\ to \notin {"waiting"} \union InGate,
         to \in InGate => \A v \in Users \ {u} : gate[v] = gate[u] => at[v] \notin InGate,
         to \in {"entered", "swept", "retired", "joining", "waiting"} \union InGate => key[u] \in Keys
  PROVE  GateInv'
<1>1. at' = [at EXCEPT ![u] = to] /\ at[u] = from
  BY DEF Move
<1>2. GateTypes'
  BY <1>1 DEF GateInv, GateTypes
<1>3. JoinedIsListed'
  BY <1>1 DEF GateInv, GateTypes, JoinedIsListed, InGet
<1>4. Exclusion'
  BY <1>1 DEF GateInv, GateTypes, Exclusion
<1> QED
  BY <1>2, <1>3, <1>4 DEF GateInv

(* Every step preserves the gate protocol.                                 *)
LEMMA GateStep == ASSUME GateInv, [Next]_vars PROVE GateInv'
<1>u. CASE UNCHANGED <<gates, at, key, gate>>
  BY <1>u DEF GateInv, GateTypes, JoinedIsListed, Exclusion, InGet
<1>k. ASSUME NEW u \in Users, InGet(u) PROVE key[u] \in Keys
  BY <1>k DEF GateInv, JoinedIsListed
<1>1. ASSUME NEW u \in Users, NEW k \in Keys, Request(u, k) PROVE GateInv'
  <2>1. at' = [at EXCEPT ![u] = "entered"] /\ key' = [key EXCEPT ![u] = k] /\ at[u] = "out"
        /\ UNCHANGED <<gates, gate>>
    BY <1>1 DEF Request, Move, pool
  <2> QED
    BY <2>1 DEF GateInv, GateTypes, JoinedIsListed, Exclusion, InGet, InGate, Stages
<1>2. ASSUME NEW u \in Users, Get(u) PROVE GateInv'
  <2>1. CASE SweepFirst(u)
    <3>1. Move(u, "entered", "swept") /\ UNCHANGED <<gates, key, gate>>
      BY <2>1 DEF SweepFirst, Sweep
    <3> QED
      BY <3>1, <1>k, Moves DEF Move, InGate, InGet, Stages
  <2>2. CASE Retire(u)
    BY <2>2, <1>k, Moves DEF Retire, Move, InGate, InGet, Stages
  <2>3. CASE Find(u)
    BY <2>3, Moves DEF Find, TakePooled, Move, InGate, InGet, Stages
  <2>4. CASE Miss(u)
    BY <2>4, <1>k, Moves DEF Miss, Move, InGate, InGet, Stages, pool
  <2>5. CASE JoinGate(u)
    <3>1. PICK g \in GateIds :
            /\ IF gates[key[u]] = NoGate THEN Joined(g) = {} ELSE g = gates[key[u]]
            /\ gates' = [gates EXCEPT ![key[u]] = g]
            /\ gate' = [gate EXCEPT ![u] = g]
      BY <2>5 DEF JoinGate
    <3>2. at[u] = "joining" /\ at' = [at EXCEPT ![u] = "waiting"] /\ UNCHANGED key
      BY <2>5 DEF JoinGate, Move
    <3>3. key[u] \in Keys /\ gate[u] = NoGate /\ g # NoGate
      BY <3>2, <1>k, PoolAssumption DEF InGet, GateInv, JoinedIsListed, InGate, GateIds
    <3>4. GateTypes'
      BY <3>1, <3>2, <3>3 DEF GateInv, GateTypes, Stages
    <3>5. JoinedIsListed'
      BY <3>1, <3>2, <3>3 DEF GateInv, GateTypes, JoinedIsListed, InGet, InGate
    <3>6. Exclusion'
      BY <3>1, <3>2 DEF GateInv, GateTypes, Exclusion, InGate
    <3> QED
      BY <3>4, <3>5, <3>6 DEF GateInv
  <2>6. CASE EnterGate(u)
    <3>1. \A v \in Users \ {u} : gate[v] = gate[u] => at[v] \notin InGate
      BY <2>6 DEF EnterGate, Joined
    <3> QED
      BY <2>6, <3>1, <1>k, Moves DEF EnterGate, Move, InGate, InGet, Stages, pool
  <2>i. ASSUME at[u] \in InGate
        PROVE  \A v \in Users \ {u} : gate[v] = gate[u] => at[v] \notin InGate
    BY <2>i DEF GateInv, Exclusion
  <2>7. CASE FindAgain(u)
    BY <2>7, <2>i, <1>k, Moves DEF FindAgain, TakePooled, Move, InGate, InGet, Stages
  <2>8. CASE MissAgain(u)
    BY <2>8, <2>i, <1>k, Moves DEF MissAgain, Move, InGate, InGet, Stages
  <2>9. CASE Reserve(u)
    BY <2>9, <2>i, <1>k, Moves DEF Reserve, Move, InGate, InGet, Stages
  <2>10. CASE Exhausted(u)
    BY <2>10, <2>i, <1>k, Moves DEF Exhausted, Move, InGate, InGet, Stages
  <2>11. CASE Spawn(u)
    BY <2>11, <2>i, <1>k, Moves DEF Spawn, Move, InGate, InGet, Stages, pool
  <2>12. CASE StartFails(u)
    <3>1. Move(u, at[u], "leaving") /\ at[u] \in Creating /\ UNCHANGED <<gates, key, gate>>
      BY <2>12 DEF StartFails, LeftBehind, Move
    <3> QED
      BY <3>1, <2>i, <1>k, Moves DEF Creating, InGate, InGet, Stages
  <2>13. CASE Publish(u)
    BY <2>13, <2>i, <1>k, Moves DEF Publish, Move, InGate, InGet, Stages
  <2>14. CASE LeaveGate(u)
    <3>1. at[u] = "leaving" /\ gate' = [gate EXCEPT ![u] = NoGate]
      BY <2>14 DEF LeaveGate
    <3>2. /\ at' = [at EXCEPT ![u] = IF child[u] = NoChild THEN "out" ELSE "using"]
          /\ key' = [key EXCEPT ![u] = IF child[u] = NoChild THEN NoKey ELSE @]
      BY <2>14 DEF LeaveGate
    <3>3. \/ UNCHANGED gates
          \/ Joined(gate[u]) = {u} /\ gates' = [gates EXCEPT ![key[u]] = NoGate]
      BY <2>14 DEF LeaveGate, LeavesLast
    <3>4. key[u] \in Keys /\ gate[u] # NoGate /\ gates[key[u]] = gate[u]
      BY <3>1, <1>k DEF GateInv, JoinedIsListed, InGet, InGate
    <3>5. GateTypes'
      BY <3>1, <3>2, <3>3 DEF GateInv, GateTypes, Stages
    <3>6. ASSUME NEW v \in Users, v # u, gate[v] # NoGate PROVE gates'[key[v]] = gate[v]
      <4>1. key[v] \in Keys /\ gates[key[v]] = gate[v]
        BY <3>6, <1>k DEF GateInv, JoinedIsListed, InGet
      <4>2. key[v] = key[u] => v \in Joined(gate[u])
        BY <4>1, <3>4 DEF Joined
      <4> QED
        BY <4>1, <4>2, <3>6, <3>3 DEF GateInv, GateTypes
    <3>7. JoinedIsListed'
      BY <3>1, <3>2, <3>6 DEF GateInv, GateTypes, JoinedIsListed, InGet, InGate
    <3>8. Exclusion'
      BY <3>1, <3>2 DEF GateInv, GateTypes, Exclusion, InGate
    <3> QED
      BY <3>5, <3>7, <3>8 DEF GateInv
  <2> QED
    BY <1>2, <2>1, <2>2, <2>3, <2>4, <2>5, <2>6, <2>7, <2>8, <2>9, <2>10, <2>11, <2>12, <2>13, <2>14
    DEF Get
<1>3. ASSUME NEW u \in Users, Use(u) PROVE GateInv'
  <2>1. CASE Register(u)
    BY <2>1, Moves DEF Register, Move, InGate, Stages, pool
  <2>2. CASE Unregister(u)
    BY <2>2, Moves DEF Unregister, Move, InGate, Stages, pool
  <2>3. CASE Release(u) \/ CloseClient(u)
    <3>1. /\ at[u] \in {"using", "served", "ending"}
          /\ UNCHANGED <<gates, gate>>
          /\ \/ at' = [at EXCEPT ![u] = "ending"] /\ UNCHANGED key
             \/ at' = [at EXCEPT ![u] = "out"] /\ key' = [key EXCEPT ![u] = NoKey]
      BY <2>3 DEF Release, CloseClient, Move
    <3> QED
      BY <3>1 DEF GateInv, GateTypes, JoinedIsListed, Exclusion, InGet, InGate, Stages
  <2> QED
    BY <1>3, <2>1, <2>2, <2>3 DEF Use
<1>4. CASE SweepLater
  BY <1>4, <1>u DEF SweepLater, Sweep
<1>5. CASE \E a \in Actors : Close(a)
  BY <1>5, <1>u DEF Close, pool, users
<1>6. CASE \E c \in Children : Dies(c)
  BY <1>6, <1>u DEF Dies, pool, users
<1>7. CASE \E p \in Profiles : CloseProfile(p)
  BY <1>7, <1>u DEF CloseProfile, users
<1>8. CASE CloseAll
  BY <1>8, <1>u DEF CloseAll, users
<1>9. CASE UNCHANGED vars
  BY <1>9, <1>u DEF vars, pool, users
<1> QED
  BY <1>1, <1>2, <1>3, <1>4, <1>5, <1>6, <1>7, <1>8, <1>9 DEF Next

(* app_server.py, _creation_gate: however users come, wait, fail and leave *)
(* at the gates, which are set up and taken down on demand, one child of a *)
(* key is started at a time.                                               *)
THEOREM OneCreation == Spec => []OneCreationPerKey
<1>1. Init => GateInv
  BY GateInit
<1>2. GateInv /\ [Next]_vars => GateInv'
  BY GateStep
<1> QED
  BY <1>1, <1>2, GateExcludes, PTL DEF Spec

-----------------------------------------------------------------------------
(* close_all and get(): a child that was being started when the pool was   *)
(* closed is not pooled any more, and nothing else fills a closed pool.    *)
LEMMA Removed == ASSUME NEW a, NEW S, Remove(a, S), Pooled = {} PROVE Pooled' = {}
  BY DEF Remove, Pooled

LEMMA ClosedStep == ClosedStaysEmpty /\ [Next]_vars => ClosedStaysEmpty'
<1> SUFFICES ASSUME closed => Pooled = {}, [Next]_vars, closed'
             PROVE  Pooled' = {}
  BY DEF ClosedStaysEmpty
<1>1. CASE closed
  <2>p. Pooled = {}
    BY <1>1
  <2>s. UNCHANGED clients => Pooled' = {}
    BY <2>p DEF Pooled
  <2>1. ASSUME NEW u \in Users, Get(u) PROVE Pooled' = {}
    <3>1. CASE SweepFirst(u)
      BY <3>1, <2>p, Removed DEF SweepFirst, Sweep
    <3>2. CASE Retire(u) \/ MissAgain(u) \/ Reserve(u)
      BY <3>2, <2>p, Removed DEF Retire, MissAgain, Reserve
    <3>3. CASE Exhausted(u)
      BY <3>3, <2>p DEF Exhausted, Pooled
    <3>4. CASE Publish(u)
      BY <3>4, <1>1, <2>s DEF Publish, ClosedDuringStart
    <3>5. CASE Find(u) \/ Miss(u) \/ JoinGate(u) \/ EnterGate(u) \/ FindAgain(u) \/ Spawn(u)
                 \/ StartFails(u) \/ LeaveGate(u)
      BY <3>5, <2>s DEF Find, Miss, JoinGate, EnterGate, FindAgain, Spawn, StartFails, LeftBehind, LeaveGate,
         TakePooled, pool
    <3> QED
      BY <2>1, <3>1, <3>2, <3>3, <3>4, <3>5 DEF Get
  <2>2. ASSUME NEW u \in Users, Use(u) PROVE Pooled' = {}
    <3>1. CASE CloseClient(u)
      BY <3>1, <2>p, Removed DEF CloseClient
    <3> QED
      BY <2>2, <3>1, <2>s DEF Use, Register, Unregister, Release, pool
  <2>3. CASE SweepLater
    BY <2>3, <2>p, Removed DEF SweepLater, Sweep
  <2>4. CASE \E p \in Profiles : CloseProfile(p)
    BY <2>4, <2>p, Removed DEF CloseProfile
  <2>5. CASE \/ \E u \in Users, k \in Keys : Request(u, k)
             \/ \E a \in Actors : Close(a)
             \/ \E c \in Children : Dies(c)
             \/ UNCHANGED vars
    BY <2>5, <2>s DEF Request, Close, Dies, vars, pool
  <2>6. ~CloseAll
    BY <1>1 DEF CloseAll
  <2> QED
    BY <2>1, <2>2, <2>3, <2>4, <2>5, <2>6 DEF Next
<1>2. CASE ~closed
  <2>1. CloseAll
    BY <1>2 DEF Next, Request, Get, Use, SweepFirst, Retire, Find, Miss, JoinGate, EnterGate,
       FindAgain, MissAgain, Reserve, Exhausted, Spawn, StartFails, LeftBehind, Publish, LeaveGate, Register,
       Unregister, Release, CloseClient, Close, Dies, SweepLater, Sweep, CloseProfile, TakePooled,
       vars, pool
  <2> QED
    BY <2>1 DEF CloseAll, Remove, Pooled
<1> QED
  BY <1>1, <1>2

(* A broker that has closed its pool owns no pooled child ever after.      *)
THEOREM ClosedPool == Spec => []ClosedStaysEmpty
<1>1. Init => ClosedStaysEmpty
  BY DEF Init, ClosedStaysEmpty
<1> QED
  BY <1>1, ClosedStep, PTL DEF Spec

-----------------------------------------------------------------------------
(* The slots reserved for children that are being started.                 *)
Starters == {u \in Users : at[u] \in Creating}

LEMMA FinitePool ==
  ASSUME clients \in [Keys -> Children \union {NoChild}]
  PROVE  IsFiniteSet(Pooled) /\ Cardinality(Pooled) \in Nat
<1> DEFINE R == {clients[k] : k \in Keys}
<1>1. IsFiniteSet(Keys)
  BY FS_Product, PoolAssumption DEF Keys
<1>2. clients \in Surjection(Keys, R)
  BY DEF Surjection
<1>3. IsFiniteSet(R)
  BY <1>1, <1>2, FS_Surjection
<1>4. IsFiniteSet(Pooled)
  BY <1>3, FS_RemoveElement DEF Pooled
<1> QED
  BY <1>4, FS_CardinalityType

LEMMA FiniteStarters ==
  IsFiniteSet(Starters) /\ Cardinality(Starters) \in Nat
  BY FS_Subset, FS_CardinalityType, PoolAssumption DEF Starters

LEMMA OneMoreOrLess ==
  ASSUME NEW S, IsFiniteSet(S), NEW x
  PROVE  /\ x \notin S => Cardinality(S \union {x}) = Cardinality(S) + 1
         /\ x \in S => Cardinality(S \ {x}) = Cardinality(S) - 1
<1>1. x \notin S => Cardinality(S \union {x}) = Cardinality(S) + 1
  BY FS_AddElement
<1>2. x \in S => Cardinality(S \ {x}) = Cardinality(S) - 1
  BY FS_RemoveElement
<1> QED
  BY <1>1, <1>2

LEMMA SlotsStep ==
  ASSUME GateTypes, SlotsExact, Next PROVE SlotsExact'
<1>f. IsFiniteSet(Starters)
  BY FiniteStarters
<1>e. SlotsExact <=> pending = IF Limit = 0 THEN 0 ELSE Cardinality(Starters)
  BY DEF SlotsExact, Starters
<1>e1. SlotsExact' <=> pending' = IF Limit = 0 THEN 0 ELSE Cardinality(Starters')
  BY DEF SlotsExact, Starters
<1>s. UNCHANGED pending /\ Starters' = Starters => SlotsExact'
  BY <1>e, <1>e1
<1>u. UNCHANGED <<pending, at>> => SlotsExact'
  BY <1>s DEF Starters
<1>m. ASSUME NEW u \in Users, NEW from, NEW to, Move(u, from, to)
      PROVE  /\ from \notin Creating /\ to \notin Creating => Starters' = Starters
             /\ from \in Creating /\ to \in Creating => Starters' = Starters
             /\ from \notin Creating /\ to \in Creating =>
                  u \notin Starters /\ Starters' = Starters \union {u}
             /\ from \in Creating /\ to \notin Creating =>
                  u \in Starters /\ Starters' = Starters \ {u}
  BY <1>m DEF Move, GateTypes, Starters
<1>1. ASSUME NEW u \in Users, Get(u) PROVE SlotsExact'
  <2>1. CASE SweepFirst(u)
    BY <2>1, <1>m, <1>s DEF SweepFirst, Sweep, Creating
  <2>2. CASE Retire(u) \/ Find(u) \/ Miss(u) \/ JoinGate(u) \/ EnterGate(u) \/ FindAgain(u)
             \/ MissAgain(u) \/ Exhausted(u)
    <3>1. PICK from \in Stages, to \in Stages :
            from \notin Creating /\ to \notin Creating /\ Move(u, from, to)
      BY <2>2 DEF Retire, Find, Miss, JoinGate, EnterGate, FindAgain, MissAgain, Exhausted,
         TakePooled, Stages, Creating
    <3>2. UNCHANGED pending
      BY <2>2 DEF Retire, Find, Miss, JoinGate, EnterGate, FindAgain, MissAgain, Exhausted,
         TakePooled, pool
    <3> QED
      BY <3>1, <3>2, <1>m, <1>s
  <2>3. CASE Reserve(u)
    <3>1. u \notin Starters /\ Starters' = Starters \union {u}
      BY <2>3, <1>m DEF Reserve, Creating
    <3>2. Cardinality(Starters') = Cardinality(Starters) + 1
      BY <3>1, <1>f, OneMoreOrLess
    <3> QED
      BY <2>3, <3>2, <1>e, <1>e1 DEF Reserve
  <2>4. CASE Spawn(u)
    BY <2>4, <1>m, <1>s DEF Spawn, Creating, pool
  <2>5. CASE StartFails(u) \/ Publish(u)
    <3>1. Move(u, at[u], "leaving") /\ at[u] \in Creating
      BY <2>5 DEF StartFails, LeftBehind, Publish, Move, Creating
    <3>2. u \in Starters /\ Starters' = Starters \ {u}
      BY <3>1, <1>m DEF Creating
    <3>3. Cardinality(Starters') = Cardinality(Starters) - 1
      BY <3>2, <1>f, OneMoreOrLess
    <3>4. pending' = IF Limit = 0 THEN 0 ELSE pending - 1
      BY <2>5 DEF StartFails, LeftBehind, Publish, SlotGivenBack
    <3> QED
      BY <3>3, <3>4, <1>e, <1>e1
  <2>6. CASE LeaveGate(u)
    BY <2>6, <1>s DEF LeaveGate, GateTypes, Creating, Starters
  <2> QED
    BY <1>1, <2>1, <2>2, <2>3, <2>4, <2>5, <2>6 DEF Get
<1>2. ASSUME NEW u \in Users, Use(u) PROVE SlotsExact'
  <2>1. CASE Register(u) \/ Unregister(u) \/ CloseClient(u)
    BY <2>1, <1>m, <1>s DEF Register, Unregister, CloseClient, Creating, pool
  <2>2. CASE Release(u)
    BY <2>2, <1>s DEF Release, GateTypes, Creating, Starters
  <2> QED
    BY <1>2, <2>1, <2>2 DEF Use
<1>3. ASSUME NEW u \in Users, NEW k \in Keys, Request(u, k) PROVE SlotsExact'
  BY <1>3, <1>m, <1>s DEF Request, Creating, pool
<1>4. CASE \/ SweepLater \/ CloseAll
           \/ \E a \in Actors : Close(a)
           \/ \E c \in Children : Dies(c)
           \/ \E p \in Profiles : CloseProfile(p)
  BY <1>4, <1>u DEF SweepLater, Sweep, CloseAll, Close, Dies, CloseProfile, users, pool
<1> QED
  BY <1>1, <1>2, <1>3, <1>4 DEF Next

-----------------------------------------------------------------------------
(* No running child is lost. A child is overwritten in the pool only if    *)
(* the key of a child that is being started gets another one meanwhile,    *)
(* and dropped from it unclosed only if one that finds nothing to evict    *)
(* evicts: the gates exclude the first, the limit the second.              *)
ChildHeld ==
  \A u \in Users :
    at[u] \in {"starting", "using", "serving", "served", "ending"} => child[u] \in Children

KeyClear ==
  \A u \in Users :
    at[u] \in {"reserving", "spawning", "starting"} => clients[key[u]] = NoChild

PoolInv ==
  /\ TypeOK
  /\ GateInv
  /\ SlotsExact
  /\ WithinLimit
  /\ ChildHeld
  /\ KeyClear
  /\ NoOrphan

LEMMA PoolInit == Init => PoolInv
<1> SUFFICES ASSUME Init PROVE PoolInv
  OBVIOUS
<1>1. TypeOK
  BY PoolAssumption DEF Init, TypeOK, Stages
<1>2. GateInv
  BY GateInit
<1>3. Pooled = {} /\ {u \in Users : at[u] \in Creating} = {}
  BY DEF Init, Pooled, Creating
<1>4. SlotsExact /\ WithinLimit
  <2>1. pending = 0 /\ Cardinality(Pooled) = 0 /\ Cardinality({u \in Users : at[u] \in Creating}) = 0
    BY <1>3, FS_EmptySet DEF Init
  <2>2. Limit \in Nat
    BY PoolAssumption
  <2> QED
    BY <2>1, <2>2 DEF SlotsExact, WithinLimit
<1>5. ChildHeld /\ KeyClear /\ NoOrphan
  BY DEF Init, ChildHeld, KeyClear, NoOrphan
<1> QED
  BY <1>1, <1>2, <1>4, <1>5 DEF PoolInv

LEMMA RemovedFromPool ==
  ASSUME NEW a, NEW S, Remove(a, S) PROVE Pooled' = Pooled \ S
  BY DEF Remove, Pooled

(* What Remove does to the types.                                          *)
LEMMA RemoveTypes ==
  ASSUME TypeOK, NEW a \in Actors, NEW S \in SUBSET Children, Remove(a, S)
  PROVE  /\ clients' \in [Keys -> Children \union {NoChild}]
         /\ leases' \in [Children -> Nat]
         /\ closing' \in [Actors -> SUBSET Children]
<1>1. clients' \in [Keys -> Children \union {NoChild}]
  BY DEF TypeOK, Remove
<1>2. leases' \in [Children -> Nat]
  BY DEF TypeOK, Remove
<1>3. closing' \in [Actors -> SUBSET Children]
  BY DEF TypeOK, Remove
<1> QED
  BY <1>1, <1>2, <1>3

LEMMA LeaseTypes ==
  ASSUME TypeOK, NEW c PROVE Lease(c) \in [Children -> Nat] /\ Released(c) \in [Children -> Nat]
<1>1. CASE c \in Children
  <2>1. leases[c] \in Nat /\ leases \in [Children -> Nat]
    BY <1>1 DEF TypeOK
  <2>2. (IF leases[c] <= 1 THEN 0 ELSE leases[c] - 1) \in Nat /\ leases[c] + 1 \in Nat
    BY <2>1
  <2>3. Lease(c) \in [Children -> Nat]
    BY <2>1, <2>2 DEF Lease
  <2>4. Released(c) = [leases EXCEPT ![c] = IF leases[c] <= 1 THEN 0 ELSE leases[c] - 1]
    BY DEF Released
  <2>5. Released(c) \in [Children -> Nat]
    BY <2>1, <2>2, <2>4
  <2> QED
    BY <2>3, <2>5
<1>2. CASE c \notin Children
  BY <1>2 DEF TypeOK, Lease, Released
<1> QED
  BY <1>1, <1>2

LEMMA PooledAreChildren ==
  ASSUME TypeOK PROVE Pooled \subseteq Children /\ Evictable \subseteq Pooled
  BY DEF TypeOK, Pooled, Evictable

(* Types that the gates and the slots leave to be shown.                   *)
Rest ==
  /\ clients \in [Keys -> Children \union {NoChild}]
  /\ leases \in [Children -> Nat]
  /\ child \in [Users -> Children \union {NoChild}]
  /\ closing \in [Actors -> SUBSET Children]
  /\ alive \subseteq Children
  /\ strays \subseteq Children

LEMMA RestStep ==
  ASSUME PoolInv, Next PROVE Rest' /\ ChildHeld'
<1>t. TypeOK /\ ChildHeld /\ Users \subseteq Actors /\ Sweeper \in Actors /\ Admin \in Actors
      /\ Main \in Actors
  BY DEF PoolInv, Actors
<1>p. Pooled \subseteq Children /\ Evictable \subseteq Pooled
  BY <1>t, PooledAreChildren
<1>r. ASSUME NEW a \in Actors, NEW S \in SUBSET Children, Remove(a, S),
             UNCHANGED <<child, alive, strays>>
      PROVE  Rest'
  BY <1>t, <1>r, RemoveTypes DEF Rest, TypeOK
<1>h. ASSUME UNCHANGED child,
             \A u \in Users : at'[u] \in {"starting", "using", "serving", "served", "ending"} =>
                             at[u] \in {"starting", "using", "serving", "served", "ending"}
      PROVE  ChildHeld'
  BY <1>t, <1>h DEF ChildHeld
<1>m. ASSUME NEW u \in Users, NEW from, NEW to \in Stages, Move(u, from, to),
             to \in {"starting", "using", "serving", "served", "ending"} => child'[u] \in Children,
             \A v \in Users \ {u} : child'[v] = child[v]
      PROVE  ChildHeld'
  BY <1>t, <1>m DEF ChildHeld, Move, TypeOK
<1>1. ASSUME NEW u \in Users, NEW k \in Keys, Request(u, k) PROVE Rest' /\ ChildHeld'
  BY <1>1, <1>t, <1>m DEF Request, Rest, TypeOK, pool, Stages
<1>2. ASSUME NEW u \in Users, Get(u) PROVE Rest' /\ ChildHeld'
  <2>a. u \in Actors
    BY <1>t
  <2>1. CASE SweepFirst(u)
    <3>1. PICK expired \in SUBSET {c \in Pooled : Idle(c)} :
            Remove(u, expired \union (Pooled \ alive)) /\ UNCHANGED <<child, alive, strays>>
      BY <2>1 DEF SweepFirst, Sweep
    <3>2. expired \union (Pooled \ alive) \in SUBSET Children
      BY <1>p
    <3>3. Rest'
      BY <3>1, <3>2, <2>a, <1>r
    <3>4. ChildHeld'
      BY <2>1, <3>1, <1>m DEF SweepFirst, Stages
    <3> QED
      BY <3>3, <3>4
  <2>2. CASE Retire(u)
    <3>1. {c \in Superseded(key[u]) : Idle(c)} \in SUBSET Children
      <4> SUFFICES ASSUME NEW c \in Superseded(key[u]) PROVE c \in Children
        OBVIOUS
      <4> QED
        BY <1>p DEF Superseded
    <3>2. Rest'
      BY <2>2, <3>1, <2>a, <1>r DEF Retire
    <3>3. ChildHeld'
      BY <2>2, <1>m DEF Retire, Stages
    <3> QED
      BY <3>2, <3>3
  <2>3. CASE Find(u) \/ FindAgain(u)
    <3>1. PICK from \in {"retired", "inside"}, to \in {"using", "leaving"} : TakePooled(u, from, to)
      BY <2>3 DEF Find, FindAgain
    <3>2. clients[key[u]] \in Children
      BY <3>1, <1>t DEF TakePooled, TypeOK
    <3>3. Rest'
      BY <3>1, <3>2, <1>t, LeaseTypes DEF TakePooled, Rest, TypeOK
    <3>4. ChildHeld'
      BY <3>1, <3>2, <1>t, <1>m DEF TakePooled, TypeOK, Stages
    <3> QED
      BY <3>3, <3>4
  <2>4. CASE Miss(u) \/ JoinGate(u) \/ EnterGate(u)
    BY <2>4, <1>t, <1>m DEF Miss, JoinGate, EnterGate, Rest, TypeOK, pool, Stages
  <2>5. CASE MissAgain(u)
    <3>1. {clients[key[u]]} \ {NoChild} \in SUBSET Children
      <4>1. key[u] \in Keys
        BY <2>5 DEF MissAgain, Move, PoolInv, GateInv, JoinedIsListed, InGet, InGate
      <4> QED
        BY <4>1, <1>t DEF TypeOK
    <3>2. Rest'
      BY <2>5, <3>1, <2>a, <1>r DEF MissAgain
    <3>3. ChildHeld'
      BY <2>5, <1>m DEF MissAgain, Stages
    <3> QED
      BY <3>2, <3>3
  <2>6. CASE Reserve(u)
    <3>1. PICK S \in SUBSET Evictable : Remove(u, S)
      BY <2>6 DEF Reserve
    <3>2. S \in SUBSET Children
      BY <1>p
    <3>3. Rest'
      BY <2>6, <3>1, <3>2, <2>a, <1>r DEF Reserve
    <3>4. ChildHeld'
      BY <2>6, <1>m DEF Reserve, Stages
    <3> QED
      BY <3>3, <3>4
  <2>7. CASE Exhausted(u)
    <3>1. Rest'
      BY <2>7, <1>t DEF Exhausted, Rest, TypeOK
    <3>2. ChildHeld'
      BY <2>7, <1>m DEF Exhausted, Stages
    <3> QED
      BY <3>1, <3>2
  <2>8. CASE Spawn(u)
    <3>1. PICK c \in Children : child' = [child EXCEPT ![u] = c] /\ alive' = alive \union {c}
      BY <2>8 DEF Spawn
    <3>2. Rest'
      BY <2>8, <3>1, <1>t DEF Spawn, Rest, TypeOK, pool
    <3>3. ChildHeld'
      BY <2>8, <3>1, <1>t, <1>m DEF Spawn, TypeOK, Stages
    <3> QED
      BY <3>2, <3>3
  <2>9. CASE StartFails(u)
    <3>1. Rest'
      BY <2>9, <1>t DEF StartFails, LeftBehind, Rest, TypeOK
    <3>2. ChildHeld'
      BY <2>9, <1>t, <1>m DEF StartFails, LeftBehind, Move, TypeOK, Stages
    <3> QED
      BY <3>1, <3>2
  <2>10. CASE Publish(u)
    <3>1. child[u] \in Children
      BY <2>10, <1>t DEF Publish, Move, ChildHeld
    <3>2. Rest'
      BY <2>10, <3>1, <1>t, <2>a, LeaseTypes DEF Publish, Rest, TypeOK
    <3>3. ChildHeld'
      BY <2>10, <1>t, <1>m DEF Publish, TypeOK, Stages
    <3> QED
      BY <3>2, <3>3
  <2>11. CASE LeaveGate(u)
    <3>1. Rest'
      BY <2>11, <1>t DEF LeaveGate, Rest, TypeOK
    <3>2. ChildHeld'
      BY <2>11, <1>t DEF LeaveGate, ChildHeld, TypeOK
    <3> QED
      BY <3>1, <3>2
  <2> QED
    BY <1>2, <2>1, <2>2, <2>3, <2>4, <2>5, <2>6, <2>7, <2>8, <2>9, <2>10, <2>11 DEF Get
<1>3. ASSUME NEW u \in Users, Use(u) PROVE Rest' /\ ChildHeld'
  <2>1. CASE Register(u) \/ Unregister(u)
    BY <2>1, <1>t, <1>m DEF Register, Unregister, Move, ChildHeld, Rest, TypeOK, pool, Stages
  <2>2. CASE Release(u)
    <3>1. Rest'
      BY <2>2, <1>t, LeaseTypes DEF Release, Rest, TypeOK
    <3>2. ChildHeld'
      BY <2>2, <1>t DEF Release, ChildHeld, TypeOK
    <3> QED
      BY <3>1, <3>2
  <2>3. CASE CloseClient(u)
    <3>1. {child[u]} \in SUBSET Children
      BY <2>3, <1>t DEF CloseClient, Move, ChildHeld
    <3>2. child' \in [Users -> Children \union {NoChild}] /\ UNCHANGED <<alive, strays>>
      BY <2>3, <1>t DEF CloseClient, TypeOK
    <3>3. Rest'
      BY <2>3, <3>1, <3>2, <1>t, RemoveTypes DEF CloseClient, Rest, TypeOK
    <3>4. ChildHeld'
      BY <2>3, <1>t, <1>m DEF CloseClient, TypeOK, Stages
    <3> QED
      BY <3>3, <3>4
  <2> QED
    BY <1>3, <2>1, <2>2, <2>3 DEF Use
<1>4. CASE SweepLater
  <2>1. PICK expired \in SUBSET {c \in Pooled : Idle(c)} :
          Remove(Sweeper, expired \union (Pooled \ alive)) /\ UNCHANGED <<child, alive, strays>>
    BY <1>4 DEF SweepLater, Sweep
  <2>2. expired \union (Pooled \ alive) \in SUBSET Children
    BY <1>p
  <2>3. Rest'
    BY <2>1, <2>2, <1>t, <1>r
  <2> QED
    BY <1>4, <2>1, <2>3, <1>h DEF SweepLater
<1>5. CASE \E p \in Profiles : CloseProfile(p)
  <2>1. PICK p \in Profiles : CloseProfile(p)
    BY <1>5
  <2>2. {clients[<<p, v>>] : v \in Variants} \ {NoChild} \in SUBSET Children
    <3> SUFFICES ASSUME NEW v \in Variants PROVE clients[<<p, v>>] \in Children \union {NoChild}
      OBVIOUS
    <3>1. <<p, v>> \in Keys
      BY DEF Keys
    <3> QED
      BY <3>1, <1>t DEF TypeOK
  <2>3. Rest'
    BY <2>1, <2>2, <1>t, <1>r DEF CloseProfile, users
  <2> QED
    BY <2>1, <2>3, <1>h DEF CloseProfile, users
<1>6. CASE CloseAll
  <2>1. Rest'
    BY <1>6, <1>p, <1>t, <1>r DEF CloseAll, users
  <2> QED
    BY <1>6, <2>1, <1>h DEF CloseAll, users
<1>7. CASE (\E a \in Actors : Close(a)) \/ \E c \in Children : Dies(c)
  BY <1>7, <1>t, <1>h DEF Close, Dies, Rest, TypeOK, users, pool
<1> QED
  BY <1>1, <1>2, <1>3, <1>4, <1>5, <1>6, <1>7 DEF Next

-----------------------------------------------------------------------------
(* Only Publish adds to the pool, and only under its own key.              *)
LEMMA PoolShrinks ==
  ASSUME PoolInv, Next
  PROVE  \/ /\ Pooled' \subseteq Pooled
            /\ \A k \in Keys : clients[k] = NoChild => clients'[k] = NoChild
         \/ \E u \in Users :
              /\ Publish(u)
              /\ ~closed
              /\ clients' = [clients EXCEPT ![key[u]] = child[u]]
<1> DEFINE Shrinks == /\ Pooled' \subseteq Pooled
                      /\ \A k \in Keys : clients[k] = NoChild => clients'[k] = NoChild
<1>p. NoChild \notin Pooled
  BY DEF Pooled
<1>s. UNCHANGED clients => Shrinks
  BY DEF Pooled
<1>r. ASSUME NEW a, NEW S, Remove(a, S) PROVE Shrinks
  BY <1>r, RemovedFromPool DEF Remove
<1>1. ASSUME NEW u \in Users, Get(u), ~Publish(u) PROVE Shrinks
  <2>1. CASE SweepFirst(u)
    BY <2>1, <1>r DEF SweepFirst, Sweep
  <2>2. CASE Retire(u) \/ MissAgain(u) \/ Reserve(u)
    BY <2>2, <1>r DEF Retire, MissAgain, Reserve
  <2>3. CASE Exhausted(u)
    <3>1. clients' = [k \in Keys |-> IF clients[k] \in Evictable THEN NoChild ELSE clients[k]]
      BY <2>3 DEF Exhausted
    <3>2. Pooled' \subseteq Pooled
      BY <3>1 DEF Pooled
    <3> QED
      BY <3>1, <3>2
  <2>4. CASE Find(u) \/ Miss(u) \/ JoinGate(u) \/ EnterGate(u) \/ FindAgain(u) \/ Spawn(u)
             \/ StartFails(u) \/ LeaveGate(u)
    BY <2>4, <1>s DEF Find, Miss, JoinGate, EnterGate, FindAgain, Spawn, StartFails, LeftBehind, LeaveGate,
       TakePooled, pool
  <2> QED
    BY <1>1, <2>1, <2>2, <2>3, <2>4 DEF Get
<1>2. ASSUME NEW u \in Users, Publish(u), ~Shrinks
      PROVE  ~closed /\ clients' = [clients EXCEPT ![key[u]] = child[u]]
  BY <1>2, <1>s DEF Publish, ClosedDuringStart
<1>3. ASSUME NEW u \in Users, Use(u) PROVE Shrinks
  <2>1. CASE CloseClient(u)
    BY <2>1, <1>r DEF CloseClient
  <2> QED
    BY <1>3, <2>1, <1>s DEF Use, Register, Unregister, Release, pool
<1>4. CASE SweepLater
  BY <1>4, <1>r DEF SweepLater, Sweep
<1>5. CASE \E p \in Profiles : CloseProfile(p)
  BY <1>5, <1>r DEF CloseProfile
<1>6. CASE CloseAll
  BY <1>6, <1>r DEF CloseAll
<1>7. CASE \/ \E u \in Users, k \in Keys : Request(u, k)
           \/ \E a \in Actors : Close(a)
           \/ \E c \in Children : Dies(c)
  BY <1>7, <1>s DEF Request, Close, Dies, pool
<1> QED
  BY <1>1, <1>2, <1>3, <1>4, <1>5, <1>6, <1>7 DEF Next

(* Slots used by the pool and by children that are being started.          *)
LEMMA LimitStep ==
  ASSUME PoolInv, Next PROVE WithinLimit'
<1> SUFFICES ASSUME Limit # 0 PROVE Cardinality(Pooled') + pending' <= Limit
  BY DEF WithinLimit
<1>1. /\ IsFiniteSet(Pooled) /\ Cardinality(Pooled) \in Nat
      /\ pending \in Nat /\ Limit \in Nat
      /\ Cardinality(Pooled) + pending <= Limit
  BY FinitePool, PoolAssumption DEF PoolInv, TypeOK, WithinLimit
<1>2. pending' \in Nat
  <2>1. GateTypes /\ SlotsExact
    BY DEF PoolInv, GateInv
  <2>2. pending' = Cardinality(Starters')
    BY <2>1, SlotsStep DEF SlotsExact, Starters
  <2>3. IsFiniteSet(Starters')
    BY FS_Subset, PoolAssumption DEF Starters
  <2> QED
    BY <2>2, <2>3, FS_CardinalityType
<1>3. CASE \E u \in Users : Reserve(u)
  <2>1. PICK u \in Users, S \in SUBSET Evictable :
          Cardinality(S) = Excess /\ Remove(u, S) /\ pending' = pending + 1
    BY <1>3 DEF Reserve
  <2>2. S \subseteq Pooled /\ Pooled \intersect S = S
    BY PooledAreChildren DEF PoolInv
  <2>3. Cardinality(Pooled') = Cardinality(Pooled) - Excess
    <3>1. Pooled' = Pooled \ S
      BY <2>1, RemovedFromPool
    <3>2. Cardinality(Pooled \ S) = Cardinality(Pooled) - Cardinality(Pooled \intersect S)
      BY <1>1, FS_Difference
    <3> QED
      BY <3>1, <3>2, <2>1, <2>2
  <2>4. Excess = IF Cardinality(Pooled) + pending < Limit THEN 0
                 ELSE Cardinality(Pooled) + pending - Limit + 1
    BY <1>1 DEF Excess, SlotsUsed
  <2> QED
    BY <2>1, <2>3, <2>4, <1>1
<1>4. CASE \E u \in Users : Publish(u) /\ clients' = [clients EXCEPT ![key[u]] = child[u]]
  <2>1. PICK u \in Users : Publish(u) /\ clients' = [clients EXCEPT ![key[u]] = child[u]]
    BY <1>4
  <2>2. Pooled' \subseteq Pooled \union {child[u]}
    BY <2>1 DEF Pooled, PoolInv, TypeOK
  <2>3. /\ IsFiniteSet(Pooled \union {child[u]})
        /\ Cardinality(Pooled \union {child[u]}) <= Cardinality(Pooled) + 1
        /\ Cardinality(Pooled \union {child[u]}) \in Nat
    <3>1. /\ IsFiniteSet(Pooled \union {child[u]})
          /\ Cardinality(Pooled \union {child[u]}) =
               IF child[u] \in Pooled THEN Cardinality(Pooled) ELSE Cardinality(Pooled) + 1
      BY <1>1, FS_AddElement
    <3> QED
      BY <1>1, <3>1
  <2>4. IsFiniteSet(Pooled') /\ Cardinality(Pooled') <= Cardinality(Pooled \union {child[u]})
    BY <2>2, <2>3, FS_Subset
  <2>5. Cardinality(Pooled') \in Nat
    BY <2>4, FS_CardinalityType
  <2>6. pending' = pending - 1
    BY <2>1 DEF Publish
  <2> QED
    BY <2>3, <2>4, <2>5, <2>6, <1>1
<1>5. CASE Pooled' \subseteq Pooled /\ ~\E u \in Users : Reserve(u)
  <2>1. IsFiniteSet(Pooled') /\ Cardinality(Pooled') <= Cardinality(Pooled)
    BY <1>1, <1>5, FS_Subset
  <2>2. Cardinality(Pooled') \in Nat
    BY <2>1, FS_CardinalityType
  <2>3. pending' = pending \/ pending' = pending - 1
    BY <1>5 DEF Next, Get, Use, Request, SweepFirst, Retire, Find, Miss, JoinGate, EnterGate,
       FindAgain, MissAgain, Exhausted, Spawn, StartFails, LeftBehind, SlotGivenBack, Publish, LeaveGate,
       Register, Unregister, Release, CloseClient, Close, Dies, SweepLater, Sweep, CloseProfile,
       CloseAll, TakePooled, pool
  <2> QED
    BY <2>1, <2>2, <2>3, <1>1, <1>2
<1> QED
  BY <1>3, <1>4, <1>5, PoolShrinks

(* While a user creates the child of a key, nobody else pools one under it.*)
LEMMA KeyClearStep ==
  ASSUME PoolInv, Next PROVE KeyClear'
<1> SUFFICES ASSUME NEW u \in Users, at'[u] \in {"reserving", "spawning", "starting"}
             PROVE  clients'[key'[u]] = NoChild
  BY DEF KeyClear
<1>1. CASE MissAgain(u)
  <2>1. key[u] \in Keys /\ UNCHANGED key
    BY <1>1 DEF MissAgain, Move, PoolInv, GateInv, JoinedIsListed, InGet, InGate
  <2> QED
    BY <1>1, <2>1 DEF MissAgain, Remove
<1>2. CASE ~MissAgain(u)
  <2>1. at[u] \in {"reserving", "spawning", "starting"} /\ key'[u] = key[u]
    <3>t. at \in [Users -> Stages] /\ key \in [Users -> Keys \union {NoKey}]
      BY DEF PoolInv, TypeOK
    <3>1. CASE UNCHANGED <<at, key>>
      BY <3>1
    <3>2. ASSUME NEW v \in Users, NEW k \in Keys, Request(v, k)
          PROVE  at[u] \in {"reserving", "spawning", "starting"} /\ key'[u] = key[u]
      BY <3>2, <3>t DEF Request, Move
    <3>3. ASSUME NEW v \in Users, Get(v) \/ Use(v)
          PROVE  at[u] \in {"reserving", "spawning", "starting"} /\ key'[u] = key[u]
      <4>1. CASE LeaveGate(v)
        BY <4>1, <3>t DEF LeaveGate
      <4>2. CASE Release(v) \/ CloseClient(v)
        BY <4>2, <3>t DEF Release, CloseClient, Move
      <4>3. CASE SweepFirst(v)
        BY <4>3, <3>t DEF SweepFirst, Sweep, Move
      <4>4. CASE MissAgain(v)
        BY <4>4, <1>2, <3>t DEF MissAgain, Move
      <4>5. CASE StartFails(v)
        BY <4>5, <3>t DEF StartFails, LeftBehind
      <4>6. CASE \/ Retire(v) \/ Find(v) \/ Miss(v) \/ JoinGate(v) \/ EnterGate(v) \/ FindAgain(v)
                 \/ Reserve(v) \/ Exhausted(v) \/ Spawn(v) \/ Publish(v)
                 \/ Register(v) \/ Unregister(v)
        BY <4>6, <3>t DEF Retire, Find, Miss, JoinGate, EnterGate, FindAgain, TakePooled,
           Reserve, Exhausted, Spawn, Publish, Register, Unregister, Move, pool
      <4> QED
        BY <3>3, <4>1, <4>2, <4>3, <4>4, <4>5, <4>6 DEF Get, Use
    <3>4. CASE \/ SweepLater \/ CloseAll
               \/ \E a \in Actors : Close(a)
               \/ \E c \in Children : Dies(c)
               \/ \E q \in Profiles : CloseProfile(q)
      BY <3>4, <3>1 DEF SweepLater, Sweep, CloseAll, Close, Dies, CloseProfile, users
    <3> QED
      BY <3>2, <3>3, <3>4 DEF Next
  <2>2. key[u] \in Keys /\ clients[key[u]] = NoChild
    BY <2>1 DEF PoolInv, KeyClear, GateInv, JoinedIsListed, InGet, InGate
  <2>3. CASE \E v \in Users : Publish(v) /\ clients' = [clients EXCEPT ![key[v]] = child[v]]
    <3>1. PICK v \in Users : Publish(v) /\ clients' = [clients EXCEPT ![key[v]] = child[v]]
      BY <2>3
    <3>2. at[v] = "starting" /\ at'[v] = "leaving"
      BY <3>1 DEF Publish, Move, PoolInv, TypeOK
    <3>3. key[v] # key[u]
      BY <3>2, <2>1, GateExcludes DEF OneCreationPerKey, InGate, PoolInv
    <3> QED
      BY <3>1, <3>3, <2>1, <2>2
  <2> QED
    BY <2>1, <2>2, <2>3, PoolShrinks
<1> QED
  BY <1>1, <1>2

-----------------------------------------------------------------------------
(* A slot that cannot be had leaves the pool as it was: within the limit,  *)
(* one eviction is always enough, and none was possible.                   *)
LEMMA NothingEvicted ==
  ASSUME PoolInv, NEW u \in Users, Exhausted(u) PROVE Evictable = {}
<1>1. /\ IsFiniteSet(Pooled) /\ Cardinality(Pooled) \in Nat
      /\ pending \in Nat /\ Limit \in Nat
      /\ Limit # 0 => Cardinality(Pooled) + pending <= Limit
  BY FinitePool, PoolAssumption DEF PoolInv, TypeOK, WithinLimit
<1>2. Excess <= 1
  BY <1>1 DEF Excess, SlotsUsed
<1>3. IsFiniteSet(Evictable)
  BY <1>1, PooledAreChildren, FS_Subset DEF PoolInv
<1>4. Cardinality(Evictable) \in Nat /\ Cardinality(Evictable) < Excess /\ Excess \in Nat
  BY <1>1, <1>3, FS_CardinalityType DEF Exhausted, Excess, SlotsUsed
<1>5. Cardinality(Evictable) = 0
  BY <1>2, <1>4
<1> QED
  BY <1>3, <1>5, FS_EmptySet

Cared(c) ==
  \/ c \in Pooled
  \/ \E a \in Actors : c \in closing[a]
  \/ \E u \in Users : child[u] = c /\ at[u] \in {"starting", "ending"}

LEMMA NoOrphanStep ==
  ASSUME PoolInv, Next PROVE NoOrphan'
<1>t. TypeOK /\ KeyClear /\ ChildHeld
  BY DEF PoolInv
<1>n. \A c \in alive \ strays : Cared(c)
  BY DEF PoolInv, NoOrphan, Cared
<1>g. (\A c \in alive' \ strays' : Cared(c)') => NoOrphan'
  BY DEF NoOrphan, Cared
<1>a. Users \subseteq Actors /\ Sweeper \in Actors /\ Admin \in Actors /\ Main \in Actors
  BY DEF Actors
<1> DEFINE Attached == \A u \in Users : at[u] \in {"starting", "ending"} =>
                         at'[u] \in {"starting", "ending"} /\ child'[u] = child[u]
<1>r. ASSUME NEW a \in Actors, NEW S, Remove(a, S), UNCHANGED <<alive, strays>>, Attached
      PROVE  NoOrphan'
  <2> SUFFICES ASSUME NEW c \in alive \ strays PROVE Cared(c)'
    BY <1>r, <1>g
  <2>1. Pooled' = Pooled \ S
    BY <1>r, RemovedFromPool
  <2>2. closing' = [closing EXCEPT ![a] = closing[a] \union S] /\ closing \in [Actors -> SUBSET Children]
    BY <1>r, <1>t DEF Remove, TypeOK
  <2>3. CASE c \in Pooled
    BY <2>1, <2>2, <2>3 DEF Cared
  <2>4. CASE \E b \in Actors : c \in closing[b]
    BY <2>2, <2>4 DEF Cared
  <2>5. CASE \E u \in Users : child[u] = c /\ at[u] \in {"starting", "ending"}
    BY <1>r, <2>5 DEF Cared
  <2> QED
    BY <1>n, <2>3, <2>4, <2>5 DEF Cared
<1>s. ASSUME UNCHANGED <<clients, closing>>, alive' \ strays' \subseteq alive \ strays, Attached
      PROVE  NoOrphan'
  BY <1>s, <1>n, <1>g DEF Cared, Pooled
<1>m. ASSUME NEW u \in Users, NEW from, from \notin {"starting", "ending"}, NEW to, Move(u, from, to),
             \A v \in Users \ {u} : child'[v] = child[v]
      PROVE  Attached
  BY <1>m, <1>t DEF Move, TypeOK
<1>1. ASSUME NEW u \in Users, Get(u) PROVE NoOrphan'
  <2>a. u \in Actors
    BY <1>a
  <2>1. CASE SweepFirst(u)
    BY <2>1, <2>a, <1>r, <1>m DEF SweepFirst, Sweep
  <2>2. CASE Retire(u)
    BY <2>2, <2>a, <1>r, <1>m DEF Retire
  <2>3. CASE MissAgain(u)
    BY <2>3, <2>a, <1>r, <1>m DEF MissAgain
  <2>4. CASE Reserve(u)
    BY <2>4, <2>a, <1>r, <1>m DEF Reserve
  <2>5. CASE Find(u) \/ FindAgain(u)
    BY <2>5, <1>t, <1>s, <1>m DEF Find, FindAgain, TakePooled, TypeOK
  <2>6. CASE Miss(u) \/ JoinGate(u) \/ EnterGate(u)
    BY <2>6, <1>s, <1>m DEF Miss, JoinGate, EnterGate, pool
  <2>7. CASE Exhausted(u)
    <3>1. clients' = clients
      BY <2>7, <1>t, NothingEvicted DEF Exhausted, TypeOK
    <3> QED
      BY <2>7, <3>1, <1>s, <1>m DEF Exhausted
  <2>8. CASE Spawn(u)
    <3>1. PICK c \in Children : child' = [child EXCEPT ![u] = c] /\ alive' = alive \union {c}
      BY <2>8 DEF Spawn
    <3>2. at[u] = "spawning" /\ at' = [at EXCEPT ![u] = "starting"]
          /\ UNCHANGED <<clients, closing, strays>>
      BY <2>8 DEF Spawn, Move, pool
    <3>3. Cared(c)'
      BY <3>1, <3>2, <1>t DEF Cared, TypeOK
    <3>4. ASSUME NEW d \in alive \ strays PROVE Cared(d)'
      BY <3>1, <3>2, <3>4, <1>n, <1>t DEF Cared, Pooled, TypeOK
    <3> QED
      BY <3>1, <3>2, <3>3, <3>4, <1>g
  <2>9. CASE StartFails(u)
    <3>1. /\ at' = [at EXCEPT ![u] = "leaving"]
          /\ child' = [child EXCEPT ![u] = NoChild]
          /\ UNCHANGED <<clients, closing>>
          /\ alive' \ strays' \subseteq (alive \ strays) \ {child[u]}
      BY <2>9 DEF StartFails, LeftBehind
    <3>2. ASSUME NEW c \in (alive \ strays) \ {child[u]} PROVE Cared(c)'
      BY <3>1, <3>2, <1>n, <1>t DEF Cared, Pooled, TypeOK
    <3> QED
      BY <3>1, <3>2, <1>g
  <2>10. CASE Publish(u)
    <3>1. /\ at[u] = "starting" /\ at' = [at EXCEPT ![u] = "leaving"]
          /\ closing[u] = {}
          /\ UNCHANGED <<alive, strays>>
      BY <2>10 DEF Publish, Move
    <3>2. /\ key[u] \in Keys /\ clients[key[u]] = NoChild /\ child[u] \in Children
          /\ child[u] # NoChild
      BY <3>1, <1>t, PoolAssumption DEF KeyClear, ChildHeld, PoolInv, GateInv, JoinedIsListed, InGet,
         InGate
    <3>3. ASSUME NEW v \in Users, v # u PROVE child'[v] = child[v] /\ at'[v] = at[v]
      BY <2>10, <3>1, <3>3, <1>t DEF Publish, TypeOK
    <3>4. CASE UNCHANGED clients /\ closing' = [closing EXCEPT ![u] = {child[u]}]
      <4>1. \A d \in Children : d \in Pooled => d \in Pooled'
        BY <3>4 DEF Pooled
      <4>2. child[u] \in closing'[u]
        BY <3>4, <1>t, <1>a DEF TypeOK
      <4>3. ASSUME NEW b \in Actors PROVE closing[b] \subseteq closing'[b]
        BY <3>4, <3>1, <1>t DEF TypeOK
      <4>4. ASSUME NEW c \in alive \ strays PROVE Cared(c)'
        <5>1. c \in Children
          BY <1>t DEF TypeOK
        <5>2. CASE c = child[u]
          BY <5>2, <4>2, <2>a DEF Cared
        <5>3. CASE c # child[u]
          BY <5>1, <5>3, <1>n, <4>1, <4>3, <3>3 DEF Cared
        <5> QED
          BY <5>2, <5>3
      <4> QED
        BY <3>1, <4>4, <1>g
    <3>5. CASE UNCHANGED closing /\ clients' = [clients EXCEPT ![key[u]] = child[u]]
      <4>1. Pooled' = Pooled \union {child[u]}
        <5>1. \A k \in Keys : clients'[k] = IF k = key[u] THEN child[u] ELSE clients[k]
          BY <3>5, <1>t DEF TypeOK
        <5> QED
          BY <5>1, <3>2 DEF Pooled
      <4>2. ASSUME NEW c \in alive \ strays PROVE Cared(c)'
        BY <4>1, <3>5, <1>n, <3>3 DEF Cared
      <4> QED
        BY <3>1, <4>2, <1>g
    <3> QED
      BY <2>10, <3>4, <3>5 DEF Publish
  <2>11. CASE LeaveGate(u)
    BY <2>11, <1>t, <1>s DEF LeaveGate, TypeOK
  <2> QED
    BY <1>1, <2>1, <2>2, <2>3, <2>4, <2>5, <2>6, <2>7, <2>8, <2>9, <2>10, <2>11 DEF Get
<1>2. ASSUME NEW u \in Users, Use(u) PROVE NoOrphan'
  <2>1. CASE Register(u) \/ Unregister(u)
    BY <2>1, <1>s, <1>m DEF Register, Unregister, pool
  <2>2. CASE Release(u)
    BY <2>2, <1>t, <1>s DEF Release, TypeOK
  <2>3. CASE CloseClient(u)
    <3>1. /\ at[u] = "ending" /\ at' = [at EXCEPT ![u] = "out"]
          /\ child' = [child EXCEPT ![u] = NoChild]
          /\ UNCHANGED <<alive, strays>> /\ Remove(u, {child[u]})
      BY <2>3 DEF CloseClient, Move
    <3>2. Pooled' = Pooled \ {child[u]}
      BY <3>1, RemovedFromPool
    <3>3. closing' = [closing EXCEPT ![u] = closing[u] \union {child[u]}] /\ u \in Actors
      BY <3>1, <1>a DEF Remove
    <3>4. ASSUME NEW c \in alive \ strays PROVE Cared(c)'
      <4>1. child[u] \in closing'[u] /\ \A b \in Actors : closing[b] \subseteq closing'[b]
        BY <3>3, <1>t DEF TypeOK
      <4>2. CASE c = child[u]
        BY <4>1, <4>2, <3>3 DEF Cared
      <4>3. CASE c # child[u]
        BY <4>1, <4>3, <3>1, <3>2, <1>n, <1>t DEF Cared, TypeOK
      <4> QED
        BY <4>2, <4>3
    <3> QED
      BY <3>1, <3>4, <1>g
  <2> QED
    BY <1>2, <2>1, <2>2, <2>3 DEF Use
<1>3. ASSUME NEW u \in Users, NEW k \in Keys, Request(u, k) PROVE NoOrphan'
  BY <1>3, <1>s, <1>m DEF Request, pool
<1>4. CASE SweepLater
  BY <1>4, <1>a, <1>r DEF SweepLater, Sweep
<1>5. CASE \E p \in Profiles : CloseProfile(p)
  BY <1>5, <1>a, <1>r DEF CloseProfile, users
<1>6. CASE CloseAll
  BY <1>6, <1>a, <1>r DEF CloseAll, users
<1>7. CASE \E a \in Actors : Close(a)
  <2>a. PICK a \in Actors : Close(a)
    BY <1>7
  <2>1. PICK c \in closing[a] :
          /\ closing' = [closing EXCEPT ![a] = @ \ {c}]
          /\ alive' = alive \ {c}
          /\ UNCHANGED <<pool, users, strays>>
    BY <2>a DEF Close
  <2>2. ASSUME NEW d \in (alive \ strays) \ {c} PROVE Cared(d)'
    BY <2>1, <2>2, <1>n, <1>t DEF Cared, Pooled, TypeOK, pool, users
  <2> QED
    BY <2>1, <2>2, <1>g
<1>8. CASE \E c \in Children : Dies(c)
  BY <1>8, <1>s DEF Dies, pool, users
<1> QED
  BY <1>1, <1>2, <1>3, <1>4, <1>5, <1>6, <1>7, <1>8 DEF Next

-----------------------------------------------------------------------------
LEMMA ClosedFlag == closed \in BOOLEAN /\ [Next]_vars => closed' \in BOOLEAN
<1> SUFFICES ASSUME closed \in BOOLEAN, [Next]_vars PROVE closed' = closed \/ closed' = TRUE
  OBVIOUS
<1>1. ASSUME NEW u \in Users, Get(u) PROVE closed' = closed
  BY <1>1 DEF Get, SweepFirst, Retire, Find, Miss, JoinGate, EnterGate, FindAgain, MissAgain,
     Reserve, Exhausted, Spawn, StartFails, LeftBehind, Publish, LeaveGate, Sweep, TakePooled, pool
<1>2. ASSUME NEW u \in Users, Use(u) PROVE closed' = closed
  BY <1>2 DEF Use, Register, Unregister, Release, CloseClient, pool
<1> QED
  BY <1>1, <1>2 DEF Next, Request, Close, Dies, SweepLater, Sweep, CloseProfile, CloseAll, vars, pool

LEMMA PoolStep == ASSUME PoolInv, [Next]_vars PROVE PoolInv'
<1>1. CASE UNCHANGED vars
  <2> USE <1>1 DEF vars, pool, users
  <2>1. TypeOK' /\ GateInv'
    BY DEF PoolInv, TypeOK, GateInv, GateTypes, JoinedIsListed, Exclusion, InGet
  <2>2. SlotsExact' /\ WithinLimit'
    BY DEF PoolInv, SlotsExact, WithinLimit, Pooled
  <2>3. ChildHeld' /\ KeyClear' /\ NoOrphan'
    BY DEF PoolInv, ChildHeld, KeyClear, NoOrphan, Pooled
  <2> QED
    BY <2>1, <2>2, <2>3 DEF PoolInv
<1>2. CASE Next
  <2>1. GateInv'
    BY GateStep DEF PoolInv
  <2>2. SlotsExact'
    BY <1>2, SlotsStep DEF PoolInv, GateInv
  <2>3. pending' \in Nat
    <3>1. IsFiniteSet(Starters')
      BY FS_Subset, PoolAssumption DEF Starters
    <3>2. Cardinality(Starters') \in Nat
      BY <3>1, FS_CardinalityType
    <3> QED
      BY <2>2, <3>2 DEF SlotsExact, Starters
  <2>4. Rest' /\ ChildHeld'
    BY <1>2, RestStep
  <2>5. closed' \in BOOLEAN
    BY ClosedFlag DEF PoolInv, TypeOK
  <2>6. TypeOK'
    BY <2>1, <2>3, <2>4, <2>5 DEF TypeOK, Rest, GateInv, GateTypes
  <2> QED
    BY <1>2, <2>1, <2>2, <2>4, <2>6, LimitStep, KeyClearStep, NoOrphanStep DEF PoolInv
<1> QED
  BY <1>1, <1>2

THEOREM PoolInvariant == Spec => []PoolInv
<1>1. Init => PoolInv
  BY PoolInit
<1>2. PoolInv /\ [Next]_vars => PoolInv'
  BY PoolStep
<1> QED
  BY <1>1, <1>2, PTL DEF Spec

(* README, "an optional pooled App Server child cap": the children pooled  *)
(* and those being started for the pool never exceed max_pooled_app_servers*)
(* however get(), its failures, evictions and the sweeper interleave, and  *)
(* every slot reserved belongs to one creation that is under way.          *)
THEOREM ChildCap == Spec => [](WithinLimit /\ SlotsExact)
<1>1. PoolInv => WithinLimit /\ SlotsExact
  BY DEF PoolInv
<1> QED
  BY <1>1, PoolInvariant, PTL

(* app_server.py, AppServerPool: a child whose process runs and which did  *)
(* initialize is in the pool, or some thread is starting it or has yet to  *)
(* close it: none is overwritten in the pool or dropped from it unclosed.  *)
THEOREM NoLostChild == Spec => []NoOrphan
<1>1. PoolInv => NoOrphan
  BY DEF PoolInv
<1> QED
  BY <1>1, PoolInvariant, PTL

-----------------------------------------------------------------------------
(* AppServerPool.checkout and release: the counts of leases, and what they *)
(* protect. A child has a lease for each of its users because it is pooled *)
(* only once, by the one user that has started it and before anyone else   *)
(* can have found it; a child that has left the pool is never pooled again.*)
Owning == {"starting", "leaving", "using", "serving", "served", "ending"}

(* Who owns no child knows none, so that a failed get() ends without one.  *)
Unheld == \A u \in Users : at[u] \notin Owning => child[u] = NoChild

(* A child that is being started is known to nobody but who starts it.     *)
Fresh ==
  \A u \in Users : at[u] = "starting" =>
    child[u] \notin Pooled /\ \A v \in Users \ {u} : child[v] # child[u]

PooledOnce == \A j, k \in Keys : clients[j] = clients[k] /\ clients[j] # NoChild => j = k

(* A child in use that is pooled is pooled under the key it was asked for. *)
UnderItsKey ==
  \A u \in Users : child[u] \in Pooled => key[u] \in Keys /\ clients[key[u]] = child[u]

(* A key of hosted tools belongs to one turn, and only such a turn closes  *)
(* the child that it has used.                                             *)
OneOfHosted == \A u, v \in Users : key[u] \in Hosted /\ key[u] = key[v] => u = v
EndingIsHosted == \A u \in Users : at[u] = "ending" => key[u] \in Hosted

Ownership == Unheld /\ Fresh /\ PooledOnce /\ UnderItsKey /\ OneOfHosted /\ EndingIsHosted

LEMMA OwnershipInit == Init => Ownership
<1> SUFFICES ASSUME Init PROVE Ownership
  OBVIOUS
<1>1. Unheld /\ Fresh
  BY DEF Init, Unheld, Fresh
<1>2. PooledOnce /\ UnderItsKey
  BY DEF Init, PooledOnce, UnderItsKey, Pooled
<1>3. OneOfHosted /\ EndingIsHosted
  BY PoolAssumption DEF Init, OneOfHosted, EndingIsHosted
<1> QED
  BY <1>1, <1>2, <1>3 DEF Ownership

(* The pool loses the children S, or none.                                 *)
Lost(S) == clients' = [k \in Keys |-> IF clients[k] \in S THEN NoChild ELSE clients[k]]

(* A step that pools no child and gives none to anybody.                   *)
Loosens ==
  /\ UNCHANGED clients \/ \E S : Lost(S)
  /\ \A v \in Users :
       /\ child'[v] \in {child[v], NoChild}
       /\ child'[v] # NoChild => key'[v] = key[v]
       /\ key'[v] \in {key[v], NoKey}
       /\ at'[v] \notin Owning => child'[v] = NoChild
       /\ at'[v] = "starting" => at[v] = "starting" /\ child'[v] = child[v]
       /\ at'[v] = "ending" => key'[v] \in Hosted

LEMMA LossIsPartial ==
  ASSUME TypeOK, UNCHANGED clients \/ \E S : Lost(S)
  PROVE  /\ Pooled' \subseteq Pooled
         /\ \A k \in Keys : clients'[k] \in {clients[k], NoChild}
         /\ \A k \in Keys : clients[k] \in Pooled' => clients'[k] = clients[k]
<1>1. CASE UNCHANGED clients
  BY <1>1 DEF Pooled
<1>2. CASE \E S : Lost(S)
  <2>1. PICK S : Lost(S)
    BY <1>2
  <2>2. Pooled' = Pooled \ S
    BY <2>1 DEF Lost, Pooled
  <2> QED
    BY <2>1, <2>2 DEF Lost
<1> QED
  BY <1>1, <1>2

LEMMA LooseStep ==
  ASSUME PoolInv, Ownership, Loosens PROVE Ownership'
<1>t. TypeOK /\ ChildHeld /\ NoKey \notin Hosted /\ NoChild \notin Pooled'
  BY PoolAssumption DEF PoolInv, Pooled
<1>c. /\ Pooled' \subseteq Pooled
      /\ \A k \in Keys : clients'[k] \in {clients[k], NoChild}
      /\ \A k \in Keys : clients[k] \in Pooled' => clients'[k] = clients[k]
  BY <1>t, LossIsPartial DEF Loosens
<1>1. Unheld'
  BY DEF Loosens, Unheld
<1>2. Fresh'
  <2> SUFFICES ASSUME NEW u \in Users, at'[u] = "starting"
               PROVE  child'[u] \notin Pooled' /\ \A v \in Users \ {u} : child'[v] # child'[u]
    BY DEF Fresh
  <2>1. at[u] = "starting" /\ child'[u] = child[u]
    BY DEF Loosens
  <2>2. child[u] # NoChild
    BY <2>1, <1>t, PoolAssumption DEF ChildHeld
  <2>3. \A v \in Users \ {u} : child'[v] # child[u]
    BY <2>1, <2>2 DEF Loosens, Ownership, Fresh
  <2> QED
    BY <2>1, <2>3, <1>c DEF Ownership, Fresh
<1>3. PooledOnce'
  BY <1>c DEF Ownership, PooledOnce
<1>4. UnderItsKey'
  <2> SUFFICES ASSUME NEW u \in Users, child'[u] \in Pooled' 
               PROVE  key'[u] \in Keys /\ clients'[key'[u]] = child'[u]
    BY DEF UnderItsKey
  <2>1. child'[u] = child[u] /\ key'[u] = key[u]
    BY <1>t DEF Loosens
  <2>2. key[u] \in Keys /\ clients[key[u]] = child[u]
    BY <2>1, <1>c DEF Ownership, UnderItsKey
  <2> QED
    BY <2>1, <2>2, <1>c
<1>5. OneOfHosted'
  BY <1>t DEF Loosens, Ownership, OneOfHosted
<1>6. EndingIsHosted'
  BY DEF Loosens, EndingIsHosted
<1> QED
  BY <1>1, <1>2, <1>3, <1>4, <1>5, <1>6 DEF Ownership

(* Where the step of a user leaves the others.                             *)
Others(u) ==
  \A v \in Users \ {u} : at'[v] = at[v] /\ key'[v] = key[v] /\ child'[v] = child[v]

LEMMA StepOfOne ==
  ASSUME TypeOK, NEW u \in Users, Get(u) \/ Use(u) \/ \E k \in Keys : Request(u, k)
  PROVE  Others(u)
<1>t. /\ at \in [Users -> Stages]
      /\ key \in [Users -> Keys \union {NoKey}]
      /\ child \in [Users -> Children \union {NoChild}]
  BY DEF TypeOK
<1>1. CASE \E k \in Keys : Request(u, k)
  BY <1>1, <1>t DEF Request, Move, Others
<1>2. CASE Use(u)
  <2>1. CASE Register(u) \/ Unregister(u)
    BY <2>1, <1>t DEF Register, Unregister, Move, Others
  <2>2. CASE Release(u)
    BY <2>2, <1>t DEF Release, Others
  <2>3. CASE CloseClient(u)
    BY <2>3, <1>t DEF CloseClient, Move, Others
  <2> QED
    BY <1>2, <2>1, <2>2, <2>3 DEF Use
<1>3. CASE Get(u)
  <2>1. CASE SweepFirst(u) \/ Retire(u) \/ Find(u) \/ Miss(u)
    BY <2>1, <1>t DEF SweepFirst, Sweep, Retire, Find, TakePooled, Miss, Move, Others
  <2>2. CASE JoinGate(u) \/ EnterGate(u) \/ FindAgain(u) \/ MissAgain(u)
    BY <2>2, <1>t DEF JoinGate, EnterGate, FindAgain, TakePooled, MissAgain, Move, Others
  <2>3. CASE Reserve(u) \/ Exhausted(u) \/ Spawn(u)
    BY <2>3, <1>t DEF Reserve, Exhausted, Spawn, Move, Others
  <2>4. CASE StartFails(u) \/ Publish(u) \/ LeaveGate(u)
    BY <2>4, <1>t DEF StartFails, LeftBehind, Publish, LeaveGate, Move, Others
  <2> QED
    BY <1>3, <2>1, <2>2, <2>3, <2>4 DEF Get
<1> QED
  BY <1>1, <1>2, <1>3

(* What a user's own part of a step must do to be loose.                   *)
LEMMA LooseForOne ==
  ASSUME PoolInv, Ownership, NEW u \in Users, Others(u), UNCHANGED clients \/ \E S : Lost(S),
         /\ child'[u] \in {child[u], NoChild}
         /\ child'[u] # NoChild => key'[u] = key[u]
         /\ key'[u] \in {key[u], NoKey}
         /\ at'[u] \notin Owning => child'[u] = NoChild
         /\ at'[u] = "starting" => at[u] = "starting" /\ child'[u] = child[u]
         /\ at'[u] = "ending" => key'[u] \in Hosted
  PROVE  Ownership'
<1>1. ASSUME NEW v \in Users \ {u}
      PROVE  /\ child'[v] \in {child[v], NoChild}
             /\ child'[v] # NoChild => key'[v] = key[v]
             /\ key'[v] \in {key[v], NoKey}
             /\ at'[v] \notin Owning => child'[v] = NoChild
             /\ at'[v] = "starting" => at[v] = "starting" /\ child'[v] = child[v]
             /\ at'[v] = "ending" => key'[v] \in Hosted
  BY DEF Others, Ownership, Unheld, EndingIsHosted
<1>2. Loosens
  BY <1>1 DEF Loosens
<1> QED
  BY <1>2, LooseStep

(* The child of a pooled key is taken by one more user.                    *)
LEMMA TakenStep ==
  ASSUME PoolInv, Ownership, NEW u \in Users, Find(u) \/ FindAgain(u)
  PROVE  /\ Ownership'
         /\ clients[key[u]] \in Pooled /\ at[u] \notin Owning /\ at'[u] \in {"leaving", "using"}
<1>1. PICK from \in {"retired", "inside"}, to \in {"using", "leaving"} : TakePooled(u, from, to)
  BY DEF Find, FindAgain
<1>2. /\ at[u] = from /\ at' = [at EXCEPT ![u] = to]
      /\ clients[key[u]] \in alive
      /\ child' = [child EXCEPT ![u] = clients[key[u]]]
      /\ UNCHANGED <<clients, key>>
  BY <1>1 DEF TakePooled, Move
<1>t. TypeOK /\ NoChild \notin Children
  BY PoolAssumption DEF PoolInv
<1>o. Others(u)
  BY <1>t, StepOfOne DEF Get
<1>3. key[u] \in Keys
  BY <1>2 DEF PoolInv, GateInv, JoinedIsListed, InGet, InGate
<1>4. clients[key[u]] \in Pooled /\ clients[key[u]] # NoChild
  BY <1>2, <1>3, <1>t DEF Pooled, TypeOK
<1>5. at'[u] = to /\ child'[u] = clients[key[u]] /\ at[u] \notin Owning /\ Pooled' = Pooled
  BY <1>2, <1>t DEF TypeOK, Owning, Pooled
<1>6. Unheld'
  BY <1>5, <1>o DEF Ownership, Unheld, Others, Owning
<1>7. Fresh'
  <2> SUFFICES ASSUME NEW v \in Users, at'[v] = "starting"
               PROVE  child'[v] \notin Pooled' /\ \A w \in Users \ {v} : child'[w] # child'[v]
    BY DEF Fresh
  <2>1. v # u /\ at[v] = "starting" /\ child'[v] = child[v]
    BY <1>5, <1>o DEF Others
  <2>2. child[v] \notin Pooled /\ \A w \in Users \ {v} : child[w] # child[v]
    BY <2>1 DEF Ownership, Fresh
  <2> QED
    BY <2>1, <2>2, <1>4, <1>5, <1>o DEF Others
<1>8. PooledOnce'
  BY <1>2 DEF Ownership, PooledOnce
<1>9. UnderItsKey'
  BY <1>2, <1>3, <1>5, <1>o DEF Ownership, UnderItsKey, Others
<1>10. OneOfHosted'
  BY <1>2 DEF Ownership, OneOfHosted
<1>11. EndingIsHosted'
  BY <1>2, <1>5, <1>o DEF Ownership, EndingIsHosted, Others
<1> QED
  BY <1>4, <1>5, <1>6, <1>7, <1>8, <1>9, <1>10, <1>11 DEF Ownership

(* A started child enters the pool: it has been nobody else's, and its key *)
(* has been clear since the user is inside the gate.                       *)
LEMMA PublishedStep ==
  ASSUME PoolInv, Ownership, NEW u \in Users, Publish(u), ~closed
  PROVE  /\ Ownership'
         /\ at[u] = "starting" /\ at'[u] = "leaving"
         /\ child[u] \in Children \ Pooled /\ Pooled' = Pooled \union {child[u]}
<1>1. /\ at[u] = "starting" /\ at' = [at EXCEPT ![u] = "leaving"]
      /\ clients' = [clients EXCEPT ![key[u]] = child[u]]
      /\ UNCHANGED <<key, child>>
  BY DEF Publish, ClosedDuringStart, Move
<1>t. TypeOK /\ NoChild \notin Children
  BY PoolAssumption DEF PoolInv
<1>o. Others(u)
  BY <1>t, StepOfOne DEF Get
<1>2. /\ key[u] \in Keys /\ clients[key[u]] = NoChild
      /\ child[u] \in Children /\ child[u] # NoChild
  BY <1>1, <1>t DEF PoolInv, KeyClear, ChildHeld, GateInv, JoinedIsListed, InGet, InGate
<1>3. child[u] \notin Pooled /\ \A v \in Users \ {u} : child[v] # child[u]
  BY <1>1 DEF Ownership, Fresh
<1>4. \A k \in Keys : clients'[k] = IF k = key[u] THEN child[u] ELSE clients[k]
  BY <1>1, <1>2, <1>t DEF TypeOK
<1>5. Pooled' = Pooled \union {child[u]}
  BY <1>4, <1>2 DEF Pooled
<1>6. at'[u] = "leaving"
  BY <1>1, <1>t DEF TypeOK
<1>7. Unheld'
  BY <1>1, <1>6, <1>o DEF Ownership, Unheld, Others, Owning
<1>8. Fresh'
  BY <1>1, <1>3, <1>5, <1>6, <1>o DEF Ownership, Fresh, Others
<1>9. PooledOnce'
  BY <1>2, <1>3, <1>4 DEF Ownership, PooledOnce, Pooled
<1>10. UnderItsKey'
  <2> SUFFICES ASSUME NEW v \in Users, child[v] \in Pooled \union {child[u]}
               PROVE  key[v] \in Keys /\ clients'[key[v]] = child[v]
    BY <1>1, <1>5 DEF UnderItsKey
  <2>1. CASE v = u
    BY <2>1, <1>2, <1>4
  <2>2. CASE v # u
    <3>1. child[v] \in Pooled
      BY <2>2, <1>3
    <3>2. key[v] \in Keys /\ clients[key[v]] = child[v] /\ child[v] # NoChild
      BY <3>1 DEF Ownership, UnderItsKey, Pooled
    <3> QED
      BY <3>2, <1>2, <1>4
  <2> QED
    BY <2>1, <2>2
<1>11. OneOfHosted'
  BY <1>1 DEF Ownership, OneOfHosted
<1>12. EndingIsHosted'
  BY <1>1, <1>6, <1>o DEF Ownership, EndingIsHosted, Others
<1> QED
  BY <1>1, <1>2, <1>3, <1>5, <1>6, <1>7, <1>8, <1>9, <1>10, <1>11, <1>12 DEF Ownership

LEMMA OwnershipStep == ASSUME PoolInv, Ownership, Next PROVE Ownership'
<1>t. TypeOK /\ ChildHeld /\ NoChild \notin Children
  BY PoolAssumption DEF PoolInv
<1>u. Unheld /\ EndingIsHosted
  BY DEF Ownership
<1>w. ASSUME UNCHANGED users, UNCHANGED clients \/ \E S : Lost(S) PROVE Ownership'
  BY <1>w, <1>u, LooseStep DEF Loosens, users, Unheld, EndingIsHosted
<1>r. ASSUME NEW a, NEW S, Remove(a, S) PROVE Lost(S)
  BY <1>r DEF Remove, Lost
<1>1. ASSUME NEW u \in Users, NEW k \in Keys, Request(u, k) PROVE Ownership'
  <2>1. /\ at[u] = "out" /\ at' = [at EXCEPT ![u] = "entered"]
        /\ key' = [key EXCEPT ![u] = k]
        /\ k \in Hosted => \A v \in Users : key[v] # k
        /\ UNCHANGED <<clients, child>>
    BY <1>1 DEF Request, Move, pool
  <2>2. child[u] = NoChild /\ NoChild \notin Pooled /\ Pooled' = Pooled
    BY <2>1, <1>u DEF Unheld, Owning, Pooled
  <2>3. Unheld' /\ EndingIsHosted'
    BY <2>1, <2>2, <1>u, <1>t DEF Unheld, EndingIsHosted, TypeOK, Owning
  <2>4. Fresh'
    BY <2>1, <2>2, <1>t DEF Ownership, Fresh, TypeOK
  <2>5. PooledOnce'
    BY <2>1 DEF Ownership, PooledOnce
  <2>6. UnderItsKey'
    BY <2>1, <2>2, <1>t DEF Ownership, UnderItsKey, TypeOK
  <2>7. OneOfHosted'
    BY <2>1, <1>t DEF Ownership, OneOfHosted, TypeOK
  <2> QED
    BY <2>3, <2>4, <2>5, <2>6, <2>7 DEF Ownership
<1>2. ASSUME NEW u \in Users, Get(u) PROVE Ownership'
  <2>o. Others(u)
    BY <1>2, <1>t, StepOfOne
  <2>m. ASSUME NEW from, NEW to, Move(u, from, to), UNCHANGED <<key, child>>,
               UNCHANGED clients \/ \E S : Lost(S),
               from \notin Owning, to \notin Owning
        PROVE  Ownership'
    <3>1. at[u] = from /\ at'[u] = to
      BY <2>m, <1>t DEF Move, TypeOK
    <3>2. from \notin Owning => child[u] = NoChild
      BY <3>1, <1>u DEF Unheld
    <3> QED
      BY <2>m, <2>o, <3>1, <3>2, LooseForOne DEF Owning
  <2>1. CASE SweepFirst(u)
    BY <2>1, <2>m, <1>r DEF SweepFirst, Sweep, Owning
  <2>2. CASE Retire(u)
    BY <2>2, <2>m, <1>r DEF Retire, Owning
  <2>3. CASE MissAgain(u)
    BY <2>3, <2>m, <1>r DEF MissAgain, Owning
  <2>4. CASE Reserve(u)
    BY <2>4, <2>m, <1>r DEF Reserve, Owning
  <2>5. CASE Find(u) \/ FindAgain(u)
    BY <2>5, TakenStep
  <2>6. CASE Miss(u) \/ JoinGate(u) \/ EnterGate(u)
    BY <2>6, <2>m DEF Miss, JoinGate, EnterGate, pool, Owning
  <2>7. CASE Exhausted(u)
    <3>1. Lost(Evictable)
      BY <2>7 DEF Exhausted, Lost
    <3>2. /\ at[u] = "reserving" /\ at'[u] = "leaving" /\ child[u] = NoChild
          /\ UNCHANGED <<key, child>>
      BY <2>7, <1>t, <1>u DEF Exhausted, Move, TypeOK, Unheld, Owning
    <3> QED
      BY <3>1, <3>2, <2>o, LooseForOne
  <2>8. CASE Spawn(u)
    <3>1. PICK c \in Children \ (Pooled \union {child[v] : v \in Users}) :
            child' = [child EXCEPT ![u] = c]
      BY <2>8 DEF Spawn
    <3>2. at[u] = "spawning" /\ at' = [at EXCEPT ![u] = "starting"] /\ UNCHANGED <<clients, key>>
      BY <2>8 DEF Spawn, Move, pool
    <3>3. child'[u] = c /\ at'[u] = "starting" /\ Pooled' = Pooled
      BY <3>1, <3>2, <1>t DEF TypeOK, Pooled
    <3>4. Unheld' /\ EndingIsHosted'
      BY <3>2, <3>3, <2>o, <1>u DEF Unheld, EndingIsHosted, Others, Owning
    <3>5. Fresh'
      <4> SUFFICES ASSUME NEW v \in Users, at'[v] = "starting"
                   PROVE  /\ child'[v] \notin Pooled
                          /\ \A w \in Users \ {v} : child'[w] # child'[v]
        BY <3>3 DEF Fresh
      <4>1. CASE v = u
        BY <4>1, <3>1, <3>3, <2>o DEF Others
      <4>2. CASE v # u
        <5>1. at[v] = "starting" /\ child'[v] = child[v]
          BY <4>2, <2>o DEF Others
        <5>2. child[v] # c
          BY <3>1
        <5> QED
          BY <5>1, <5>2, <3>3, <2>o DEF Ownership, Fresh, Others
      <4> QED
        BY <4>1, <4>2
    <3>6. PooledOnce' /\ OneOfHosted'
      BY <3>2 DEF Ownership, PooledOnce, OneOfHosted
    <3>7. UnderItsKey'
      BY <3>1, <3>2, <3>3, <2>o DEF Ownership, UnderItsKey, Others
    <3> QED
      BY <3>4, <3>5, <3>6, <3>7 DEF Ownership
  <2>9. CASE StartFails(u)
    <3>1. at'[u] = "leaving" /\ child'[u] = NoChild /\ UNCHANGED <<key, clients>>
      BY <2>9, <1>t DEF StartFails, LeftBehind, TypeOK
    <3> QED
      BY <3>1, <2>o, LooseForOne DEF Owning
  <2>10. CASE Publish(u)
    <3>1. CASE closed
      <4>1. at'[u] = "leaving" /\ child'[u] = NoChild /\ UNCHANGED <<key, clients>>
        BY <2>10, <3>1, <1>t DEF Publish, ClosedDuringStart, Move, TypeOK
      <4> QED
        BY <4>1, <2>o, LooseForOne DEF Owning
    <3>2. CASE ~closed
      BY <2>10, <3>2, PublishedStep
    <3> QED
      BY <3>1, <3>2
  <2>11. CASE LeaveGate(u)
    <3>1. /\ at'[u] = IF child[u] = NoChild THEN "out" ELSE "using"
          /\ key'[u] = IF child[u] = NoChild THEN NoKey ELSE key[u]
          /\ UNCHANGED <<child, clients>>
      BY <2>11, <1>t DEF LeaveGate, TypeOK
    <3> QED
      BY <3>1, <2>o, LooseForOne DEF Owning
  <2> QED
    BY <1>2, <2>1, <2>2, <2>3, <2>4, <2>5, <2>6, <2>7, <2>8, <2>9, <2>10, <2>11 DEF Get
<1>3. ASSUME NEW u \in Users, Use(u) PROVE Ownership'
  <2>o. Others(u)
    BY <1>3, <1>t, StepOfOne
  <2>1. CASE Register(u) \/ Unregister(u)
    <3>1. at'[u] \in {"serving", "served"} /\ UNCHANGED <<key, child, clients>>
      BY <2>1, <1>t DEF Register, Unregister, Move, TypeOK, pool
    <3> QED
      BY <3>1, <2>o, LooseForOne DEF Owning
  <2>2. CASE Release(u)
    <3>1. \/ at'[u] = "ending" /\ key[u] \in Hosted /\ UNCHANGED <<key, child, clients>>
          \/ at'[u] = "out" /\ key'[u] = NoKey /\ child'[u] = NoChild /\ UNCHANGED clients
      BY <2>2, <1>t DEF Release, TypeOK
    <3> QED
      BY <3>1, <2>o, LooseForOne DEF Owning
  <2>3. CASE CloseClient(u)
    <3>1. at'[u] = "out" /\ key'[u] = NoKey /\ child'[u] = NoChild /\ Lost({child[u]})
      BY <2>3, <1>t, <1>r DEF CloseClient, Move, TypeOK
    <3> QED
      BY <3>1, <2>o, LooseForOne
  <2> QED
    BY <1>3, <2>1, <2>2, <2>3 DEF Use
<1>4. CASE SweepLater
  BY <1>4, <1>w, <1>r DEF SweepLater, Sweep, users
<1>5. CASE \E p \in Profiles : CloseProfile(p)
  BY <1>5, <1>w, <1>r DEF CloseProfile
<1>6. CASE CloseAll
  BY <1>6, <1>w, <1>r DEF CloseAll
<1>7. CASE (\E a \in Actors : Close(a)) \/ \E c \in Children : Dies(c)
  BY <1>7, <1>w DEF Close, Dies, pool
<1> QED
  BY <1>1, <1>2, <1>3, <1>4, <1>5, <1>6, <1>7 DEF Next

Holders(c) == {u \in Users : Holds(u, c)}

LEMMA FiniteHolders == \A c : IsFiniteSet(Holders(c)) /\ Cardinality(Holders(c)) \in Nat
  BY FS_Subset, FS_CardinalityType, PoolAssumption DEF Holders

(* The number of leases that a child should have.                          *)
Owed(c) == IF c \in Pooled THEN Cardinality(Holders(c)) ELSE 0

LEMMA LeasesOwed ==
  /\ LeasesExact <=> \A c \in Children : leases[c] = Owed(c)
  /\ LeasesExact' <=> \A c \in Children : leases'[c] = Owed(c)'
  BY DEF LeasesExact, Owed, Holders

(* A user that holds what it held before, as far as children go.           *)
LEMMA HoldersKept ==
  ASSUME NEW c, \A u \in Users : Holds(u, c)' <=> Holds(u, c)
  PROVE  Holders(c)' = Holders(c)
  BY DEF Holders

LEMMA HoldersOfOne ==
  ASSUME NEW u \in Users, Others(u), NEW c
  PROVE  /\ (Holds(u, c)' <=> Holds(u, c)) => Holders(c)' = Holders(c)
         /\ Holds(u, c)' /\ ~Holds(u, c) => u \notin Holders(c) /\ Holders(c)' = Holders(c) \union {u}
         /\ ~Holds(u, c)' /\ Holds(u, c) => u \in Holders(c) /\ Holders(c)' = Holders(c) \ {u}
  BY DEF Holders, Holds, Others

LEMMA LeasesKept ==
  ASSUME LeasesExact, UNCHANGED <<clients, leases>>,
         \A c \in Children : Holders(c)' = Holders(c)
  PROVE  LeasesExact'
<1> SUFFICES ASSUME NEW c \in Children PROVE leases[c] = Owed(c)'
  BY LeasesOwed
<1>1. leases[c] = Owed(c) /\ Pooled' = Pooled
  BY LeasesOwed DEF Pooled
<1> QED
  BY <1>1 DEF Owed

LEMMA LeasesRemoved ==
  ASSUME LeasesExact, NEW a, NEW S, Remove(a, S),
         \A c \in Children \ S : Holders(c)' = Holders(c)
  PROVE  LeasesExact'
<1> SUFFICES ASSUME NEW c \in Children PROVE leases'[c] = Owed(c)'
  BY LeasesOwed
<1>1. leases[c] = Owed(c) /\ Pooled' = Pooled \ S
  BY LeasesOwed, RemovedFromPool
<1>2. leases'[c] = IF c \in S THEN 0 ELSE leases[c]
  BY DEF Remove
<1> QED
  BY <1>1, <1>2 DEF Owed

LEMMA LeasesInit == Init => LeasesExact
<1> SUFFICES ASSUME Init PROVE LeasesExact
  OBVIOUS
<1>1. Pooled = {}
  BY DEF Init, Pooled
<1> QED
  BY <1>1 DEF Init, LeasesExact

(* One more user holds the pooled child c, and no other child.             *)
LEMMA LeasedOnce ==
  ASSUME PoolInv, LeasesExact, NEW u \in Users, Others(u), NEW c \in Children,
         leases' = Lease(c), c \in Pooled', Pooled' = Pooled \union {c},
         c \notin Pooled => Holders(c) = {},
         ~\E d \in Children : Holds(u, d),
         \A d \in Children : Holds(u, d)' <=> d = c
  PROVE  LeasesExact'
<1> SUFFICES ASSUME NEW d \in Children PROVE leases'[d] = Owed(d)'
  BY LeasesOwed
<1>1. leases[d] = Owed(d) /\ leases \in [Children -> Nat]
  BY LeasesOwed DEF PoolInv, TypeOK
<1>2. leases'[d] = IF d = c THEN leases[d] + 1 ELSE leases[d]
  BY <1>1 DEF Lease
<1>3. CASE d # c
  <2>1. Holders(d)' = Holders(d)
    BY <1>3, HoldersOfOne
  <2> QED
    BY <1>1, <1>2, <1>3, <2>1 DEF Owed
<1>4. CASE d = c
  <2>1. u \notin Holders(c) /\ Holders(c)' = Holders(c) \union {u}
    BY HoldersOfOne
  <2>2. Cardinality(Holders(c)') = Cardinality(Holders(c)) + 1
    BY <2>1, FiniteHolders, OneMoreOrLess
  <2>3. leases[c] = Cardinality(Holders(c))
    BY <1>1, <1>4, FS_EmptySet DEF Owed
  <2> QED
    BY <1>2, <1>4, <2>2, <2>3 DEF Owed
<1> QED
  BY <1>3, <1>4

LEMMA LeasesStep ==
  ASSUME PoolInv, Ownership, LeasesExact, Next PROVE LeasesExact'
<1>t. TypeOK /\ ChildHeld /\ NoChild \notin Children
  BY PoolAssumption DEF PoolInv
<1>u. Unheld
  BY DEF Ownership
<1>w. ASSUME UNCHANGED users, NEW c PROVE Holders(c)' = Holders(c)
  BY <1>w DEF users, Holders, Holds
(* A user that goes on without a child, or with the one it holds.          *)
<1>o. ASSUME NEW u \in Users, Others(u), UNCHANGED <<clients, leases>>,
             \A c \in Children : Holds(u, c)' <=> Holds(u, c)
      PROVE  LeasesExact'
  BY <1>o, HoldersOfOne, LeasesKept
<1>1. ASSUME NEW u \in Users, NEW k \in Keys, Request(u, k) PROVE LeasesExact'
  <2>1. Others(u) /\ at[u] = "out" /\ at'[u] = "entered" /\ UNCHANGED <<clients, leases>>
    BY <1>1, <1>t, StepOfOne DEF Request, Move, pool, TypeOK
  <2> QED
    BY <2>1, <1>o DEF Holds
<1>2. ASSUME NEW u \in Users, Get(u) PROVE LeasesExact'
  <2>o. Others(u)
    BY <1>2, <1>t, StepOfOne
  <2>m. ASSUME NEW from, from \notin Owning, NEW to, to \notin Owning \/ to = "leaving",
               Move(u, from, to), UNCHANGED child, NEW c \in Children
        PROVE  /\ ~Holds(u, c)' /\ ~Holds(u, c)
               /\ Holders(c)' = Holders(c)
    <3>1. at[u] = from /\ at'[u] = to
      BY <2>m, <1>t DEF Move, TypeOK
    <3>2. child[u] = NoChild
      BY <2>m, <3>1, <1>u DEF Unheld
    <3>3. ~Holds(u, c)' /\ ~Holds(u, c)
      BY <2>m, <3>2, <1>t DEF Holds
    <3> QED
      BY <3>3, <2>o, HoldersOfOne
  <2>1. CASE SweepFirst(u)
    <3>1. Move(u, "entered", "swept") /\ UNCHANGED child /\ \E S : Remove(u, S)
      BY <2>1 DEF SweepFirst, Sweep
    <3> QED
      BY <3>1, <2>m, LeasesRemoved DEF Owning
  <2>2. CASE Retire(u)
    BY <2>2, <2>m, LeasesRemoved DEF Retire, Owning
  <2>3. CASE MissAgain(u)
    BY <2>3, <2>m, LeasesRemoved DEF MissAgain, Owning
  <2>4. CASE Reserve(u)
    BY <2>4, <2>m, LeasesRemoved DEF Reserve, Owning
  <2>5. CASE Find(u) \/ FindAgain(u)
    <3>1. /\ clients[key[u]] \in Pooled /\ at[u] \notin Owning /\ at'[u] \in {"leaving", "using"}
      BY <2>5, TakenStep
    <3>2. /\ leases' = Lease(clients[key[u]])
          /\ child'[u] = clients[key[u]]
          /\ Pooled' = Pooled
      BY <2>5, <1>t DEF Find, FindAgain, TakePooled, TypeOK, Pooled
    <3>3. child[u] = NoChild /\ clients[key[u]] \in Children
      BY <3>1, <1>u, <1>t, PooledAreChildren DEF Unheld
    <3>4. ~\E d \in Children : Holds(u, d)
      BY <3>3, <1>t DEF Holds
    <3>5. \A d \in Children : Holds(u, d)' <=> d = clients[key[u]]
      BY <3>1, <3>2 DEF Holds
    <3> QED
      BY <3>1, <3>2, <3>3, <3>4, <3>5, <2>o, LeasedOnce
  <2>6. CASE Miss(u) \/ JoinGate(u) \/ EnterGate(u)
    <3>1. PICK from, to : from \notin Owning /\ to \notin Owning /\ Move(u, from, to)
      BY <2>6 DEF Miss, JoinGate, EnterGate, Owning
    <3>2. UNCHANGED <<clients, leases, child>>
      BY <2>6 DEF Miss, JoinGate, EnterGate, pool
    <3> QED
      BY <3>1, <3>2, <2>m, LeasesKept
  <2>7. CASE Exhausted(u)
    <3>1. UNCHANGED <<clients, leases, child>>
      BY <2>7, <1>t, NothingEvicted DEF Exhausted, TypeOK
    <3> QED
      BY <2>7, <3>1, <2>m, LeasesKept DEF Exhausted, Owning
  <2>8. CASE Spawn(u)
    <3>1. at[u] = "spawning" /\ at'[u] = "starting" /\ UNCHANGED <<clients, leases>>
      BY <2>8, <1>t DEF Spawn, Move, pool, TypeOK
    <3> QED
      BY <3>1, <2>o, <1>o DEF Holds
  <2>9. CASE StartFails(u)
    <3>1. /\ at[u] \in {"spawning", "starting"} /\ child'[u] = NoChild
          /\ UNCHANGED <<clients, leases>>
      BY <2>9, <1>t DEF StartFails, LeftBehind, Creating, TypeOK
    <3> QED
      BY <3>1, <2>o, <1>o, <1>t DEF Holds
  <2>10. CASE Publish(u)
    <3>1. CASE closed
      <4>1. at[u] = "starting" /\ child'[u] = NoChild /\ UNCHANGED <<clients, leases>>
        BY <2>10, <3>1, <1>t DEF Publish, ClosedDuringStart, Move, TypeOK
      <4> QED
        BY <4>1, <2>o, <1>o, <1>t DEF Holds
    <3>2. CASE ~closed
      <4>1. /\ at[u] = "starting" /\ at'[u] = "leaving"
            /\ child[u] \in Children \ Pooled /\ Pooled' = Pooled \union {child[u]}
        BY <2>10, <3>2, PublishedStep
      <4>2. leases' = Lease(child[u]) /\ child' = child
        BY <2>10, <3>2 DEF Publish, ClosedDuringStart
      <4>3. Holders(child[u]) = {}
        BY <4>1 DEF Ownership, Fresh, Holders, Holds
      <4>4. ~\E d \in Children : Holds(u, d)
        BY <4>1 DEF Holds
      <4>5. \A d \in Children : Holds(u, d)' <=> d = child[u]
        BY <4>1, <4>2 DEF Holds
      <4> QED
        BY <4>1, <4>2, <4>3, <4>4, <4>5, <2>o, LeasedOnce
    <3> QED
      BY <3>1, <3>2
  <2>11. CASE LeaveGate(u)
    <3>1. /\ at[u] = "leaving" /\ at'[u] = IF child[u] = NoChild THEN "out" ELSE "using"
          /\ UNCHANGED <<child, clients, leases>>
      BY <2>11, <1>t DEF LeaveGate, TypeOK
    <3> QED
      BY <3>1, <2>o, <1>o, <1>t DEF Holds
  <2> QED
    BY <1>2, <2>1, <2>2, <2>3, <2>4, <2>5, <2>6, <2>7, <2>8, <2>9, <2>10, <2>11 DEF Get
<1>3. ASSUME NEW u \in Users, Use(u) PROVE LeasesExact'
  <2>o. Others(u)
    BY <1>3, <1>t, StepOfOne
  <2>1. CASE Register(u) \/ Unregister(u)
    <3>1. /\ at[u] \in {"using", "serving"} /\ at'[u] \in {"serving", "served"}
          /\ UNCHANGED <<child, clients, leases>>
      BY <2>1, <1>t DEF Register, Unregister, Move, TypeOK, pool
    <3> QED
      BY <3>1, <2>o, <1>o DEF Holds
  <2>2. CASE Release(u)
    <3>1. /\ at[u] \in {"using", "served"} /\ UNCHANGED clients
          /\ leases' = [leases EXCEPT ![child[u]] = IF @ <= 1 THEN 0 ELSE @ - 1]
          /\ at'[u] = "ending" \/ child'[u] = NoChild
      BY <2>2, <1>t DEF Release, Released, TypeOK
    <3>2. child[u] \in Children /\ Pooled' = Pooled
      BY <3>1, <1>t DEF ChildHeld, Pooled
    <3>3. \A d \in Children : ~Holds(u, d)' /\ (Holds(u, d) <=> d = child[u])
      BY <3>1, <1>t DEF Holds
    <3> SUFFICES ASSUME NEW d \in Children PROVE leases'[d] = Owed(d)'
      BY LeasesOwed
    <3>4. leases[d] = Owed(d) /\ leases \in [Children -> Nat]
      BY <1>t, LeasesOwed DEF TypeOK
    <3>5. CASE d # child[u]
      <4>1. Holders(d)' = Holders(d) /\ leases'[d] = leases[d]
        BY <3>1, <3>3, <3>4, <3>5, <2>o, HoldersOfOne
      <4> QED
        BY <3>2, <3>4, <4>1 DEF Owed
    <3>6. CASE d = child[u]
      <4>1. u \in Holders(d) /\ Holders(d)' = Holders(d) \ {u}
        BY <3>3, <3>6, <2>o, HoldersOfOne
      <4>2. Cardinality(Holders(d)') = Cardinality(Holders(d)) - 1
        BY <4>1, FiniteHolders, OneMoreOrLess
      <4>3. Cardinality(Holders(d)') \in Nat /\ Cardinality(Holders(d)) \in Nat
        BY <4>1, FiniteHolders, FS_Subset, FS_CardinalityType
      <4>4. leases'[d] = IF leases[d] <= 1 THEN 0 ELSE leases[d] - 1
        BY <3>1, <3>4, <3>6
      <4>5. leases'[d] = IF d \in Pooled THEN Cardinality(Holders(d)') ELSE 0
        BY <3>4, <4>2, <4>3, <4>4 DEF Owed
      <4> QED
        BY <3>2, <4>5 DEF Owed
    <3> QED
      BY <3>5, <3>6
  <2>3. CASE CloseClient(u)
    <3>1. at[u] = "ending" /\ child'[u] = NoChild /\ Remove(u, {child[u]})
      BY <2>3, <1>t DEF CloseClient, Move, TypeOK
    <3>2. \A d \in Children : ~Holds(u, d)' /\ ~Holds(u, d)
      BY <3>1, <1>t DEF Holds
    <3>3. \A d \in Children : Holders(d)' = Holders(d)
      BY <3>2, <2>o, HoldersOfOne
    <3> QED
      BY <3>1, <3>3, LeasesRemoved
  <2> QED
    BY <1>3, <2>1, <2>2, <2>3 DEF Use
<1>4. CASE SweepLater
  <2>1. UNCHANGED users /\ \E S : Remove(Sweeper, S)
    BY <1>4 DEF SweepLater, Sweep, users
  <2> QED
    BY <2>1, <1>w, LeasesRemoved
<1>5. CASE \E p \in Profiles : CloseProfile(p)
  BY <1>5, <1>w, LeasesRemoved DEF CloseProfile
<1>6. CASE CloseAll
  BY <1>6, <1>w, LeasesRemoved DEF CloseAll
<1>7. CASE (\E a \in Actors : Close(a)) \/ \E c \in Children : Dies(c)
  BY <1>7, <1>w, LeasesKept DEF Close, Dies, pool
<1> QED
  BY <1>1, <1>2, <1>3, <1>4, <1>5, <1>6, <1>7 DEF Next

LeaseInv == PoolInv /\ Ownership /\ LeasesExact

LEMMA LeaseInvStep == ASSUME LeaseInv, [Next]_vars PROVE LeaseInv'
<1>1. PoolInv /\ Ownership /\ LeasesExact
  BY DEF LeaseInv
<1>2. CASE UNCHANGED vars
  <2>1. Ownership'
    BY <1>1, <1>2 DEF Ownership, Unheld, Fresh, PooledOnce, UnderItsKey, OneOfHosted, EndingIsHosted,
       Pooled, vars, pool, users
  <2>2. LeasesExact'
    BY <1>1, <1>2 DEF LeasesExact, Pooled, Holds, vars, pool, users
  <2> QED
    BY <1>1, <2>1, <2>2, PoolStep DEF LeaseInv
<1>3. CASE Next
  BY <1>1, <1>3, PoolStep, OwnershipStep, LeasesStep DEF LeaseInv
<1> QED
  BY <1>2, <1>3

(* What the counts of leases are for: who takes idle children out of the   *)
(* pool takes none that somebody holds, and a turn with hosted tools that  *)
(* closes its child is the only one to know it.                            *)
LEMMA HeldStep ==
  ASSUME LeaseInv, Next, NEW c \in Pooled, c \in alive, NEW u \in Users, Holds(u, c), c \notin Pooled'
  PROVE  c \in closing'[Admin] \union closing'[Main]
<1>t. TypeOK /\ Ownership /\ PoolInv /\ c \in Children /\ Admin \in Actors /\ Main \in Actors
  BY PooledAreChildren DEF LeaseInv, PoolInv, Actors
<1>n. clients' # clients
  BY DEF Pooled
<1>1. ~Idle(c) /\ leases[c] # 0 /\ c \notin Evictable
  <2>1. leases[c] = Cardinality(Holders(c))
    BY <1>t, LeasesOwed DEF LeaseInv, Owed
  <2>2. Holders(c) # {}
    BY DEF Holders
  <2>3. leases[c] # 0
    BY <2>1, <2>2, FiniteHolders, FS_EmptySet
  <2> QED
    BY <2>3 DEF Idle, Evictable
<1>r. ASSUME NEW a, NEW S, Remove(a, S) PROVE c \in S
  BY <1>r, RemovedFromPool
<1>s. ASSUME NEW a, Sweep(a) PROVE FALSE
  BY <1>s, <1>1, <1>r DEF Sweep
<1>2. ASSUME NEW v \in Users, Get(v) PROVE FALSE
  <2>1. CASE SweepFirst(v)
    BY <2>1, <1>s DEF SweepFirst
  <2>2. CASE Retire(v)
    BY <2>2, <1>1, <1>r DEF Retire
  <2>3. CASE MissAgain(v)
    BY <2>3, <1>r DEF MissAgain
  <2>4. CASE Reserve(v)
    BY <2>4, <1>1, <1>r DEF Reserve
  <2>5. CASE Exhausted(v)
    BY <2>5, <1>n, <1>t, NothingEvicted DEF Exhausted, TypeOK
  <2>6. CASE Publish(v)
    <3>1. CASE closed
      BY <2>6, <3>1, <1>n DEF Publish, ClosedDuringStart
    <3>2. CASE ~closed
      BY <2>6, <3>2, <1>t, PublishedStep
    <3> QED
      BY <3>1, <3>2
  <2>7. CASE Find(v) \/ Miss(v) \/ JoinGate(v) \/ EnterGate(v) \/ FindAgain(v) \/ Spawn(v)
             \/ StartFails(v) \/ LeaveGate(v)
    BY <2>7, <1>n DEF Find, Miss, JoinGate, EnterGate, FindAgain, Spawn, StartFails, LeftBehind, LeaveGate,
       TakePooled, pool
  <2> QED
    BY <1>2, <2>1, <2>2, <2>3, <2>4, <2>5, <2>6, <2>7 DEF Get
<1>3. ASSUME NEW v \in Users, Use(v) PROVE FALSE
  <2>1. CloseClient(v)
    BY <1>3, <1>n DEF Use, Register, Unregister, Release, pool
  <2>2. at[v] = "ending" /\ child[v] = c
    BY <2>1, <1>r DEF CloseClient, Move
  <2>3. child[u] = c /\ u # v
    BY <2>2 DEF Holds
  <2>4. key[u] \in Keys /\ key[v] \in Keys /\ clients[key[u]] = c /\ clients[key[v]] = c
    BY <1>t, <2>2, <2>3 DEF Ownership, UnderItsKey
  <2>5. key[u] = key[v]
    BY <1>t, <2>4 DEF Ownership, PooledOnce, Pooled
  <2> QED
    BY <1>t, <2>2, <2>3, <2>5 DEF Ownership, OneOfHosted, EndingIsHosted
<1>4. CASE SweepLater
  BY <1>4, <1>s DEF SweepLater
<1>5. CASE \E p \in Profiles : CloseProfile(p)
  <2>1. PICK S : Remove(Admin, S)
    BY <1>5 DEF CloseProfile
  <2> QED
    BY <2>1, <1>r, <1>t DEF Remove, TypeOK
<1>6. CASE CloseAll
  BY <1>6, <1>r, <1>t DEF CloseAll, Remove, TypeOK
<1>7. CASE \/ \E v \in Users, k \in Keys : Request(v, k)
           \/ \E a \in Actors : Close(a)
           \/ \E d \in Children : Dies(d)
  BY <1>7, <1>n DEF Request, Close, Dies, pool
<1> QED
  BY <1>2, <1>3, <1>4, <1>5, <1>6, <1>7 DEF Next

THEOREM LeaseInvariant == Spec => []LeaseInv
<1>1. Init => LeaseInv
  BY PoolInit, OwnershipInit, LeasesInit DEF LeaseInv
<1>2. LeaseInv /\ [Next]_vars => LeaseInv'
  BY LeaseInvStep
<1> QED
  BY <1>1, <1>2, PTL DEF Spec

(* Every variable of the pool keeps its type: what is pooled, leased or    *)
(* closed is a child, and no lease or slot is given back that was not taken*)
(* (the counts are numbers).                                               *)
THEOREM TypeCorrect == Spec => []TypeOK
<1>1. PoolInv => TypeOK
  BY DEF PoolInv
<1> QED
  BY <1>1, PoolInvariant, PTL

(* app_server.py, _leases: a pooled child has exactly one lease for each   *)
(* turn or account request that holds it and any other child has none, how-*)
(* ever check-outs, releases, evictions, closings and deaths interleave.   *)
THEOREM LeasesCount == Spec => []LeasesExact
<1>1. LeaseInv => LeasesExact
  BY DEF LeaseInv
<1> QED
  BY <1>1, LeaseInvariant, PTL

(* checkout, "hold it against idle-pool eviction": no sweep, retirement,   *)
(* eviction or closing by another turn takes a living child out of the pool*)
(* while somebody holds it; only an administrator and the shutdown do.     *)
THEOREM HeldChildStays == Spec => HeldIsKept
<1>1. LeaseInv /\ [Next]_vars
        => [\A c \in Pooled \intersect alive : \A u \in Users :
              Holds(u, c) /\ c \notin Pooled' => c \in closing'[Admin] \union closing'[Main]]_vars
  BY HeldStep
<1> QED
  BY <1>1, LeaseInvariant, PTL DEF Spec, HeldIsKept
=============================================================================
