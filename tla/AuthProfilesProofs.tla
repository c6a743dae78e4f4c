------------------------ MODULE AuthProfilesProofs ------------------------
(***************************************************************************)
(* Proofs about an auth profile, for any numbers of logins, threads, turns,*)
(* instances and credentials: old threads fail closed, and a logout leaves *)
(* nothing behind.                                                         *)
(***************************************************************************)
EXTENDS AuthProfiles, TLAPS

LogoutOps == {"logout", "delete"}
Ending == guard.at \in {"terminating", "removing", "forgetting"}

(* Each credential in use was made for the instance there is.              *)
FileIsOwn == file # Missing => madeIn[file] = profile.instance
ChildrenAreOwn ==
  \A k \in Prints : child[k] \notin {NoChild, Missing} => madeIn[child[k]] = profile.instance
LoginsAreOwn ==
  \A s \in Sessions :
    /\ Live(s) => s = current /\ session[s].instance = profile.instance
    /\ s = current /\ session[s].process \in {"stored", "succeeded"} =>
         \E k \in 1..Len(madeIn) : madeIn[k] = profile.instance

(* Turns with a child, or about to get one, belong to that instance.       *)
TurnsAreBound ==
  \A u \in Turns :
    /\ turn[u].at \in {"binding", "running"} => turn[u].instance = profile.instance
    /\ turn[u].at = "running" => Open(turn[u].key)
    /\ turn[u].at = "binding" => guard.op = "turn" /\ \A v \in Turns : turn[v].at = "binding" => v = u

(* Without a row there is nothing; a logout takes it apart step by step.   *)
NothingWithoutRow ==
  profile.instance = NoInstance =>
    file = Missing /\ current = NoSession /\ \A k \in Prints : ~Open(k)
LogoutSteps ==
  /\ Ending => guard.op \in LogoutOps /\ \A k \in Prints : ~Open(k)
  /\ guard.at \in {"removing", "forgetting"} => \A s \in Sessions : ~Live(s)
  /\ guard.at \in {"removing", "forgetting"} /\ guard.op = "delete" => current = NoSession
  /\ guard.at = "forgetting" => file = Missing
  /\ guard.op \in LogoutOps => Ending
GuardedReads ==
  /\ guard.op = "probe" => file # Missing
  /\ guard.op \in {"turn", "account"} => profile.instance # NoInstance

ProfileInv ==
  /\ TypeOK
  /\ FileIsOwn
  /\ ChildrenAreOwn
  /\ LoginsAreOwn
  /\ TurnsAreBound
  /\ NothingWithoutRow
  /\ LogoutSteps
  /\ GuardedReads
  /\ AuthenticatedWasLoggedIn

-----------------------------------------------------------------------------
(* What a step may do to the row, unless it deletes the profile.           *)
RowMoves ==
  \/ UNCHANGED profile
  \/ profile'.instance # NoInstance /\ (profile.instance # NoInstance => profile'.instance = profile.instance)

LEMMA EnsureFacts ==
  ASSUME RowType, EnsureRow
  PROVE  /\ RowType' /\ RowMoves
         /\ profile'.instance = Ensured.instance /\ profile'.instance # NoInstance
         /\ profile'.status = "authenticated" => profile' = profile
  BY DEF RowType, RowMoves, EnsureRow, Ensured, CountInstances, NoInstance, Statuses, NoPrint

LEMMA UpdateFacts ==
  ASSUME RowType, NEW status \in Statuses, NEW print \in Prints \union {NoPrint}, UpdateStatus(status, print)
  PROVE  /\ RowType' /\ RowMoves
         /\ profile'.instance = Ensured.instance /\ profile'.instance # NoInstance
         /\ profile'.status = status
  BY DEF RowType, RowMoves, UpdateStatus, Ensured, CountInstances, NoInstance, Statuses, NoPrint

LEMMA UpdatedInstance ==
  ASSUME RowType, NEW status, NEW print, UpdateStatus(status, print)
  PROVE  profile'.instance = Ensured.instance /\ profile'.instance \in Nat \ {NoInstance}
  BY DEF RowType, UpdateStatus, Ensured, NoInstance

(* What a step may do to the credential file: a new credential is the last *)
(* of madeIn, and is made for the instance there is.                       *)
DiskMoves ==
  \/ UNCHANGED disk
  \/ file' = Missing /\ UNCHANGED madeIn
  \/ profile'.instance # NoInstance /\ Write(profile'.instance)

LEMMA WriteFacts ==
  ASSUME DiskType, NEW i \in Nat, Write(i)
  PROVE  /\ DiskType' /\ Len(madeIn') = Len(madeIn) + 1
         /\ file' = Len(madeIn') /\ file' \in Prints /\ file' # Missing /\ madeIn'[file'] = i
         /\ \A k \in 1..Len(madeIn) : madeIn'[k] = madeIn[k]
  BY ProfileAssumption DEF DiskType, Write, Prints, Missing

LEMMA DiskFacts ==
  ASSUME DiskType, profile'.instance \in Nat, DiskMoves
  PROVE  /\ \A k \in 1..Len(madeIn) : k \in 1..Len(madeIn') /\ madeIn'[k] = madeIn[k]
         /\ file' # Missing => \/ UNCHANGED disk
                               \/ profile'.instance # NoInstance /\ madeIn'[file'] = profile'.instance
<1>1. CASE UNCHANGED disk
  BY <1>1 DEF disk
<1>2. CASE file' = Missing /\ UNCHANGED madeIn
  BY <1>2
<1>3. CASE profile'.instance # NoInstance /\ Write(profile'.instance)
  <2>1. /\ Len(madeIn') = Len(madeIn) + 1 /\ madeIn'[file'] = profile'.instance
        /\ \A k \in 1..Len(madeIn) : madeIn'[k] = madeIn[k]
    BY <1>3, WriteFacts
  <2> QED
    BY <2>1, <1>3 DEF DiskType
<1> QED
  BY <1>1, <1>2, <1>3 DEF DiskMoves

ChildrenMove ==
  \A k \in Prints : \/ child'[k] \in {child[k], NoChild}
                    \/ child'[k] = file' /\ profile'.instance # NoInstance
(* Closing children takes them from the turns that run on them.            *)
TurnsMove ==
  \A u \in Turns : turn'[u].at \in {"binding", "running"} =>
    turn'[u] = turn[u] /\ (turn[u].at = "running" => child'[turn[u].key] # NoChild)

LEMMA CloseFacts ==
  ASSUME ChildType, TurnType, NEW K \in SUBSET Prints, CloseChildren(K), UNCHANGED madeIn,
         \A u \in Turns : turn[u].at = "running" => Open(turn[u].key)
  PROVE  /\ ChildType' /\ TurnType' /\ ChildrenMove /\ TurnsMove
         /\ \A k \in K : ~Open(k)'
         /\ \A k \in Prints : ~Open(k) => ~Open(k)'
<1>1. ChildType' /\ ChildrenMove /\ (\A k \in Prints : child'[k] = IF k \in K THEN NoChild ELSE child[k])
  BY DEF ChildType, CloseChildren, NoChild, ChildrenMove
<1>2. ASSUME NEW u \in Turns
      PROVE  /\ turn'[u] \in [at : TurnStages, instance : Nat, key : Prints, seen : Prints]
             /\ turn'[u].at \in {"binding", "running"} =>
                  turn'[u] = turn[u] /\ (turn[u].at = "running" => turn[u].key \notin K)
  BY <1>2 DEF TurnType, CloseChildren, Cut, TurnStages
<1>3. TurnType'
  BY <1>2 DEF TurnType, CloseChildren, Cut
<1>4. TurnsMove
  BY <1>1, <1>2 DEF TurnsMove, TurnType, Open
<1> QED
  BY <1>1, <1>3, <1>4 DEF Open

-----------------------------------------------------------------------------
(* Steps of these kinds that leave the logins alone keep the credentials   *)
(* apart.                                                                  *)
LEMMA CredentialsKept ==
  ASSUME TypeOK, TypeOK', FileIsOwn, ChildrenAreOwn, NothingWithoutRow,
         RowMoves, DiskMoves, ChildrenMove
  PROVE  FileIsOwn' /\ ChildrenAreOwn'
<1>0. DiskType /\ DiskType' /\ profile'.instance \in Nat
  BY DEF TypeOK, RowType
<1>1. FileIsOwn'
  BY DiskFacts, <1>0 DEF FileIsOwn, NothingWithoutRow, RowMoves, disk, Missing, NoInstance
<1>2. \A k \in 1..Len(madeIn) : k \in 1..Len(madeIn') /\ madeIn'[k] = madeIn[k]
  BY DiskFacts, <1>0
<1>3. \A k \in Prints : child[k] \notin {NoChild, Missing} => child[k] \in 1..Len(madeIn)
  BY DEF TypeOK, ChildType, NoChild, Missing
<1>4. ASSUME NEW k \in Prints, child'[k] \notin {NoChild, Missing}
      PROVE  madeIn'[child'[k]] = profile'.instance
  <2>1. CASE child'[k] = child[k]
    BY <2>1, <1>2, <1>3, <1>4 DEF ChildrenAreOwn, NothingWithoutRow, Open, RowMoves, NoInstance
  <2>2. CASE child'[k] = file'
    BY <2>2, <1>1, <1>4 DEF FileIsOwn
  <2> QED
    BY <2>1, <2>2, <1>4 DEF ChildrenMove
<1> QED
  BY <1>1, <1>4 DEF ChildrenAreOwn

LEMMA LoginsKept ==
  ASSUME TypeOK, TypeOK', LoginsAreOwn, NothingWithoutRow, RowMoves, DiskMoves, ChildrenMove,
         UNCHANGED logins
  PROVE  LoginsAreOwn' /\ NothingWithoutRow'
<1>0. DiskType /\ DiskType' /\ profile'.instance \in Nat
  BY DEF TypeOK, RowType
<1>1. \A k \in 1..Len(madeIn) : k \in 1..Len(madeIn') /\ madeIn'[k] = madeIn[k]
  BY DiskFacts, <1>0
<1>2. current # NoSession => profile'.instance = profile.instance
  BY DEF NothingWithoutRow, RowMoves, NoInstance
<1>3. LoginsAreOwn'
  BY <1>1, <1>2, ProfileAssumption DEF TypeOK, LoginType, LoginsAreOwn, logins, Live
<1>4. NothingWithoutRow'
  BY DiskFacts, <1>0 DEF NothingWithoutRow, RowMoves, ChildrenMove, disk, logins, Open, NoInstance, NoChild
<1> QED
  BY <1>3, <1>4

LEMMA TurnsKept ==
  ASSUME TurnType, TurnsAreBound, NothingWithoutRow, GuardedReads, RowMoves, TurnsMove,
         UNCHANGED guard \/ guard.op # "turn"
  PROVE  TurnsAreBound'
<1> SUFFICES ASSUME NEW u \in Turns, turn'[u].at \in {"binding", "running"}
             PROVE  /\ turn'[u].instance = profile'.instance
                    /\ turn'[u].at = "running" => Open(turn[u].key)'
                    /\ turn'[u].at = "binding" =>
                         guard'.op = "turn" /\ \A v \in Turns : turn'[v].at = "binding" => v = u
  BY DEF TurnsAreBound, TurnsMove
<1>1. turn'[u] = turn[u] /\ turn[u].key \in Prints
  BY DEF TurnsMove, TurnType
<1>2. profile'.instance = profile.instance
  BY <1>1 DEF TurnsAreBound, NothingWithoutRow, GuardedReads, RowMoves
<1> QED
  BY <1>1, <1>2 DEF TurnsAreBound, TurnsMove, Open

LEMMA ReportKept ==
  ASSUME TypeOK, TypeOK', AuthenticatedWasLoggedIn, DiskMoves,
         profile'.status = "authenticated" =>
           profile' = profile \/ \E k \in 1..Len(madeIn') : madeIn'[k] = profile'.instance
  PROVE  AuthenticatedWasLoggedIn'
<1>0. DiskType /\ DiskType' /\ profile'.instance \in Nat
  BY DEF TypeOK, RowType
<1>1. \A k \in 1..Len(madeIn) : k \in 1..Len(madeIn') /\ madeIn'[k] = madeIn[k]
  BY DiskFacts, <1>0
<1> QED
  BY <1>1 DEF AuthenticatedWasLoggedIn

LEMMA ChildrenStay ==
  ASSUME TurnsAreBound, UNCHANGED <<turn, child>>
  PROVE  ChildrenMove /\ TurnsMove
  BY DEF TurnsAreBound, ChildrenMove, TurnsMove, Open

LEMMA PrintFacts ==
  ASSUME ProfileInv
  PROVE  file \in Prints /\ Missing \in Prints
  BY ProfileAssumption DEF ProfileInv, TypeOK, DiskType, Prints, Missing

(* Who takes or leaves the guard in these ways is no logout.               *)
LEMMA QuietGuard ==
  ASSUME guard'.at \in {"none", "asking"}, guard'.op \notin LogoutOps
  PROVE  LogoutSteps'
  BY DEF LogoutSteps, Ending, LogoutOps

LEMMA GuardLeft ==
  ASSUME ProfileInv, Leave
  PROVE  GuardType' /\ LogoutSteps' /\ GuardedReads'
<1>1. guard' = Nobody
  BY DEF Leave
<1>2. GuardType'
  BY <1>1, PrintFacts DEF GuardType, Nobody, Requests, Stages
<1>3. LogoutSteps'
  BY <1>1, QuietGuard DEF Nobody, LogoutOps
<1> QED
  BY <1>1, <1>2, <1>3 DEF GuardedReads, Nobody

LEMMA GuardSame ==
  ASSUME ProfileInv, UNCHANGED <<guard, disk, logins>>, RowMoves,
         \A k \in Prints : ~Open(k) => ~Open(k)'
  PROVE  GuardType' /\ LogoutSteps' /\ GuardedReads'
<1>1. GuardType'
  BY DEF ProfileInv, TypeOK, GuardType
<1>2. LogoutSteps'
  BY DEF ProfileInv, LogoutSteps, Ending, disk, logins, Live
<1>3. GuardedReads'
  BY DEF ProfileInv, GuardedReads, RowMoves, disk
<1> QED
  BY <1>1, <1>2, <1>3

(* A step of these kinds that leaves the logins alone keeps everything.    *)
LEMMA Kept ==
  ASSUME ProfileInv, RowType' /\ RowMoves, DiskType' /\ DiskMoves,
         ChildType' /\ TurnType' /\ ChildrenMove /\ TurnsMove,
         GuardType' /\ LogoutSteps' /\ GuardedReads',
         UNCHANGED guard \/ guard.op # "turn", UNCHANGED logins, RegistryType',
         profile'.status = "authenticated" =>
           profile' = profile \/ \E k \in 1..Len(madeIn') : madeIn'[k] = profile'.instance
  PROVE  ProfileInv'
<1>1. LoginType'
  BY DEF ProfileInv, TypeOK, LoginType, logins
<1>2. TypeOK'
  BY <1>1 DEF TypeOK
<1>3. FileIsOwn' /\ ChildrenAreOwn'
  BY <1>2, CredentialsKept DEF ProfileInv
<1>4. LoginsAreOwn' /\ NothingWithoutRow'
  BY <1>2, LoginsKept DEF ProfileInv
<1>5. TurnsAreBound'
  BY TurnsKept DEF ProfileInv, TypeOK
<1>6. AuthenticatedWasLoggedIn'
  BY <1>2, ReportKept DEF ProfileInv
<1> QED
  BY <1>2, <1>3, <1>4, <1>5, <1>6 DEF ProfileInv

(* A login's own steps leave the children and the turns alone.             *)
LEMMA KeptByLogin ==
  ASSUME ProfileInv, RowType' /\ RowMoves, DiskType' /\ DiskMoves, UNCHANGED <<turn, child>>,
         UNCHANGED guard \/ guard.op # "turn", GuardType' /\ LogoutSteps' /\ GuardedReads',
         LoginType' /\ LoginsAreOwn' /\ NothingWithoutRow', UNCHANGED registry,
         \/ UNCHANGED profile
         \/ profile'.status = "authenticated" =>
              profile' = profile \/ \E k \in 1..Len(madeIn') : madeIn'[k] = profile'.instance
  PROVE  ProfileInv'
<1>1. ChildrenMove /\ TurnsMove
  BY ChildrenStay DEF ProfileInv
<1>2. Len(madeIn) <= Len(madeIn')
  <2>1. CASE profile'.instance # NoInstance /\ Write(profile'.instance)
    <3>1. DiskType /\ Len(madeIn) \in Nat
      BY DEF ProfileInv, TypeOK, DiskType
    <3>2. profile'.instance \in Nat
      BY DEF RowType
    <3>3. Len(madeIn') = Len(madeIn) + 1
      BY <2>1, <3>1, <3>2, WriteFacts
    <3> QED
      BY <3>1, <3>3
  <2>2. CASE UNCHANGED madeIn
    BY <2>2 DEF ProfileInv, TypeOK, DiskType
  <2> QED
    BY <2>1, <2>2 DEF DiskMoves, disk
<1>3. ChildType'
  BY <1>2 DEF ProfileInv, TypeOK, ChildType, DiskType
<1>4. TypeOK'
  BY <1>3 DEF ProfileInv, TypeOK, TurnType, RegistryType, registry
<1>5. FileIsOwn' /\ ChildrenAreOwn'
  BY <1>1, <1>4, CredentialsKept DEF ProfileInv
<1>6. TurnsAreBound'
  BY <1>1, TurnsKept DEF ProfileInv, TypeOK
<1>7. AuthenticatedWasLoggedIn'
  BY <1>4, ReportKept DEF ProfileInv
<1> QED
  BY <1>4, <1>5, <1>6, <1>7 DEF ProfileInv

-----------------------------------------------------------------------------
LEMMA CloseAll ==
  ASSUME ProfileInv, CloseProfile
  PROVE  /\ ChildrenMove /\ TurnsMove /\ TurnType' /\ child' = [k \in Prints |-> NoChild]
<1>1. child' = [k \in Prints |-> NoChild] /\ turn' = Cut(Prints)
  BY DEF CloseProfile, CloseChildren
<1>2. ASSUME NEW u \in Turns
      PROVE  /\ turn'[u] \in [at : TurnStages, instance : Nat, key : Prints, seen : Prints]
             /\ turn'[u].at # "running"
             /\ turn'[u].at = "binding" => turn'[u] = turn[u] /\ turn[u].at # "running"
  BY <1>1 DEF ProfileInv, TypeOK, TurnType, Cut, TurnStages
<1>3. TurnType'
  BY <1>1, <1>2 DEF TurnType, Cut
<1> QED
  BY <1>1, <1>2, <1>3 DEF ChildrenMove, TurnsMove

(* Turns that leave their child, or that have none.                        *)
LEMMA TurnAway ==
  ASSUME ProfileInv, NEW u \in Turns, NEW r \in [at : TurnStages \ {"binding", "running"}, instance : Nat, key : Prints, seen : Prints],
         turn' = [turn EXCEPT ![u] = r], UNCHANGED <<disk, child>>
  PROVE  ChildType' /\ TurnType' /\ ChildrenMove /\ TurnsMove
<1>1. ChildType' /\ ChildrenMove
  BY DEF ProfileInv, TypeOK, ChildType, disk, ChildrenMove
<1>2. TurnType'
  BY DEF ProfileInv, TypeOK, TurnType
<1>3. ASSUME NEW v \in Turns, turn'[v].at \in {"binding", "running"}
      PROVE  turn'[v] = turn[v]
  <2>1. v # u
    BY <1>3 DEF ProfileInv, TypeOK, TurnType
  <2> QED
    BY <2>1 DEF ProfileInv, TypeOK, TurnType
<1>4. TurnsMove
  BY <1>3 DEF TurnsMove, ProfileInv, TurnsAreBound, Open
<1> QED
  BY <1>1, <1>2, <1>4

(* The row and the guard stay while a login that is not live gets no life. *)
LEMMA GuardStays ==
  ASSUME ProfileInv, UNCHANGED <<guard, profile, file, child, current>>, \A s \in Sessions : Live(s)' => Live(s)
  PROVE  GuardType' /\ LogoutSteps' /\ GuardedReads'
<1>1. GuardType'
  BY DEF ProfileInv, TypeOK, GuardType
<1>2. LogoutSteps'
  BY DEF ProfileInv, LogoutSteps, Ending, Open
<1> QED
  BY <1>1, <1>2 DEF ProfileInv, GuardedReads

LEMMA LoginStep ==
  ASSUME ProfileInv, NEW s \in Sessions, NEW r \in [state : LoginStates, process : Processes, instance : Nat],
         session' = [session EXCEPT ![s] = r], UNCHANGED <<row, disk, guard, current, registry, turn, child>>,
         r.process \in {"running", "stored"} => r.process = session[s].process /\ r.instance = session[s].instance,
         r.process = "succeeded" => session[s].process \in {"stored", "succeeded"}
  PROVE  ProfileInv'
<1>1. RowType' /\ RowMoves /\ UNCHANGED profile
  BY DEF ProfileInv, TypeOK, RowType, RowMoves, row
<1>2. DiskType' /\ DiskMoves
  BY DEF ProfileInv, TypeOK, DiskType, DiskMoves, disk
<1>3. LoginType'
  BY DEF LoginType, ProfileInv, TypeOK
<1>4. ASSUME NEW t \in Sessions
      PROVE  /\ Live(t)' => Live(t) /\ session'[t].instance = session[t].instance
             /\ session'[t].process \in {"stored", "succeeded"} => session[t].process \in {"stored", "succeeded"}
  BY DEF Live, ProfileInv, TypeOK, LoginType
<1>5. LoginsAreOwn'
  BY <1>1, <1>4 DEF LoginsAreOwn, ProfileInv, disk
<1>6. NothingWithoutRow'
  BY <1>1 DEF ProfileInv, NothingWithoutRow, disk, Open
<1>7. GuardType' /\ LogoutSteps' /\ GuardedReads'
  BY <1>1, <1>4, GuardStays DEF disk
<1> QED
  BY <1>1, <1>2, <1>3, <1>5, <1>6, <1>7, KeptByLogin

LEMMA BeginStatusKeeps ==
  ASSUME ProfileInv, BeginStatus
  PROVE  ProfileInv'
<1>1. RowType' /\ RowMoves /\ profile'.instance # NoInstance /\ (profile'.status = "authenticated" => profile' = profile)
  BY EnsureFacts DEF BeginStatus, ProfileInv, TypeOK
<1>2. DiskType' /\ DiskMoves
  BY DEF BeginStatus, ProfileInv, TypeOK, DiskType, DiskMoves, disk
<1>3. ChildType' /\ TurnType' /\ ChildrenMove /\ TurnsMove
  BY ChildrenStay DEF BeginStatus, ProfileInv, TypeOK, ChildType, TurnType, disk
<1>4. GuardType' /\ LogoutSteps' /\ GuardedReads' /\ guard.op # "turn"
  <2>1. guard' = [op |-> "status", at |-> "asking", seen |-> file, failed |-> profile'.failed]
    BY DEF BeginStatus
  <2>2. guard'.at = "asking" /\ guard'.op = "status" /\ guard.op = "none"
    BY <2>1 DEF BeginStatus, Free, Nobody
  <2>3. file \in Prints
    BY PrintFacts
  <2>4. GuardType'
    BY <2>1, <2>3, <1>1 DEF GuardType, RowType, Requests, Stages
  <2>5. LogoutSteps'
    BY <2>2, QuietGuard DEF LogoutOps
  <2> QED
    BY <2>2, <2>4, <2>5, <1>1 DEF GuardedReads, BeginStatus, disk
<1>5. RegistryType'
  BY DEF BeginStatus, ProfileInv, TypeOK, RegistryType, registry
<1> QED
  BY <1>1, <1>2, <1>3, <1>4, <1>5, Kept DEF BeginStatus

LEMMA BeginProbeKeeps ==
  ASSUME ProfileInv, BeginProbe
  PROVE  ProfileInv'
<1>1. RowType' /\ RowMoves /\ profile'.instance # NoInstance /\ (profile'.status = "authenticated" => profile' = profile)
  BY EnsureFacts DEF BeginProbe, ProfileInv, TypeOK
<1>2. DiskType' /\ DiskMoves
  BY DEF BeginProbe, ProfileInv, TypeOK, DiskType, DiskMoves, disk
<1>3. ChildType' /\ TurnType' /\ ChildrenMove /\ TurnsMove
  BY ChildrenStay DEF BeginProbe, ProfileInv, TypeOK, ChildType, TurnType, disk
<1>4. GuardType' /\ LogoutSteps' /\ GuardedReads' /\ guard.op # "turn"
  <2>1. guard' = [op |-> "probe", at |-> "asking", seen |-> file, failed |-> NoPrint]
    BY DEF BeginProbe, TakeReading
  <2>2. guard'.at = "asking" /\ guard'.op = "probe" /\ guard.op = "none"
    BY <2>1 DEF BeginProbe, Free, Nobody
  <2>3. file \in Prints
    BY PrintFacts
  <2>4. GuardType'
    BY <2>1, <2>3, <1>1 DEF GuardType, RowType, Requests, Stages
  <2>5. LogoutSteps'
    BY <2>2, QuietGuard DEF LogoutOps
  <2> QED
    BY <2>2, <2>4, <2>5, <1>1 DEF GuardedReads, BeginProbe, disk
<1>5. RegistryType'
  BY DEF BeginProbe, ProfileInv, TypeOK, RegistryType, registry
<1> QED
  BY <1>1, <1>2, <1>3, <1>4, <1>5, Kept DEF BeginProbe

LEMMA EndStatusKeeps ==
  ASSUME ProfileInv, EndStatus
  PROVE  ProfileInv'
<1>1. RowType' /\ RowMoves /\ (profile'.status = "authenticated" => file # Missing)
  <2>1. PICK answer \in {"other"} \union IF file = Missing THEN {} ELSE {"authenticated"} :
               UpdateStatus(IF guard.failed = file THEN "refresh_failed" ELSE answer, file)
    BY DEF EndStatus
  <2>2. file \in Prints /\ (answer = "authenticated" => file # Missing)
    BY <2>1, PrintFacts
  <2>3. CASE guard.failed = file
    <3>1. "refresh_failed" \in Statuses /\ UpdateStatus("refresh_failed", file)
      BY <2>1, <2>3 DEF Statuses
    <3> QED
      BY <2>2, <3>1, UpdateFacts DEF ProfileInv, TypeOK
  <2>4. CASE guard.failed # file
    <3>1. answer \in Statuses /\ UpdateStatus(answer, file)
      BY <2>1, <2>4 DEF Statuses
    <3> QED
      BY <2>2, <3>1, UpdateFacts DEF ProfileInv, TypeOK
  <2> QED
    BY <2>3, <2>4
<1>2. DiskType' /\ DiskMoves
  BY DEF EndStatus, ProfileInv, TypeOK, DiskType, DiskMoves, disk
<1>3. ChildType' /\ TurnType' /\ ChildrenMove /\ TurnsMove
  BY ChildrenStay DEF EndStatus, ProfileInv, TypeOK, ChildType, TurnType, disk
<1>4. GuardType' /\ LogoutSteps' /\ GuardedReads' /\ guard.op # "turn"
  BY GuardLeft DEF EndStatus, Holding
<1>5. RegistryType'
  BY DEF EndStatus, ProfileInv, TypeOK, RegistryType, registry
<1>6. profile'.status = "authenticated" => \E k \in 1..Len(madeIn') : madeIn'[k] = profile'.instance
  <2>1. SUFFICES ASSUME file # Missing PROVE \E k \in 1..Len(madeIn') : madeIn'[k] = profile'.instance
    BY <1>1
  <2>2. file \in 1..Len(madeIn) /\ madeIn[file] = profile.instance /\ profile.instance # NoInstance
    BY <2>1 DEF ProfileInv, TypeOK, DiskType, FileIsOwn, NothingWithoutRow, Missing
  <2> QED
    BY <2>2, <1>1 DEF RowMoves, EndStatus, disk
<1> QED
  BY <1>1, <1>2, <1>3, <1>4, <1>5, <1>6, Kept DEF EndStatus

LEMMA ProbeMissingKeeps ==
  ASSUME ProfileInv, ProbeMissing
  PROVE  ProfileInv'
<1>1. RowType' /\ RowMoves /\ profile'.status # "authenticated"
  <2>1. "other" \in Statuses /\ Missing \in Prints /\ UpdateStatus("other", Missing)
    BY PrintFacts DEF ProbeMissing, Statuses
  <2> QED
    BY <2>1, UpdateFacts DEF ProfileInv, TypeOK
<1>2. DiskType' /\ DiskMoves
  BY DEF ProbeMissing, ProfileInv, TypeOK, DiskType, DiskMoves, disk
<1>3. ChildType' /\ TurnType' /\ ChildrenMove /\ TurnsMove
  BY ChildrenStay DEF ProbeMissing, ProfileInv, TypeOK, ChildType, TurnType, disk
<1>4. GuardType' /\ LogoutSteps' /\ GuardedReads' /\ UNCHANGED guard
  BY <1>1, GuardSame DEF ProbeMissing, Open
<1>5. RegistryType'
  BY DEF ProbeMissing, ProfileInv, TypeOK, RegistryType, registry
<1> QED
  BY <1>1, <1>2, <1>3, <1>4, <1>5, Kept DEF ProbeMissing

LEMMA EndAccountRequestKeeps ==
  ASSUME ProfileInv, EndAccountRequest
  PROVE  ProfileInv'
<1>1. RowType' /\ RowMoves /\ UNCHANGED profile
  BY DEF EndAccountRequest, ProfileInv, TypeOK, RowType, RowMoves, row
<1>2. DiskType' /\ DiskMoves
  BY DEF EndAccountRequest, ProfileInv, TypeOK, DiskType, DiskMoves, disk
<1>3. ChildType' /\ TurnType' /\ ChildrenMove /\ TurnsMove
  BY ChildrenStay DEF EndAccountRequest, ProfileInv, TypeOK, ChildType, TurnType, disk
<1>4. GuardType' /\ LogoutSteps' /\ GuardedReads' /\ guard.op # "turn"
  BY GuardLeft DEF EndAccountRequest, Holding
<1>5. RegistryType'
  BY DEF EndAccountRequest, ProfileInv, TypeOK, RegistryType, registry
<1> QED
  BY <1>1, <1>2, <1>3, <1>4, <1>5, Kept DEF EndAccountRequest

LEMMA RecordLogoutKeeps ==
  ASSUME ProfileInv, RecordLogout
  PROVE  ProfileInv'
<1>1. RowType' /\ RowMoves /\ profile'.status # "authenticated"
  <2>1. "other" \in Statuses /\ file \in Prints /\ UpdateStatus("other", file)
    BY PrintFacts DEF RecordLogout, Statuses
  <2> QED
    BY <2>1, UpdateFacts DEF ProfileInv, TypeOK
<1>2. DiskType' /\ DiskMoves
  BY DEF RecordLogout, ProfileInv, TypeOK, DiskType, DiskMoves, disk
<1>3. ChildType' /\ TurnType' /\ ChildrenMove /\ TurnsMove
  BY ChildrenStay DEF RecordLogout, ProfileInv, TypeOK, ChildType, TurnType, disk
<1>4. GuardType' /\ LogoutSteps' /\ GuardedReads' /\ guard.op # "turn"
  BY GuardLeft DEF RecordLogout, Holding
<1>5. RegistryType'
  BY DEF RecordLogout, ProfileInv, TypeOK, RegistryType, registry
<1> QED
  BY <1>1, <1>2, <1>3, <1>4, <1>5, Kept DEF RecordLogout

LEMMA CreateThreadKeeps ==
  ASSUME ProfileInv, NEW t \in Threads, CreateThread(t)
  PROVE  ProfileInv'
<1>1. RowType' /\ RowMoves /\ profile'.instance # NoInstance /\ (profile'.status = "authenticated" => profile' = profile)
  BY EnsureFacts DEF CreateThread, ProfileInv, TypeOK
<1>2. DiskType' /\ DiskMoves
  BY DEF CreateThread, ProfileInv, TypeOK, DiskType, DiskMoves, disk
<1>3. ChildType' /\ TurnType' /\ ChildrenMove /\ TurnsMove
  BY ChildrenStay DEF CreateThread, ProfileInv, TypeOK, ChildType, TurnType, disk
<1>4. GuardType' /\ LogoutSteps' /\ GuardedReads' /\ UNCHANGED guard
  BY <1>1, GuardSame DEF CreateThread, Open
<1>5. RegistryType'
  BY <1>1 DEF CreateThread, ProfileInv, TypeOK, RegistryType, RowType
<1> QED
  BY <1>1, <1>2, <1>3, <1>4, <1>5, Kept DEF CreateThread

LEMMA ArchiveThreadKeeps ==
  ASSUME ProfileInv, NEW t \in Threads, ArchiveThread(t)
  PROVE  ProfileInv'
<1>1. RowType' /\ RowMoves /\ UNCHANGED profile
  BY DEF ArchiveThread, ProfileInv, TypeOK, RowType, RowMoves, row
<1>2. DiskType' /\ DiskMoves
  BY DEF ArchiveThread, ProfileInv, TypeOK, DiskType, DiskMoves, disk
<1>3. ChildType' /\ TurnType' /\ ChildrenMove /\ TurnsMove
  BY ChildrenStay DEF ArchiveThread, ProfileInv, TypeOK, ChildType, TurnType, disk
<1>4. GuardType' /\ LogoutSteps' /\ GuardedReads' /\ UNCHANGED guard
  BY <1>1, GuardSame DEF ArchiveThread, Open
<1>5. RegistryType'
  BY DEF ArchiveThread, ProfileInv, TypeOK, RegistryType
<1> QED
  BY <1>1, <1>2, <1>3, <1>4, <1>5, Kept DEF ArchiveThread

LEMMA CheckTurnKeeps ==
  ASSUME ProfileInv, NEW u \in Turns, NEW t \in Threads, CheckTurn(u, t)
  PROVE  ProfileInv'
<1>1. RowType' /\ RowMoves /\ (profile'.status = "authenticated" => profile' = profile)
  BY DEF CheckTurn, ProfileInv, TypeOK, RowType, RowMoves, row
<1>2. DiskType' /\ DiskMoves
  BY DEF CheckTurn, ProfileInv, TypeOK, DiskType, DiskMoves, disk
<1>3. ChildType' /\ TurnType' /\ ChildrenMove /\ TurnsMove
  <2>1. [at |-> "checked", instance |-> bound[t], key |-> Missing, seen |-> Missing] \in [at : TurnStages \ {"binding", "running"}, instance : Nat, key : Prints, seen : Prints]
    BY PrintFacts DEF CheckTurn, ProfileInv, TypeOK, TurnType, TurnStages, RegistryType
  <2>2. turn' = [turn EXCEPT ![u] = [at |-> "checked", instance |-> bound[t], key |-> Missing, seen |-> Missing]]
    BY DEF CheckTurn, ProfileInv, TypeOK, TurnType
  <2> QED
    BY <2>1, <2>2, TurnAway DEF CheckTurn
<1>4. GuardType' /\ LogoutSteps' /\ GuardedReads' /\ UNCHANGED guard
  BY <1>1, GuardSame DEF CheckTurn, Open
<1>5. RegistryType'
  BY DEF CheckTurn, ProfileInv, TypeOK, RegistryType, registry
<1> QED
  BY <1>1, <1>2, <1>3, <1>4, <1>5, Kept DEF CheckTurn

LEMMA InsertTurnKeeps ==
  ASSUME ProfileInv, NEW u \in Turns, InsertTurn(u)
  PROVE  ProfileInv'
<1>1. RowType' /\ RowMoves /\ (profile'.status = "authenticated" => profile' = profile)
  BY DEF InsertTurn, ProfileInv, TypeOK, RowType, RowMoves, row
<1>2. DiskType' /\ DiskMoves
  BY DEF InsertTurn, ProfileInv, TypeOK, DiskType, DiskMoves, disk
<1>3. ChildType' /\ TurnType' /\ ChildrenMove /\ TurnsMove
  <2>1. [turn[u] EXCEPT !.at = "queued"] \in [at : TurnStages \ {"binding", "running"}, instance : Nat, key : Prints, seen : Prints]
    BY PrintFacts DEF InsertTurn, ProfileInv, TypeOK, TurnType, TurnStages, RegistryType
  <2>2. turn' = [turn EXCEPT ![u] = [turn[u] EXCEPT !.at = "queued"]]
    BY DEF InsertTurn, ProfileInv, TypeOK, TurnType
  <2> QED
    BY <2>1, <2>2, TurnAway DEF InsertTurn
<1>4. GuardType' /\ LogoutSteps' /\ GuardedReads' /\ UNCHANGED guard
  BY <1>1, GuardSame DEF InsertTurn, Open
<1>5. RegistryType'
  BY DEF InsertTurn, ProfileInv, TypeOK, RegistryType, registry
<1> QED
  BY <1>1, <1>2, <1>3, <1>4, <1>5, Kept DEF InsertTurn

LEMMA EndTurnKeeps ==
  ASSUME ProfileInv, NEW u \in Turns, EndTurn(u)
  PROVE  ProfileInv'
<1>1. RowType' /\ RowMoves /\ (profile'.status = "authenticated" => profile' = profile)
  BY DEF EndTurn, ProfileInv, TypeOK, RowType, RowMoves, row
<1>2. DiskType' /\ DiskMoves
  BY DEF EndTurn, ProfileInv, TypeOK, DiskType, DiskMoves, disk
<1>3. ChildType' /\ TurnType' /\ ChildrenMove /\ TurnsMove
  <2>1. CASE turn' = [turn EXCEPT ![u] = Over]
    <3>1. Over \in [at : TurnStages \ {"binding", "running"}, instance : Nat, key : Prints, seen : Prints]
      BY PrintFacts DEF TurnStages, NoInstance, Over, NoTurn
    <3> QED
      BY <2>1, <3>1, TurnAway DEF EndTurn
  <2>2. CASE turn' = [turn EXCEPT ![u].at = "failing"]
    <3>1. [turn[u] EXCEPT !.at = "failing"] \in [at : TurnStages \ {"binding", "running"}, instance : Nat, key : Prints, seen : Prints]
      BY DEF ProfileInv, TypeOK, TurnType, TurnStages
    <3>2. turn' = [turn EXCEPT ![u] = [turn[u] EXCEPT !.at = "failing"]]
      BY <2>2 DEF ProfileInv, TypeOK, TurnType
    <3> QED
      BY <3>1, <3>2, TurnAway DEF EndTurn
  <2> QED
    BY <2>1, <2>2 DEF EndTurn
<1>4. GuardType' /\ LogoutSteps' /\ GuardedReads' /\ UNCHANGED guard
  BY <1>1, GuardSame DEF EndTurn, Open
<1>5. RegistryType'
  BY DEF EndTurn, ProfileInv, TypeOK, RegistryType, registry
<1> QED
  BY <1>1, <1>2, <1>3, <1>4, <1>5, Kept DEF EndTurn

LEMMA ReadFailedKeeps ==
  ASSUME ProfileInv, NEW u \in Turns, ReadFailed(u)
  PROVE  ProfileInv'
<1>1. RowType' /\ RowMoves /\ (profile'.status = "authenticated" => profile' = profile)
  BY EnsureFacts DEF ReadFailed, ProfileInv, TypeOK
<1>2. DiskType' /\ DiskMoves
  BY DEF ReadFailed, ProfileInv, TypeOK, DiskType, DiskMoves, disk
<1>3. ChildType' /\ TurnType' /\ ChildrenMove /\ TurnsMove
  <2>1. [turn[u] EXCEPT !.at = "marking", !.seen = file] \in [at : TurnStages \ {"binding", "running"}, instance : Nat, key : Prints, seen : Prints]
    BY PrintFacts DEF ReadFailed, ProfileInv, TypeOK, TurnType, TurnStages, RegistryType
  <2>2. turn' = [turn EXCEPT ![u] = [turn[u] EXCEPT !.at = "marking", !.seen = file]]
    BY DEF ReadFailed, ProfileInv, TypeOK, TurnType
  <2> QED
    BY <2>1, <2>2, TurnAway DEF ReadFailed
<1>4. GuardType' /\ LogoutSteps' /\ GuardedReads' /\ UNCHANGED guard
  BY <1>1, GuardSame DEF ReadFailed, Open
<1>5. RegistryType'
  BY DEF ReadFailed, ProfileInv, TypeOK, RegistryType, registry
<1> QED
  BY <1>1, <1>2, <1>3, <1>4, <1>5, Kept DEF ReadFailed

LEMMA MarkFailedKeeps ==
  ASSUME ProfileInv, NEW u \in Turns, MarkFailed(u)
  PROVE  ProfileInv'
<1>1. RowType' /\ RowMoves /\ (profile'.status = "authenticated" => profile' = profile)
  <2>1. "refresh_failed" \in Statuses /\ turn[u].seen \in Prints /\ UpdateStatus("refresh_failed", turn[u].seen)
    BY DEF MarkFailed, Statuses, ProfileInv, TypeOK, TurnType
  <2> QED
    BY <2>1, UpdateFacts DEF ProfileInv, TypeOK
<1>2. DiskType' /\ DiskMoves
  BY DEF MarkFailed, ProfileInv, TypeOK, DiskType, DiskMoves, disk
<1>3. ChildType' /\ TurnType' /\ ChildrenMove /\ TurnsMove
  <2>1. [turn[u] EXCEPT !.at = "closing"] \in [at : TurnStages \ {"binding", "running"}, instance : Nat, key : Prints, seen : Prints]
    BY PrintFacts DEF MarkFailed, ProfileInv, TypeOK, TurnType, TurnStages, RegistryType
  <2>2. turn' = [turn EXCEPT ![u] = [turn[u] EXCEPT !.at = "closing"]]
    BY DEF MarkFailed, ProfileInv, TypeOK, TurnType
  <2> QED
    BY <2>1, <2>2, TurnAway DEF MarkFailed
<1>4. GuardType' /\ LogoutSteps' /\ GuardedReads' /\ UNCHANGED guard
  BY <1>1, GuardSame DEF MarkFailed, Open
<1>5. RegistryType'
  BY DEF MarkFailed, ProfileInv, TypeOK, RegistryType, registry
<1> QED
  BY <1>1, <1>2, <1>3, <1>4, <1>5, Kept DEF MarkFailed

LEMMA BeginApiKeyKeeps ==
  ASSUME ProfileInv, BeginApiKey
  PROVE  ProfileInv'
<1>1. RowType' /\ RowMoves /\ (profile'.status = "authenticated" => profile' = profile)
  BY EnsureFacts DEF BeginApiKey, ProfileInv, TypeOK
<1>2. DiskType' /\ DiskMoves
  BY DEF BeginApiKey, ProfileInv, TypeOK, DiskType, DiskMoves, disk
<1>3. ChildType' /\ TurnType' /\ ChildrenMove /\ TurnsMove /\ \A k \in Prints : ~Open(k)'
  BY CloseFacts DEF BeginApiKey, CloseProfile, ProfileInv, TypeOK, TurnsAreBound, disk
<1>4. GuardType' /\ LogoutSteps' /\ GuardedReads' /\ guard.op # "turn"
  <2>1. guard' = [op |-> "api_key", at |-> "asking", seen |-> Missing, failed |-> NoPrint] /\ guard.op = "none"
    BY DEF BeginApiKey, Take, Free, Nobody
  <2>2. GuardType'
    BY <2>1, PrintFacts DEF GuardType, Requests, Stages
  <2>3. LogoutSteps'
    BY <2>1, QuietGuard DEF LogoutOps
  <2> QED
    BY <2>1, <2>2, <2>3 DEF GuardedReads
<1>5. RegistryType'
  BY DEF BeginApiKey, ProfileInv, TypeOK, RegistryType, registry
<1> QED
  BY <1>1, <1>2, <1>3, <1>4, <1>5, Kept DEF BeginApiKey

LEMMA InvalidateKeeps ==
  ASSUME ProfileInv, Invalidate
  PROVE  ProfileInv'
<1>1. RowType' /\ RowMoves /\ UNCHANGED profile
  BY DEF Invalidate, ProfileInv, TypeOK, RowType, RowMoves, row
<1>2. DiskType' /\ DiskMoves
  BY DEF Invalidate, ProfileInv, TypeOK, DiskType, DiskMoves, disk
<1>3. ChildType' /\ TurnType' /\ ChildrenMove /\ TurnsMove /\ \A k \in Prints : ~Open(k)'
  BY CloseFacts DEF Invalidate, CloseProfile, ProfileInv, TypeOK, TurnsAreBound, disk
<1>4. GuardType' /\ LogoutSteps' /\ GuardedReads' /\ UNCHANGED guard
  BY <1>1, <1>3, GuardSame DEF Invalidate
<1>5. RegistryType'
  BY DEF Invalidate, ProfileInv, TypeOK, RegistryType, registry
<1> QED
  BY <1>1, <1>2, <1>3, <1>4, <1>5, Kept DEF Invalidate

LEMMA BeginLogoutKeeps ==
  ASSUME ProfileInv, NEW op \in LogoutOps, BeginLogout(op)
  PROVE  ProfileInv'
<1>1. RowType' /\ RowMoves /\ UNCHANGED profile
  BY DEF BeginLogout, ProfileInv, TypeOK, RowType, RowMoves, row
<1>2. DiskType' /\ DiskMoves
  BY DEF BeginLogout, ProfileInv, TypeOK, DiskType, DiskMoves, disk
<1>3. ChildType' /\ TurnType' /\ ChildrenMove /\ TurnsMove /\ \A k \in Prints : ~Open(k)'
  BY CloseFacts DEF BeginLogout, CloseProfile, ProfileInv, TypeOK, TurnsAreBound, disk
<1>4. GuardType' /\ LogoutSteps' /\ GuardedReads' /\ guard.op # "turn"
  <2>1. guard' = [op |-> op, at |-> "terminating", seen |-> Missing, failed |-> NoPrint] /\ guard.op = "none"
    BY DEF BeginLogout, Take, Free, Nobody
  <2>2. GuardType'
    BY <2>1, PrintFacts DEF GuardType, Requests, Stages, LogoutOps
  <2>3. LogoutSteps'
    BY <2>1, <1>3 DEF LogoutSteps, Ending, LogoutOps
  <2> QED
    BY <2>1, <2>2, <2>3 DEF GuardedReads, LogoutOps
<1>5. RegistryType'
  BY DEF BeginLogout, ProfileInv, TypeOK, RegistryType, registry
<1> QED
  BY <1>1, <1>2, <1>3, <1>4, <1>5, Kept DEF BeginLogout

LEMMA ChildExitsKeeps ==
  ASSUME ProfileInv, NEW k \in Prints, ChildExits(k)
  PROVE  ProfileInv'
<1>1. RowType' /\ RowMoves /\ UNCHANGED profile
  BY DEF ChildExits, ProfileInv, TypeOK, RowType, RowMoves, row
<1>2. DiskType' /\ DiskMoves
  BY DEF ChildExits, ProfileInv, TypeOK, DiskType, DiskMoves, disk
<1>3. ChildType' /\ TurnType' /\ ChildrenMove /\ TurnsMove /\ \A j \in Prints : ~Open(j) => ~Open(j)'
  BY CloseFacts DEF ChildExits, ProfileInv, TypeOK, TurnsAreBound, disk
<1>4. GuardType' /\ LogoutSteps' /\ GuardedReads' /\ UNCHANGED guard
  BY <1>1, <1>3, GuardSame DEF ChildExits
<1>5. RegistryType'
  BY DEF ChildExits, ProfileInv, TypeOK, RegistryType, registry
<1> QED
  BY <1>1, <1>2, <1>3, <1>4, <1>5, Kept DEF ChildExits

LEMMA EndProbeKeeps ==
  ASSUME ProfileInv, EndProbe
  PROVE  ProfileInv'
<1>1. PICK answer \in {"authenticated", "refresh_failed", "other"} :
        /\ UpdateStatus(answer, file')
        /\ IF answer = "refresh_failed" \/ file' # guard.seen THEN CloseProfile ELSE UNCHANGED <<turn, child>>
  BY DEF EndProbe
<1>2. file # Missing /\ guard.op = "probe" /\ profile.instance # NoInstance /\ file \in 1..Len(madeIn)
      /\ madeIn[file] = profile.instance /\ profile.instance \in Nat
  BY DEF EndProbe, Holding, ProfileInv, GuardedReads, NothingWithoutRow, FileIsOwn, TypeOK, DiskType, RowType, Missing
<1>3. DiskType' /\ DiskMoves /\ file' \in 1..Len(madeIn') /\ madeIn'[file'] = profile.instance
      /\ Len(madeIn) <= Len(madeIn') /\ file' \in Prints
  <2>1. CASE UNCHANGED disk
    BY <1>2, <2>1, PrintFacts DEF disk, ProfileInv, TypeOK, DiskType, DiskMoves
  <2>2. CASE Write(profile.instance)
    <3>1. DiskType' /\ Len(madeIn') = Len(madeIn) + 1 /\ file' = Len(madeIn') /\ file' \in Prints
          /\ madeIn'[file'] = profile.instance
      BY <1>2, <2>2, WriteFacts DEF ProfileInv, TypeOK
    <3>2. profile'.instance = profile.instance
      BY <1>1, <1>2 DEF UpdateStatus, Ensured
    <3> QED
      BY <1>2, <2>2, <3>1, <3>2 DEF DiskMoves, DiskType, ProfileInv, TypeOK
  <2> QED
    BY <1>2, <2>1, <2>2 DEF EndProbe
<1>4. RowType' /\ RowMoves /\ profile'.instance = profile.instance
  <2>1. answer \in Statuses /\ file' \in Prints \union {NoPrint}
    BY <1>3 DEF Statuses
  <2>2. RowType' /\ RowMoves
    BY <1>1, <2>1, UpdateFacts DEF ProfileInv, TypeOK
  <2> QED
    BY <1>1, <1>2, <2>2 DEF UpdateStatus, Ensured
<1>5. ChildType' /\ TurnType' /\ ChildrenMove /\ TurnsMove
  <2>1. CASE CloseProfile
    <3>1. ChildrenMove /\ TurnsMove /\ TurnType' /\ child' = [k \in Prints |-> NoChild]
      BY <2>1, CloseAll DEF ProfileInv, TypeOK
    <3> QED
      BY <1>3, <3>1 DEF ChildType, NoChild, ProfileInv, TypeOK, DiskType
  <2>2. CASE UNCHANGED <<turn, child>>
    BY <1>3, <2>2, ChildrenStay DEF ProfileInv, TypeOK, ChildType, TurnType, DiskType
  <2> QED
    BY <1>1, <2>1, <2>2
<1>6. GuardType' /\ LogoutSteps' /\ GuardedReads' /\ guard.op # "turn"
  BY <1>2, GuardLeft DEF EndProbe
<1>7. RegistryType'
  BY DEF EndProbe, ProfileInv, TypeOK, RegistryType, registry
<1>8. profile'.status = "authenticated" =>
           profile' = profile \/ \E k \in 1..Len(madeIn') : madeIn'[k] = profile'.instance
  BY <1>3, <1>4
<1> QED
  BY <1>3, <1>4, <1>5, <1>6, <1>7, <1>8, Kept DEF EndProbe

LEMMA EndApiKeyKeeps ==
  ASSUME ProfileInv, EndApiKey
  PROVE  ProfileInv'
<1>1. PICK status \in Statuses :
        /\ UpdateStatus(status, file')
        /\ (UNCHANGED disk \/ Write(Ensured.instance))
        /\ status = "authenticated" => Write(Ensured.instance)
  BY DEF EndApiKey, Statuses
<1>2. profile'.instance = Ensured.instance /\ profile'.instance \in Nat \ {NoInstance}
  BY <1>1, UpdatedInstance DEF ProfileInv, TypeOK
<1>3. /\ DiskType' /\ DiskMoves /\ file' \in Prints /\ Len(madeIn) <= Len(madeIn')
      /\ Write(Ensured.instance) => file' \in 1..Len(madeIn') /\ madeIn'[file'] = profile'.instance
  <2>1. CASE Write(Ensured.instance)
    <3>1. DiskType' /\ Len(madeIn') = Len(madeIn) + 1 /\ file' = Len(madeIn') /\ file' \in Prints
          /\ madeIn'[file'] = profile'.instance
      BY <1>2, <2>1, WriteFacts DEF ProfileInv, TypeOK
    <3> QED
      BY <1>2, <2>1, <3>1 DEF DiskMoves, DiskType, ProfileInv, TypeOK
  <2>2. CASE UNCHANGED disk /\ ~Write(Ensured.instance)
    BY <2>2, PrintFacts DEF disk, ProfileInv, TypeOK, DiskType, DiskMoves
  <2>3. UNCHANGED disk \/ Write(Ensured.instance)
    BY <1>1
  <2> QED
    BY <2>1, <2>2, <2>3
<1>4. RowType' /\ RowMoves /\ profile'.status = status
  <2>1. UpdateStatus(status, file') /\ file' \in Prints \union {NoPrint}
    BY <1>1, <1>3
  <2> QED
    BY <2>1, UpdateFacts DEF ProfileInv, TypeOK
<1>5. ChildType' /\ TurnType' /\ ChildrenMove /\ TurnsMove
  BY <1>3, ChildrenStay DEF EndApiKey, ProfileInv, TypeOK, ChildType, TurnType, DiskType
<1>6. GuardType' /\ LogoutSteps' /\ GuardedReads' /\ guard.op # "turn"
  BY GuardLeft DEF EndApiKey, Holding
<1>7. RegistryType'
  BY DEF EndApiKey, ProfileInv, TypeOK, RegistryType, registry
<1>8. profile'.status = "authenticated" =>
           profile' = profile \/ \E k \in 1..Len(madeIn') : madeIn'[k] = profile'.instance
  BY <1>1, <1>3, <1>4
<1> QED
  BY <1>3, <1>4, <1>5, <1>6, <1>7, <1>8, Kept DEF EndApiKey

LEMMA BeginAccountRequestKeeps ==
  ASSUME ProfileInv, BeginAccountRequest
  PROVE  ProfileInv'
<1>1. RowType' /\ RowMoves /\ profile'.instance # NoInstance /\ (profile'.status = "authenticated" => profile' = profile)
  BY EnsureFacts DEF BeginAccountRequest, ProfileInv, TypeOK
<1>2. DiskType' /\ DiskMoves
  BY DEF BeginAccountRequest, ProfileInv, TypeOK, DiskType, DiskMoves, disk
<1>3. ASSUME NEW k \in Prints
      PROVE  child'[k] \in {child[k], NoChild, file} /\ (Open(k) /\ Served(k) # {} => child'[k] = child[k])
  BY DEF BeginAccountRequest
<1>4. ChildType' /\ ChildrenMove
  <2>1. child' \in [Prints -> -1..Len(madeIn)]
    BY <1>3 DEF BeginAccountRequest, ProfileInv, TypeOK, ChildType, DiskType, NoChild
  <2>2. ChildrenMove
    BY <1>1, <1>3 DEF ChildrenMove, BeginAccountRequest, disk
  <2> QED
    BY <2>1, <2>2 DEF ChildType, BeginAccountRequest, disk
<1>5. TurnType' /\ TurnsMove
  <2>1. TurnType'
    BY DEF BeginAccountRequest, ProfileInv, TypeOK, TurnType
  <2>2. ASSUME NEW u \in Turns, turn[u].at = "running"
        PROVE  child'[turn[u].key] # NoChild
    <3>1. turn[u].key \in Prints /\ Open(turn[u].key) /\ u \in Served(turn[u].key)
      BY <2>2 DEF ProfileInv, TypeOK, TurnType, TurnsAreBound, Served
    <3> QED
      BY <1>3, <3>1 DEF Open
  <2> QED
    BY <2>1, <2>2 DEF TurnsMove, BeginAccountRequest
<1>6. GuardType' /\ LogoutSteps' /\ GuardedReads' /\ guard.op # "turn"
  <2>1. guard' = [op |-> "account", at |-> "asking", seen |-> file, failed |-> NoPrint] /\ guard.op = "none"
    BY DEF BeginAccountRequest, TakeReading, Free, Nobody
  <2>2. GuardType'
    BY <2>1, PrintFacts DEF GuardType, Requests, Stages
  <2>3. LogoutSteps'
    BY <2>1, QuietGuard DEF LogoutOps
  <2> QED
    BY <1>1, <2>1, <2>2, <2>3 DEF GuardedReads
<1>7. RegistryType'
  BY DEF BeginAccountRequest, ProfileInv, TypeOK, RegistryType, registry
<1> QED
  BY <1>1, <1>2, <1>4, <1>5, <1>6, <1>7, Kept DEF BeginAccountRequest

LEMMA RemoveCredentialKeeps ==
  ASSUME ProfileInv, RemoveCredential
  PROVE  ProfileInv'
<1>1. RowType' /\ RowMoves /\ UNCHANGED profile
  BY DEF RemoveCredential, ProfileInv, TypeOK, RowType, RowMoves, row
<1>2. DiskType' /\ DiskMoves
  BY DEF RemoveCredential, ProfileInv, TypeOK, DiskType, DiskMoves, Missing
<1>3. ChildType' /\ TurnType' /\ ChildrenMove /\ TurnsMove
  BY ChildrenStay DEF RemoveCredential, ProfileInv, TypeOK, ChildType, TurnType
<1>4. GuardType' /\ LogoutSteps' /\ GuardedReads' /\ guard.op # "turn"
  <2>0. guard.op \in LogoutOps /\ guard.op # "turn" /\ guard.op # "probe" /\ guard.op # "account"
    BY DEF RemoveCredential, ProfileInv, LogoutSteps, Ending, LogoutOps
  <2>1. CASE guard' = [guard EXCEPT !.at = "forgetting"]
    <3>1. guard' \in [op : Requests, at : Stages, seen : Prints, failed : Prints \union {NoPrint}]
          /\ guard'.op = guard.op /\ guard'.at = "forgetting"
      BY <2>1 DEF ProfileInv, TypeOK, GuardType, Stages
    <3>2. LogoutSteps'
      BY <2>0, <3>1 DEF RemoveCredential, ProfileInv, LogoutSteps, Ending, logins, Live, Open
    <3> QED
      BY <2>0, <3>1, <3>2 DEF GuardType, GuardedReads
  <2>2. CASE Leave
    BY <2>0, <2>2, GuardLeft
  <2> QED
    BY <2>1, <2>2 DEF RemoveCredential
<1>5. RegistryType'
  BY DEF RemoveCredential, ProfileInv, TypeOK, RegistryType, registry
<1> QED
  BY <1>1, <1>2, <1>3, <1>4, <1>5, Kept DEF RemoveCredential

LEMMA DeleteProfileKeeps ==
  ASSUME ProfileInv, DeleteProfile
  PROVE  ProfileInv'
<1>1. guard.op = "delete" /\ guard.at = "forgetting" /\ file = Missing /\ current = NoSession
      /\ (\A k \in Prints : ~Open(k)) /\ (\A s \in Sessions : ~Live(s))
  BY DEF DeleteProfile, Holding, ProfileInv, LogoutSteps, Ending
<1>2. \A u \in Turns : turn[u].at \notin {"binding", "running"}
  BY <1>1 DEF ProfileInv, TypeOK, TurnsAreBound, TurnType
<1>3. TypeOK'
  <2>1. RowType'
    BY DEF DeleteProfile, NoProfile, NoInstance, NoPrint, Statuses, RowType, ProfileInv, TypeOK
  <2>2. GuardType'
    BY GuardLeft DEF DeleteProfile
  <2> QED
    BY <2>1, <2>2 DEF DeleteProfile, ProfileInv, TypeOK, DiskType, LoginType, RegistryType, TurnType, ChildType,
       disk, logins, registry
<1>4. FileIsOwn' /\ ChildrenAreOwn' /\ NothingWithoutRow'
  BY <1>1 DEF DeleteProfile, FileIsOwn, ChildrenAreOwn, NothingWithoutRow, disk, logins, Open
<1>5. LoginsAreOwn' /\ TurnsAreBound'
  BY <1>1, <1>2, ProfileAssumption DEF DeleteProfile, LoginsAreOwn, TurnsAreBound, logins, Live, ProfileInv
<1>6. LogoutSteps' /\ GuardedReads'
  BY GuardLeft DEF DeleteProfile
<1>7. AuthenticatedWasLoggedIn'
  BY DEF DeleteProfile, NoProfile, AuthenticatedWasLoggedIn
<1> QED
  BY <1>3, <1>4, <1>5, <1>6, <1>7 DEF ProfileInv

LEMMA StartLoginKeeps ==
  ASSUME ProfileInv, NEW s \in Sessions, StartLogin(s)
  PROVE  ProfileInv'
<1>0. /\ guard = Nobody /\ UNCHANGED guard /\ guard.op # "turn" /\ guard.at = "none" /\ guard.op = "none"
      /\ \A r \in Sessions : ~Live(r)
  BY DEF StartLogin, Free, Nobody, Replaceable, ProfileInv, LoginsAreOwn
<1>1. RowType' /\ RowMoves /\ profile'.instance # NoInstance /\ (profile'.status = "authenticated" => profile' = profile)
  <2>1. CASE EnsureRow
    BY <2>1, EnsureFacts DEF ProfileInv, TypeOK
  <2>2. CASE UpdateStatus("other", NoPrint)
    <3>1. "other" \in Statuses
      BY DEF Statuses
    <3> QED
      BY <2>2, <3>1, UpdateFacts DEF ProfileInv, TypeOK
  <2> QED
    BY <2>1, <2>2 DEF StartLogin
<1>2. DiskType' /\ DiskMoves
  BY DEF StartLogin, ProfileInv, TypeOK, DiskType, DiskMoves, disk
<1>3. \/ UNCHANGED session
      \/ session' = [session EXCEPT ![s] = [state |-> "starting", process |-> "running", instance |-> profile'.instance]]
  BY DEF StartLogin
<1>4. LoginType'
  BY <1>1, <1>3 DEF StartLogin, LoginType, LoginStates, Processes, ProfileInv, TypeOK, RowType
<1>5. LoginsAreOwn'
  <2> SUFFICES ASSUME NEW r \in Sessions
               PROVE  /\ Live(r)' => r = current' /\ session'[r].instance = profile'.instance
                      /\ ~(r = current' /\ session'[r].process \in {"stored", "succeeded"})
    BY DEF LoginsAreOwn
  <2>1. CASE r # s
    BY <1>0, <1>3, <2>1 DEF Live, StartLogin, ProfileInv, TypeOK, LoginType
  <2>2. CASE r = s
    BY <1>0, <1>3, <2>2 DEF Live, StartLogin, Settled, ProfileInv, TypeOK, LoginType
  <2> QED
    BY <2>1, <2>2
<1>6. NothingWithoutRow'
  BY <1>1 DEF NothingWithoutRow
<1>7. GuardType' /\ LogoutSteps' /\ GuardedReads'
  BY <1>0, GuardLeft DEF Leave
<1> QED
  BY <1>0, <1>1, <1>2, <1>4, <1>5, <1>6, <1>7, KeptByLogin DEF StartLogin

LEMMA CodexAnnouncesKeeps ==
  ASSUME ProfileInv, NEW s \in Sessions, CodexAnnounces(s)
  PROVE  ProfileInv'
<1> DEFINE r == [session[s] EXCEPT !.state = "waiting_for_login"]
<1>1. r \in [state : LoginStates, process : Processes, instance : Nat] /\ r.process = session[s].process /\ r.instance = session[s].instance
  BY DEF CodexAnnounces, ProfileInv, TypeOK, LoginType, LoginStates, Processes
<1>2. session' = [session EXCEPT ![s] = r]
  BY DEF CodexAnnounces, ProfileInv, TypeOK, LoginType
<1>3. UNCHANGED <<row, disk, guard, current, registry, turn, child>>
  BY DEF CodexAnnounces
<1> HIDE DEF r
<1> QED
  BY <1>1, <1>2, <1>3, LoginStep

LEMMA SubmitCodeKeeps ==
  ASSUME ProfileInv, NEW s \in Sessions, SubmitCode(s)
  PROVE  ProfileInv'
<1> DEFINE r == [session[s] EXCEPT !.state = "submitting_code"]
<1>1. r \in [state : LoginStates, process : Processes, instance : Nat] /\ r.process = session[s].process /\ r.instance = session[s].instance
  BY DEF SubmitCode, ProfileInv, TypeOK, LoginType, LoginStates, Processes
<1>2. session' = [session EXCEPT ![s] = r]
  BY DEF SubmitCode, ProfileInv, TypeOK, LoginType
<1>3. UNCHANGED <<row, disk, guard, current, registry, turn, child>>
  BY DEF SubmitCode
<1> HIDE DEF r
<1> QED
  BY <1>1, <1>2, <1>3, LoginStep

LEMMA CodexExitsKeeps ==
  ASSUME ProfileInv, NEW s \in Sessions, CodexExits(s)
  PROVE  ProfileInv'
<1>1. PICK code \in IF session[s].process = "stored" THEN {"succeeded", "failed"} ELSE {"failed"} :
        session' = [session EXCEPT ![s].process = code, ![s].instance = NoInstance]
  BY DEF CodexExits
<1> DEFINE r == [session[s] EXCEPT !.process = code, !.instance = NoInstance]
<1>2. r \in [state : LoginStates, process : Processes, instance : Nat] /\ r.process = code
  BY DEF ProfileInv, TypeOK, LoginType, Processes, NoInstance
<1>3. session' = [session EXCEPT ![s] = r]
  BY <1>1 DEF ProfileInv, TypeOK, LoginType
<1>4. code \in {"succeeded", "failed"} /\ (code = "succeeded" => session[s].process = "stored")
  OBVIOUS
<1> HIDE DEF r
<1> QED
  BY <1>2, <1>3, <1>4, LoginStep DEF CodexExits

LEMMA CodexStoresKeeps ==
  ASSUME ProfileInv, NEW s \in Sessions, CodexStores(s)
  PROVE  ProfileInv'
<1>1. Live(s) /\ s = current /\ session[s].instance = profile.instance /\ profile.instance \in Nat
      /\ profile.instance # NoInstance
  BY ProfileAssumption DEF CodexStores, Live, ProfileInv, LoginsAreOwn, NothingWithoutRow, TypeOK, RowType
<1>2. RowType' /\ RowMoves /\ UNCHANGED profile
  BY DEF CodexStores, ProfileInv, TypeOK, RowType, RowMoves, row
<1>3. DiskType' /\ DiskMoves /\ (\A k \in 1..Len(madeIn) : k \in 1..Len(madeIn') /\ madeIn'[k] = madeIn[k])
      /\ file' \in 1..Len(madeIn') /\ madeIn'[file'] = profile.instance
  <2>1. Write(profile.instance)
    BY <1>1 DEF CodexStores
  <2>2. DiskType' /\ Len(madeIn') = Len(madeIn) + 1 /\ file' = Len(madeIn') /\ madeIn'[file'] = profile.instance
        /\ \A k \in 1..Len(madeIn) : madeIn'[k] = madeIn[k]
    BY <1>1, <2>1, WriteFacts DEF ProfileInv, TypeOK
  <2> QED
    BY <1>1, <1>2, <2>1, <2>2 DEF DiskMoves, DiskType, ProfileInv, TypeOK
<1>4. LoginType'
  BY DEF CodexStores, LoginType, Processes, ProfileInv, TypeOK
<1>5. ASSUME NEW t \in Sessions
      PROVE  /\ Live(t)' => Live(t)
             /\ session'[t].instance = session[t].instance
             /\ t # s => session'[t] = session[t]
  BY <1>1 DEF CodexStores, Live, ProfileInv, TypeOK, LoginType
<1>6. LoginsAreOwn'
  BY <1>1, <1>2, <1>3, <1>5 DEF LoginsAreOwn, ProfileInv, CodexStores
<1>7. NothingWithoutRow'
  BY <1>1, <1>2 DEF NothingWithoutRow
<1>8. guard.at \notin {"removing", "forgetting"}
  BY <1>1 DEF ProfileInv, LogoutSteps
<1>9. GuardType' /\ LogoutSteps' /\ GuardedReads'
  <2>1. GuardType'
    BY DEF CodexStores, ProfileInv, TypeOK, GuardType
  <2>2. LogoutSteps'
    BY <1>8 DEF CodexStores, ProfileInv, LogoutSteps, Ending, Open
  <2>3. file' # Missing
    BY <1>3 DEF Missing, DiskType
  <2> QED
    BY <1>2, <2>1, <2>2, <2>3 DEF CodexStores, ProfileInv, GuardedReads
<1> QED
  BY <1>2, <1>3, <1>4, <1>6, <1>7, <1>9, KeptByLogin DEF CodexStores

LEMMA SettleKeeps ==
  ASSUME ProfileInv, NEW s \in Sessions, Settle(s)
  PROVE  ProfileInv'
<1>0. guard = Nobody /\ UNCHANGED guard /\ guard.op # "turn"
  BY DEF Settle, Free, Nobody
<1>1. CASE current # s
  <2>1. Settled \in [state : LoginStates, process : Processes, instance : Nat]
    BY DEF Settled, LoginStates, Processes, NoInstance
  <2> QED
    BY <1>1, <2>1, LoginStep DEF Settle, Superseded, Settled
<1>2. CASE current = s
  <2>1. profile.instance # NoInstance
    BY <1>2, ProfileAssumption DEF ProfileInv, NothingWithoutRow
  <2>2. RowType' /\ RowMoves /\ profile'.instance = profile.instance
        /\ (profile'.status = "authenticated" => session[s].process = "succeeded")
    <3>1. PICK status \in Statuses : UpdateStatus(status, file) /\ (status = "authenticated" => session[s].process = "succeeded")
      BY <1>2 DEF Settle, Superseded, Statuses
    <3> QED
      BY <2>1, <3>1, PrintFacts, UpdateFacts DEF ProfileInv, TypeOK, Ensured
  <2>3. DiskType' /\ DiskMoves
    BY DEF Settle, ProfileInv, TypeOK, DiskType, DiskMoves, disk
  <2>4. LoginType'
    BY DEF Settle, LoginType, LoginStates, Processes, Settled, NoInstance, ProfileInv, TypeOK
  <2>5. ASSUME NEW t \in Sessions
        PROVE  /\ Live(t)' => Live(t)
               /\ t # s => session'[t] = session[t]
               /\ t = s => session'[t].process = "none"
    BY DEF Settle, Live, Settled, ProfileInv, TypeOK, LoginType
  <2>6. LoginsAreOwn'
    BY <2>2, <2>3, <2>5 DEF LoginsAreOwn, Live, ProfileInv, Settle, disk
  <2>7. NothingWithoutRow'
    BY <2>1, <2>2 DEF NothingWithoutRow
  <2>8. GuardType' /\ LogoutSteps' /\ GuardedReads'
    BY <1>0, GuardLeft DEF Leave
  <2>9. profile'.status = "authenticated" =>
           profile' = profile \/ \E k \in 1..Len(madeIn') : madeIn'[k] = profile'.instance
    BY <1>2, <2>2 DEF ProfileInv, LoginsAreOwn, Settle, disk
  <2> QED
    BY <1>0, <2>2, <2>3, <2>4, <2>6, <2>7, <2>8, <2>9, KeptByLogin DEF Settle
<1> QED
  BY <1>1, <1>2

LEMMA TerminateKeeps ==
  ASSUME ProfileInv, Terminate
  PROVE  ProfileInv'
<1>0. guard.op \in LogoutOps /\ guard.op # "turn" /\ \A k \in Prints : ~Open(k)
  BY DEF Terminate, ProfileInv, LogoutSteps, Ending, LogoutOps
<1>1. RowType' /\ RowMoves /\ profile'.instance # NoInstance /\ (profile'.status = "authenticated" => profile' = profile)
  BY EnsureFacts DEF Terminate, ProfileInv, TypeOK
<1>2. DiskType' /\ DiskMoves
  BY DEF Terminate, ProfileInv, TypeOK, DiskType, DiskMoves, disk
<1>3. ASSUME NEW s \in Sessions
      PROVE  /\ ~Live(s)'
             /\ session'[s].process \in {"stored", "succeeded"} => session'[s] = session[s]
             /\ session'[s] \in [state : LoginStates, process : Processes, instance : Nat]
  BY DEF Terminate, Terminated, Live, ProfileInv, LoginsAreOwn, TypeOK, LoginType, NoInstance, Processes
<1>4. LoginType'
  <2>1. session' \in [Sessions -> [state : LoginStates, process : Processes, instance : Nat]]
    BY <1>3 DEF Terminate, Terminated
  <2> QED
    BY <2>1 DEF LoginType, Terminate, ProfileInv, TypeOK
<1>5. LoginsAreOwn'
  <2> SUFFICES ASSUME NEW s \in Sessions, s = current', session'[s].process \in {"stored", "succeeded"}
               PROVE  \E k \in 1..Len(madeIn') : madeIn'[k] = profile'.instance
    BY <1>3 DEF LoginsAreOwn
  <2>1. s = current /\ profile'.instance = profile.instance
    BY ProfileAssumption, <1>1 DEF Terminate, ProfileInv, NothingWithoutRow, RowMoves
  <2> QED
    BY <1>3, <2>1 DEF ProfileInv, LoginsAreOwn, Terminate, disk
<1>6. NothingWithoutRow'
  BY <1>1 DEF NothingWithoutRow
<1>7. GuardType' /\ LogoutSteps' /\ GuardedReads'
  <2>1. guard' \in [op : Requests, at : Stages, seen : Prints, failed : Prints \union {NoPrint}]
        /\ guard'.op = guard.op /\ guard'.at = "removing"
    BY DEF Terminate, ProfileInv, TypeOK, GuardType, Stages
  <2>2. LogoutSteps'
    BY <1>0, <1>3, <2>1 DEF LogoutSteps, Ending, Open, Terminate
  <2> QED
    BY <1>0, <2>1, <2>2 DEF GuardType, GuardedReads, LogoutOps
<1> QED
  BY <1>0, <1>1, <1>2, <1>4, <1>5, <1>6, <1>7, KeptByLogin DEF Terminate

LEMMA BeginTurnKeeps ==
  ASSUME ProfileInv, NEW u \in Turns, BeginTurn(u)
  PROVE  ProfileInv'
<1>1. CASE ~Binds(u)
  <2>1. RowType' /\ RowMoves /\ UNCHANGED profile /\ UNCHANGED guard
    BY <1>1 DEF BeginTurn, ProfileInv, TypeOK, RowType, RowMoves, row
  <2>2. DiskType' /\ DiskMoves
    BY DEF BeginTurn, ProfileInv, TypeOK, DiskType, DiskMoves, disk
  <2>3. ChildType' /\ TurnType' /\ ChildrenMove /\ TurnsMove
    <3>1. Over \in [at : TurnStages \ {"binding", "running"}, instance : Nat, key : Prints, seen : Prints]
      BY PrintFacts DEF TurnStages, NoInstance, Over, NoTurn
    <3> QED
      BY <1>1, <3>1, TurnAway DEF BeginTurn
  <2>4. GuardType' /\ LogoutSteps' /\ GuardedReads'
    BY <1>1, <2>1, GuardSame DEF BeginTurn, Open
  <2>5. RegistryType'
    BY DEF BeginTurn, ProfileInv, TypeOK, RegistryType, registry
  <2> QED
    BY <2>1, <2>2, <2>3, <2>4, <2>5, Kept DEF BeginTurn
<1>2. CASE Binds(u)
  <2>0. guard.op = "none" /\ turn[u].instance = profile.instance /\ profile.instance # NoInstance /\ file \in Prints
    BY <1>2, PrintFacts DEF BeginTurn, Free, Nobody, Binds, BindingHolds
  <2>1. RowType' /\ RowMoves /\ profile'.instance # NoInstance /\ (profile'.status = "authenticated" => profile' = profile)
    BY <1>2, EnsureFacts DEF BeginTurn, ProfileInv, TypeOK
  <2>2. DiskType' /\ DiskMoves
    BY DEF BeginTurn, ProfileInv, TypeOK, DiskType, DiskMoves, disk
  <2>3. ASSUME NEW k \in Prints
        PROVE  child'[k] \in {child[k], NoChild} /\ (Served(k) # {} => child'[k] = child[k])
    BY <1>2 DEF BeginTurn
  <2>4. ChildType' /\ ChildrenMove
    <3>1. child' \in [Prints -> -1..Len(madeIn)]
      <4>1. child \in [Prints -> -1..Len(madeIn)] /\ NoChild \in -1..Len(madeIn)
        BY DEF ProfileInv, TypeOK, ChildType, DiskType, NoChild
      <4>2. \A k \in Prints : child'[k] \in -1..Len(madeIn)
        BY <2>3, <4>1
      <4>3. DOMAIN child' = Prints /\ child' = [k \in Prints |-> child'[k]]
        BY <1>2 DEF BeginTurn
      <4> QED
        BY <4>2, <4>3
    <3> QED
      BY <2>3, <3>1 DEF ChildType, ChildrenMove, BeginTurn, disk
  <2>5. TurnType' /\ \A v \in Turns : v # u => turn'[v] = turn[v]
    BY <1>2, <2>0 DEF BeginTurn, TurnType, TurnStages, ProfileInv, TypeOK
  <2>6. turn'[u].at = "binding" /\ turn'[u].instance = turn[u].instance
    BY <1>2 DEF BeginTurn, TurnType, ProfileInv, TypeOK
  <2>7. guard' = [op |-> "turn", at |-> "asking", seen |-> Missing, failed |-> NoPrint]
    BY <1>2 DEF BeginTurn, Take
  <2>8. GuardType' /\ LogoutSteps' /\ GuardedReads'
    <3>1. GuardType'
      BY <2>7, PrintFacts DEF GuardType, Requests, Stages
    <3>2. LogoutSteps'
      BY <2>7, QuietGuard DEF LogoutOps
    <3> QED
      BY <2>1, <2>7, <3>1, <3>2 DEF GuardedReads
  <2>9. TypeOK'
    BY <2>1, <2>2, <2>4, <2>5, <2>8 DEF TypeOK, BeginTurn, ProfileInv, LoginType, RegistryType, logins, registry
  <2>10. FileIsOwn' /\ ChildrenAreOwn'
    BY <2>1, <2>2, <2>4, <2>9, CredentialsKept DEF ProfileInv
  <2>11. LoginsAreOwn' /\ NothingWithoutRow'
    BY <2>1, <2>2, <2>4, <2>9, LoginsKept DEF ProfileInv, BeginTurn
  <2>12. TurnsAreBound'
    <3> SUFFICES ASSUME NEW v \in Turns, turn'[v].at \in {"binding", "running"}
                 PROVE  /\ turn'[v].instance = profile'.instance
                        /\ turn'[v].at = "running" => Open(turn[v].key)' /\ turn'[v] = turn[v]
      <4>1. \A w \in Turns : turn'[w].at = "binding" => w = u
        BY <2>0, <2>5 DEF ProfileInv, TurnsAreBound
      <4> QED
        BY <2>7, <4>1 DEF TurnsAreBound, Open
    <3>1. CASE v = u
      BY <2>0, <2>1, <2>6, <3>1 DEF RowMoves
    <3>2. CASE v # u
      <4>1. turn'[v] = turn[v] /\ turn[v].key \in Prints
        BY <2>5, <3>2 DEF ProfileInv, TypeOK, TurnType
      <4>2. turn[v].at = "running" /\ profile.instance = turn[v].instance /\ Open(turn[v].key)
        BY <2>0, <4>1 DEF ProfileInv, TurnsAreBound
      <4>3. Served(turn[v].key) # {}
        BY <4>2 DEF Served
      <4>4. profile.instance # NoInstance
        BY <4>1, <4>2 DEF ProfileInv, NothingWithoutRow
      <4> QED
        BY <2>1, <2>3, <4>1, <4>2, <4>3, <4>4 DEF RowMoves, Open
    <3> QED
      BY <3>1, <3>2
  <2>13. AuthenticatedWasLoggedIn'
    BY <2>1, <2>2, <2>9, ReportKept DEF ProfileInv
  <2> QED
    BY <2>8, <2>9, <2>10, <2>11, <2>12, <2>13 DEF ProfileInv
<1> QED
  BY <1>1, <1>2

LEMMA StartChildKeeps ==
  ASSUME ProfileInv, NEW u \in Turns, StartChild(u)
  PROVE  ProfileInv'
<1>0. guard.op = "turn" /\ turn[u].instance = profile.instance /\ turn[u].key \in Prints /\ profile.instance # NoInstance
      /\ UNCHANGED profile
  BY DEF StartChild, ProfileInv, TypeOK, TurnType, TurnsAreBound, GuardedReads, row
<1>1. RowType' /\ RowMoves
  BY DEF StartChild, ProfileInv, TypeOK, RowType, RowMoves, row
<1>2. DiskType' /\ DiskMoves
  BY DEF StartChild, ProfileInv, TypeOK, DiskType, DiskMoves, disk
<1>3. GuardType' /\ LogoutSteps' /\ GuardedReads'
  BY GuardLeft DEF StartChild
<1>4. PICK r \in [at : TurnStages, instance : Nat, key : Prints, seen : Prints] :
        /\ turn' = [turn EXCEPT ![u] = r]
        /\ r.at # "binding"
        /\ r.at = "running" => r.instance = turn[u].instance /\ r.key = turn[u].key /\ Open(r.key)'
  <2>1. CASE turn' = [turn EXCEPT ![u] = Over]
    <3>1. Over \in [at : TurnStages, instance : Nat, key : Prints, seen : Prints] /\ Over.at = "over"
      BY PrintFacts DEF Over, NoTurn, NoInstance, TurnStages
    <3> QED
      BY <2>1, <3>1
  <2>2. CASE turn' = [turn EXCEPT ![u].at = "failing"]
    <3> DEFINE q == [turn[u] EXCEPT !.at = "failing"]
    <3>1. q \in [at : TurnStages, instance : Nat, key : Prints, seen : Prints] /\ q.at = "failing"
      BY DEF ProfileInv, TypeOK, TurnType, TurnStages
    <3>2. turn' = [turn EXCEPT ![u] = q]
      BY <2>2 DEF ProfileInv, TypeOK, TurnType
    <3> HIDE DEF q
    <3> QED
      BY <3>1, <3>2
  <2>3. CASE /\ turn' = [turn EXCEPT ![u].at = "running"]
             /\ child' = [child EXCEPT ![turn[u].key] = IF @ = NoChild THEN file ELSE @]
    <3>1. turn' = [turn EXCEPT ![u] = [turn[u] EXCEPT !.at = "running"]]
          /\ [turn[u] EXCEPT !.at = "running"] \in [at : TurnStages, instance : Nat, key : Prints, seen : Prints]
      BY <2>3 DEF ProfileInv, TypeOK, TurnType, TurnStages
    <3>2. Open(turn[u].key)'
      <4>1. child'[turn[u].key] # NoChild
        BY <1>0, <2>3 DEF ProfileInv, TypeOK, ChildType, DiskType, NoChild
      <4>2. turn'[u].key = turn[u].key
        BY <3>1 DEF ProfileInv, TypeOK, TurnType
      <4> QED
        BY <4>1, <4>2 DEF Open
    <3>3. [turn[u] EXCEPT !.at = "running"].key = turn[u].key /\ [turn[u] EXCEPT !.at = "running"].instance = turn[u].instance
          /\ [turn[u] EXCEPT !.at = "running"].at = "running"
      BY DEF ProfileInv, TypeOK, TurnType
    <3>4. turn'[u] = [turn[u] EXCEPT !.at = "running"]
      BY <3>1 DEF ProfileInv, TypeOK, TurnType
    <3> QED
      BY <3>1, <3>2, <3>3, <3>4 DEF Open
  <2> QED
    BY <2>1, <2>2, <2>3 DEF StartChild
<1>5. TurnType' /\ turn'[u] = r /\ \A v \in Turns : v # u => turn'[v] = turn[v]
  BY <1>4 DEF ProfileInv, TypeOK, TurnType
<1>6. ASSUME NEW k \in Prints
      PROVE  child'[k] \in {child[k], file} /\ (Open(k) => child'[k] = child[k])
  BY DEF StartChild, Open, ProfileInv, TypeOK, ChildType
<1>7. ChildType' /\ ChildrenMove
  <2>1. child' \in [Prints -> -1..Len(madeIn)]
    BY <1>6 DEF StartChild, ProfileInv, TypeOK, ChildType, DiskType
  <2> QED
    BY <1>0, <1>6, <2>1 DEF ChildType, ChildrenMove, StartChild, disk
<1>8. TypeOK'
  BY <1>1, <1>2, <1>3, <1>5, <1>7 DEF TypeOK, StartChild, ProfileInv, LoginType, RegistryType, logins, registry
<1>9. FileIsOwn' /\ ChildrenAreOwn'
  BY <1>1, <1>2, <1>7, <1>8, CredentialsKept DEF ProfileInv
<1>10. LoginsAreOwn' /\ NothingWithoutRow'
  BY <1>1, <1>2, <1>7, <1>8, LoginsKept DEF ProfileInv, StartChild
<1>11. TurnsAreBound'
  <2> SUFFICES ASSUME NEW v \in Turns, turn'[v].at \in {"binding", "running"}
               PROVE  /\ turn'[v].at = "running" /\ turn'[v].instance = profile'.instance
                      /\ child'[turn'[v].key] # NoChild
    BY DEF TurnsAreBound, Open
  <2>1. CASE v = u
    BY <1>0, <1>4, <1>5, <2>1 DEF Open
  <2>2. CASE v # u
    <3>1. turn'[v] = turn[v] /\ turn[v].key \in Prints
      BY <1>5, <2>2 DEF ProfileInv, TypeOK, TurnType
    <3>2. turn[v].at # "binding"
      BY <2>2, <3>1 DEF StartChild, ProfileInv, TurnsAreBound
    <3> QED
      BY <1>0, <1>6, <3>1, <3>2 DEF ProfileInv, TurnsAreBound, Open
  <2> QED
    BY <2>1, <2>2
<1>12. AuthenticatedWasLoggedIn'
  BY <1>0, <1>2, <1>8, ReportKept DEF ProfileInv
<1> QED
  BY <1>3, <1>8, <1>9, <1>10, <1>11, <1>12 DEF ProfileInv

LEMMA CloseFailedKeeps ==
  ASSUME ProfileInv, NEW u \in Turns, CloseFailed(u)
  PROVE  ProfileInv'
<1>1. RowType' /\ RowMoves /\ UNCHANGED profile
  BY DEF CloseFailed, ProfileInv, TypeOK, RowType, RowMoves, row
<1>2. DiskType' /\ DiskMoves
  BY DEF CloseFailed, ProfileInv, TypeOK, DiskType, DiskMoves, disk
<1>3. ChildType' /\ TurnType' /\ ChildrenMove /\ TurnsMove
  <2>1. ChildType' /\ ChildrenMove
    BY DEF CloseFailed, ProfileInv, TypeOK, ChildType, ChildrenMove, DiskType, NoChild, disk
  <2>2. ASSUME NEW v \in Turns
        PROVE  /\ turn'[v] \in [at : TurnStages, instance : Nat, key : Prints, seen : Prints]
               /\ turn'[v].at # "running"
               /\ turn'[v].at = "binding" => turn'[v] = turn[v] /\ turn[v].at # "running"
    <3>1. Over \in [at : TurnStages, instance : Nat, key : Prints, seen : Prints] /\ Over.at = "over"
      BY PrintFacts DEF Over, NoTurn, NoInstance, TurnStages
    <3>2. CASE v = u
      BY <3>1, <3>2 DEF CloseFailed, Cut, ProfileInv, TypeOK, TurnType
    <3>3. CASE v # u
      <4>1. turn'[v] = IF turn[v].at = "running" /\ turn[v].key \in Prints
                       THEN [turn[v] EXCEPT !.at = "lost"] ELSE turn[v]
        BY <3>3 DEF CloseFailed, Cut, ProfileInv, TypeOK, TurnType
      <4> QED
        BY <4>1 DEF ProfileInv, TypeOK, TurnType, TurnStages
    <3> QED
      BY <3>2, <3>3
  <2>3. TurnType'
    BY <2>2 DEF CloseFailed, Cut, TurnType
  <2> QED
    BY <2>1, <2>2, <2>3 DEF TurnsMove
<1>4. GuardType' /\ LogoutSteps' /\ GuardedReads' /\ UNCHANGED guard
  BY <1>1, GuardSame DEF CloseFailed, Open
<1>5. RegistryType'
  BY DEF CloseFailed, ProfileInv, TypeOK, RegistryType, registry
<1> QED
  BY <1>1, <1>2, <1>3, <1>4, <1>5, Kept DEF CloseFailed

LEMMA RefreshKeeps ==
  ASSUME ProfileInv, NEW k \in Prints, Refresh(k)
  PROVE  ProfileInv'
<1>1. Open(k) /\ child[k] \in 1..Len(madeIn) /\ madeIn[child[k]] = profile.instance /\ profile.instance # NoInstance
      /\ profile.instance \in Nat
  BY DEF Refresh, Open, ProfileInv, TypeOK, ChildType, DiskType, ChildrenAreOwn, NothingWithoutRow, NoChild, Missing, RowType
<1>2. RowType' /\ RowMoves /\ UNCHANGED profile
  BY DEF Refresh, ProfileInv, TypeOK, RowType, RowMoves, row
<1>3. DiskType' /\ DiskMoves /\ Len(madeIn') = Len(madeIn) + 1 /\ file' = Len(madeIn') /\ file' # Missing
      /\ madeIn'[file'] = profile.instance
  <2>1. Write(profile.instance)
    BY <1>1 DEF Refresh
  <2> QED
    BY <1>1, <1>2, <2>1, WriteFacts DEF DiskMoves, ProfileInv, TypeOK
<1>4. ChildType' /\ ChildrenMove /\ \A j \in Prints : Open(j)' = Open(j)
  <2>1. ASSUME NEW j \in Prints
        PROVE  child'[j] \in -1..Len(madeIn') /\ child'[j] \in {child[j], file'} /\ Open(j)' = Open(j)
    BY <1>1, <1>3 DEF Refresh, Open, ProfileInv, TypeOK, ChildType, DiskType, NoChild
  <2>2. ChildType'
    BY <2>1 DEF Refresh, ProfileInv, TypeOK, ChildType
  <2> QED
    BY <1>1, <1>2, <2>1, <2>2 DEF ChildrenMove
<1>5. TurnType' /\ TurnsMove
  BY <1>4 DEF Refresh, ProfileInv, TypeOK, TurnType, TurnsMove, TurnsAreBound, Open
<1>6. ~Ending
  BY <1>1 DEF ProfileInv, LogoutSteps
<1>7. GuardType' /\ LogoutSteps' /\ GuardedReads' /\ UNCHANGED guard
  <2>1. GuardType'
    BY DEF Refresh, ProfileInv, TypeOK, GuardType
  <2>2. LogoutSteps'
    BY <1>6 DEF Refresh, ProfileInv, LogoutSteps, Ending
  <2> QED
    BY <1>2, <1>3, <2>1, <2>2 DEF Refresh, ProfileInv, GuardedReads
<1>8. RegistryType'
  BY DEF Refresh, ProfileInv, TypeOK, RegistryType, registry
<1> QED
  BY <1>2, <1>3, <1>4, <1>5, <1>7, <1>8, Kept DEF Refresh

LEMMA CrashKeeps ==
  ASSUME ProfileInv, Crash
  PROVE  ProfileInv'
<1>1. RowType' /\ RowMoves /\ UNCHANGED profile
  BY DEF Crash, ProfileInv, TypeOK, RowType, RowMoves, row
<1>2. DiskType' /\ DiskMoves
  BY DEF Crash, ProfileInv, TypeOK, DiskType, DiskMoves, disk
<1>3. ChildType' /\ ChildrenMove /\ \A k \in Prints : ~Open(k)'
  BY DEF Crash, ProfileInv, TypeOK, ChildType, ChildrenMove, DiskType, NoChild, Open, disk
<1>4. TurnType' /\ \A u \in Turns : turn'[u].at \notin {"binding", "running"}
  <2>1. Over \in [at : TurnStages, instance : Nat, key : Prints, seen : Prints] /\ Over.at = "over"
        /\ Fresh \in [at : TurnStages, instance : Nat, key : Prints, seen : Prints] /\ Fresh.at = "new"
    BY PrintFacts DEF Over, Fresh, NoTurn, NoInstance, TurnStages
  <2> QED
    BY <2>1 DEF Crash, TurnType
<1>5. LoginType' /\ \A s \in Sessions : session'[s].process = "none"
  BY DEF Crash, LoginType, LoginStates, Processes, Settled, NoInstance
<1>6. GuardType' /\ LogoutSteps' /\ GuardedReads'
  BY GuardLeft DEF Crash, Leave
<1>7. TypeOK'
  BY <1>1, <1>2, <1>3, <1>4, <1>5, <1>6 DEF Crash, ProfileInv, TypeOK, RegistryType, registry
<1>8. FileIsOwn' /\ ChildrenAreOwn'
  BY <1>1, <1>2, <1>3, <1>7, CredentialsKept DEF ProfileInv
<1>9. LoginsAreOwn' /\ TurnsAreBound'
  BY <1>4, <1>5 DEF LoginsAreOwn, TurnsAreBound, Live
<1>10. NothingWithoutRow'
  BY <1>1, <1>3 DEF Crash, ProfileInv, NothingWithoutRow, disk
<1>11. AuthenticatedWasLoggedIn'
  BY <1>1, <1>2, <1>7, ReportKept DEF ProfileInv
<1> QED
  BY <1>6, <1>7, <1>8, <1>9, <1>10, <1>11 DEF ProfileInv

-----------------------------------------------------------------------------
LEMMA Start ==
  ASSUME Init
  PROVE  ProfileInv
<1>1. TypeOK
  BY ProfileAssumption DEF Init, TypeOK, RowType, DiskType, GuardType, LoginType, RegistryType, TurnType, ChildType,
     NoProfile, NoInstance, Statuses, NoPrint, Missing, Nobody, Requests, Stages, Prints, Settled, LoginStates, Processes,
     Fresh, NoTurn, TurnStages, NoChild
<1>2. FileIsOwn /\ ChildrenAreOwn /\ NothingWithoutRow
  BY DEF Init, FileIsOwn, ChildrenAreOwn, NothingWithoutRow, Open
<1>3. LoginsAreOwn /\ TurnsAreBound
  BY DEF Init, LoginsAreOwn, TurnsAreBound, Live, Settled, Fresh, NoTurn
<1>4. LogoutSteps /\ GuardedReads
  BY DEF Init, LogoutSteps, GuardedReads, Ending, LogoutOps, Nobody
<1>5. AuthenticatedWasLoggedIn
  BY DEF Init, NoProfile, AuthenticatedWasLoggedIn
<1> QED
  BY <1>1, <1>2, <1>3, <1>4, <1>5 DEF ProfileInv

LEMMA Step ==
  ASSUME ProfileInv, [Next]_vars
  PROVE  ProfileInv'
<1>1. CASE Request
  <2>1. "logout" \in LogoutOps /\ "delete" \in LogoutOps
    BY DEF LogoutOps
  <2> QED
    BY <1>1, <2>1, BeginStatusKeeps, EndStatusKeeps, BeginProbeKeeps, ProbeMissingKeeps, EndProbeKeeps, BeginApiKeyKeeps, EndApiKeyKeeps, InvalidateKeeps,
       BeginAccountRequestKeeps, EndAccountRequestKeeps, BeginLogoutKeeps, TerminateKeeps, RemoveCredentialKeeps, DeleteProfileKeeps, RecordLogoutKeeps DEF Request
<1>2. CASE Login
  BY <1>2, StartLoginKeeps, CodexAnnouncesKeeps, SubmitCodeKeeps, CodexStoresKeeps, CodexExitsKeeps, SettleKeeps DEF Login
<1>3. CASE Thread
  BY <1>3, CreateThreadKeeps, ArchiveThreadKeeps, CheckTurnKeeps DEF Thread
<1>4. CASE Turn
  BY <1>4, InsertTurnKeeps, BeginTurnKeeps, StartChildKeeps, EndTurnKeeps, ReadFailedKeeps, MarkFailedKeeps, CloseFailedKeeps DEF Turn
<1>5. CASE Child
  BY <1>5, RefreshKeeps, ChildExitsKeeps DEF Child
<1>6. CASE UNCHANGED vars
  <2>1. UNCHANGED <<profile, instances, file, madeIn, guard, session, current, bound, archived, turn, child>>
    BY <1>6 DEF vars, row, disk, logins, registry
  <2>2. TypeOK'
    BY <2>1 DEF ProfileInv, TypeOK, RowType, DiskType, GuardType, LoginType, RegistryType, TurnType, ChildType
  <2>3. FileIsOwn' /\ ChildrenAreOwn' /\ NothingWithoutRow' /\ AuthenticatedWasLoggedIn'
    BY <2>1 DEF ProfileInv, FileIsOwn, ChildrenAreOwn, NothingWithoutRow, AuthenticatedWasLoggedIn, Open
  <2>4. LoginsAreOwn' /\ TurnsAreBound'
    BY <2>1 DEF ProfileInv, LoginsAreOwn, TurnsAreBound, Live, Open
  <2>5. LogoutSteps' /\ GuardedReads'
    BY <2>1 DEF ProfileInv, LogoutSteps, GuardedReads, Ending, Open, Live
  <2> QED
    BY <2>2, <2>3, <2>4, <2>5 DEF ProfileInv
<1> QED
  BY <1>1, <1>2, <1>3, <1>4, <1>5, <1>6, CrashKeeps DEF Next

(* Nothing of one instance of a profile is ever used for another.          *)
THEOREM ProfileCorrect == Spec => []ProfileInv
  BY Start, Step, PTL DEF Spec

(* Every variable of a profile keeps its type.                             *)
THEOREM ProfileTypes == Spec => []TypeOK
<1>1. ProfileInv => TypeOK
  BY DEF ProfileInv
<1> QED
  BY <1>1, ProfileCorrect, PTL

(* Old and queued threads fail closed: what runs belongs to the instance   *)
(* of the profile there is, and so does the credential it runs with.       *)
THEOREM OldTurnsFailClosed == Spec => []TurnsRunOnTheirAccount
<1>1. ProfileInv => TurnsRunOnTheirAccount
  BY DEF ProfileInv, TurnsRunOnTheirAccount, TurnsAreBound, ChildrenAreOwn, TypeOK, TurnType
<1> QED
  BY <1>1, ProfileCorrect, PTL

(* A logout and a deletion leave nothing that could bring a credential     *)
(* back.                                                                   *)
THEOREM LogoutLeavesNothing == Spec => []LogoutIsThorough
<1>1. ProfileInv => LogoutIsThorough
  <2> SUFFICES ASSUME ProfileInv PROVE LogoutIsThorough
    OBVIOUS
  <2>1. CASE guard.at = "forgetting"
    BY <2>1 DEF ProfileInv, LogoutSteps, Ending, LogoutIsThorough
  <2>2. CASE profile.instance = NoInstance
    <3>1. \A s \in Sessions : ~Live(s)
      BY <2>2, ProfileAssumption DEF ProfileInv, NothingWithoutRow, LoginsAreOwn
    <3> QED
      BY <2>2, <3>1 DEF ProfileInv, NothingWithoutRow, LogoutIsThorough
  <2> QED
    BY <2>1, <2>2 DEF LogoutIsThorough
<1> QED
  BY <1>1, ProfileCorrect, PTL

(* Only an instance that was logged in to is reported as authenticated.    *)
THEOREM ReportsAreTrue == Spec => []AuthenticatedWasLoggedIn
<1>1. ProfileInv => AuthenticatedWasLoggedIn
  BY DEF ProfileInv
<1> QED
  BY <1>1, ProfileCorrect, PTL
=============================================================================
