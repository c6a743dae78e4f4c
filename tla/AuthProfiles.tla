--------------------------- MODULE AuthProfiles ---------------------------
(***************************************************************************)
(* One auth profile of one principal: its row, its credential file, its    *)
(* device logins, the threads bound to it and the children that use it.    *)
(*                                                                         *)
(* Requests about a profile and turns that check a child out hold the      *)
(* profile's guard. Login processes, running children, a turn that failed  *)
(* with an authentication error, and the archiving of a thread do not.     *)
(***************************************************************************)
EXTENDS Integers, Sequences, FiniteSets

CONSTANTS
  Sessions,        (* device logins; one that is forgotten may be used again*)
  Threads,         (* broker threads that name this profile                 *)
  Turns,           (* their turns                                           *)
  NoSession,
  MaxInstances,    (* bound: rows of the profile ever inserted              *)
  MaxCredentials   (* bound: credentials ever written                       *)

ASSUME ProfileAssumption ==
  /\ MaxInstances \in Nat
  /\ MaxCredentials \in Nat
  /\ NoSession \notin Sessions

(* A credential is known by its number, which is also its fingerprint; a   *)
(* missing auth.json has the fingerprint "missing". Instances count from 1.*)
NoInstance == 0
Missing == 0
NoPrint == -1
NoChild == -1
Prints == 0..MaxCredentials

VARIABLES
  profile,    (* the row in auth_profiles: instance_id, status; the         *)
              (* fingerprint where it is read, of a refresh failure         *)
  instances,  (* the instance ids drawn                                     *)
  file,       (* the credential in auth.json                                *)
  madeIn,     (* history: the instance for which each credential was made   *)
  guard,      (* who holds profile_guard, and what it has read              *)
  session,    (* DeviceAuthSession; history: the instance it logs in to     *)
  current,    (* _sessions                                                  *)
  bound,      (* auth_profile_instance_id of each thread; none: no thread   *)
  archived,   (* the threads archived                                       *)
  turn,       (* stage, auth_profile_instance_id, pool key, print read      *)
  child       (* the credential of the pooled child of each fingerprint     *)

row == <<profile, instances>>
disk == <<file, madeIn>>
logins == <<session, current>>
registry == <<bound, archived>>
vars == <<row, disk, guard, logins, registry, turn, child>>

(* "other" stands for the states that no code reads back: unknown, missing,*)
(* present_unverified, invalid and failed.                                 *)
Statuses == {"authenticated", "refresh_failed", "other"}
Requests == {"none", "status", "probe", "api_key", "logout", "delete", "account", "turn"}
Stages == {"none", "asking", "terminating", "removing", "forgetting"}
LoginStates == {"starting", "waiting_for_login", "submitting_code", "settled"}
Processes == {"none", "running", "stored", "succeeded", "failed"}
TurnStages == {"new", "checked", "queued", "binding", "running", "lost", "failing",
               "marking", "closing", "over"}

Nobody == [op |-> "none", at |-> "none", seen |-> Missing, failed |-> NoPrint]
(* Settled: completed, failed or cancelled, with nothing left that runs.   *)
Settled == [state |-> "settled", process |-> "none", instance |-> NoInstance]
NoProfile == [instance |-> NoInstance, status |-> "other", failed |-> NoPrint]
NoTurn(at) == [at |-> at, instance |-> NoInstance, key |-> Missing, seen |-> Missing]
Fresh == NoTurn("new")
Over == NoTurn("over")

-----------------------------------------------------------------------------
Free == guard = Nobody
Holding(op, at) == guard.op = op /\ guard.at = at
Take(op, at) == guard' = [op |-> op, at |-> at, seen |-> Missing, failed |-> NoPrint]
TakeReading(op) == guard' = [op |-> op, at |-> "asking", seen |-> file, failed |-> NoPrint]
Leave == guard' = Nobody

Live(s) == session[s].process \in {"running", "stored"}
Exited(s) == session[s].process \in {"succeeded", "failed"}

Open(k) == child[k] # NoChild
Served(k) == {u \in Turns : turn[u].at \in {"running", "failing", "marking", "closing"} /\ turn[u].key = k}

(* ensure_profile: a row that is missing is inserted with a new instance.  *)
Ensured == IF profile.instance # NoInstance THEN profile
           ELSE [instance |-> instances + 1, status |-> "other", failed |-> NoPrint]
CountNoInstance == UNCHANGED instances
CountInstances ==
  /\ profile.instance = NoInstance => instances < MaxInstances
  /\ instances' = IF profile.instance = NoInstance THEN instances + 1 ELSE instances

EnsureRow == profile' = Ensured /\ CountInstances
UpdateStatus(status, fingerprint) ==
  /\ profile' = [instance |-> Ensured.instance, status |-> status,
                 failed |-> IF status = "refresh_failed" THEN fingerprint ELSE NoPrint]
  /\ CountInstances

(* The file gets a new credential, for the account of the given instance.  *)
Write(instance) ==
  /\ Len(madeIn) < MaxCredentials
  /\ madeIn' = Append(madeIn, instance)
  /\ file' = Len(madeIn) + 1

Cut(K) == [u \in Turns |-> IF turn[u].at = "running" /\ turn[u].key \in K
                           THEN [turn[u] EXCEPT !.at = "lost"] ELSE turn[u]]

(* close_profile and a child's exit: the turns it serves lose their client.*)
CloseChildren(K) ==
  /\ child' = [k \in Prints |-> IF k \in K THEN NoChild ELSE child[k]]
  /\ turn' = Cut(K)
CloseProfile == CloseChildren(Prints)

Init ==
  /\ profile = NoProfile
  /\ instances = 0
  /\ file = Missing
  /\ madeIn = <<>>
  /\ guard = Nobody
  /\ session = [s \in Sessions |-> Settled]
  /\ current = NoSession
  /\ bound = [t \in Threads |-> NoInstance]
  /\ archived = {}
  /\ turn = [u \in Turns |-> Fresh]
  /\ child = [k \in Prints |-> NoChild]

-----------------------------------------------------------------------------
(* GET status: the row is read before codex is asked, and written after.   *)
BeginStatus ==
  /\ Free
  /\ EnsureRow
  /\ guard' = [op |-> "status", at |-> "asking", seen |-> file, failed |-> profile'.failed]
  /\ UNCHANGED <<disk, logins, registry, turn, child>>

EndStatus ==
  /\ Holding("status", "asking")
  /\ \E answer \in {"other"} \union IF file = Missing THEN {} ELSE {"authenticated"} :
       UpdateStatus(IF guard.failed = file THEN "refresh_failed" ELSE answer, file)
  /\ Leave
  /\ UNCHANGED <<disk, logins, registry, turn, child>>

(* POST probe: a real request to Codex, which may renew the credential.    *)
BeginProbe ==
  /\ Free
  /\ file # Missing
  /\ EnsureRow
  /\ TakeReading("probe")
  /\ UNCHANGED <<disk, logins, registry, turn, child>>

ProbeMissing ==
  /\ Free
  /\ file = Missing
  /\ UpdateStatus("other", Missing)
  /\ UNCHANGED <<disk, guard, logins, registry, turn, child>>

EndProbe ==
  /\ Holding("probe", "asking")
  /\ UNCHANGED disk \/ Write(madeIn[file])
  /\ \E answer \in {"authenticated", "refresh_failed", "other"} :
       /\ UpdateStatus(answer, file')
       /\ IF answer = "refresh_failed" \/ file' # guard.seen THEN CloseProfile ELSE UNCHANGED <<turn, child>>
  /\ Leave
  /\ UNCHANGED <<logins, registry>>

(* POST api-key: the children are closed first; a command that fails or    *)
(* runs out of time may have stored the key all the same.                  *)
BeginApiKey ==
  /\ Free
  /\ CloseProfile
  /\ EnsureRow
  /\ Take("api_key", "asking")
  /\ UNCHANGED <<disk, logins, registry>>

EndApiKey ==
  /\ Holding("api_key", "asking")
  /\ \/ Write(Ensured.instance) /\ UpdateStatus("authenticated", file')
     \/ (UNCHANGED disk \/ Write(Ensured.instance)) /\ UpdateStatus("other", file')
  /\ Leave
  /\ UNCHANGED <<logins, registry, turn, child>>

(* POST runtime/invalidate.                                                *)
Invalidate ==
  /\ Free
  /\ CloseProfile
  /\ UNCHANGED <<row, disk, guard, logins, registry>>

(* Models, usage, limits: a child is leased for a request under the guard. *)
BeginAccountRequest ==
  /\ Free
  /\ EnsureRow
  /\ TakeReading("account")
  /\ child' = [k \in Prints |-> CASE k = file -> IF Open(k) THEN child[k] ELSE file
                                  [] k # file /\ Served(k) = {} -> NoChild
                                  [] OTHER -> child[k]]
  /\ UNCHANGED <<disk, logins, registry, turn>>

EndAccountRequest ==
  /\ Holding("account", "asking")
  /\ Leave
  /\ UNCHANGED <<row, disk, logins, registry, turn, child>>

-----------------------------------------------------------------------------
(* POST logout, with or without deleteProfile.                             *)
BeginLogout(op) ==
  /\ Free
  /\ CloseProfile
  /\ Take(op, "terminating")
  /\ UNCHANGED <<row, disk, logins, registry>>

(* The process of a login that runs is ended; its watcher has yet to come. *)
LeftRunning == session
Terminated == [s \in Sessions |-> IF s = current /\ Live(s)
                                  THEN [session[s] EXCEPT !.process = "failed", !.instance = NoInstance]
                                  ELSE session[s]]

Terminate ==
  /\ guard.at = "terminating"
  /\ EnsureRow
  /\ session' = Terminated
  /\ current' = IF guard.op = "delete" THEN NoSession ELSE current
  /\ guard' = [guard EXCEPT !.at = "removing"]
  /\ UNCHANGED <<disk, registry, turn, child>>

(* codex logout, unlink, rmtree. The directory may resist its deletion.    *)
RemoveCredential ==
  /\ guard.at = "removing"
  /\ file' = Missing
  /\ \/ guard' = [guard EXCEPT !.at = "forgetting"]
     \/ guard.op = "delete" /\ Leave
  /\ UNCHANGED <<row, madeIn, logins, registry, turn, child>>

DeleteProfile ==
  /\ Holding("delete", "forgetting")
  /\ profile' = NoProfile
  /\ Leave
  /\ UNCHANGED <<instances, disk, logins, registry, turn, child>>

RecordLogout ==
  /\ Holding("logout", "forgetting")
  /\ UpdateStatus("other", file)
  /\ Leave
  /\ UNCHANGED <<disk, logins, registry, turn, child>>

-----------------------------------------------------------------------------
(* Device login. A login that still runs is returned as it is.             *)
Replaceable == current \notin {s \in Sessions : Live(s)}

StartLogin(s) ==
  /\ Free
  /\ Replaceable
  /\ session[s] = Settled /\ s # current
  /\ current' = s
  /\ \/ /\ EnsureRow
        /\ session' = [session EXCEPT ![s] = [state |-> "starting", process |-> "running",
                                              instance |-> profile'.instance]]
     \/ UpdateStatus("other", NoPrint) /\ UNCHANGED session
  /\ UNCHANGED <<disk, guard, registry, turn, child>>

CodexAnnounces(s) ==
  /\ session[s].state = "starting"
  /\ session' = [session EXCEPT ![s].state = "waiting_for_login"]
  /\ UNCHANGED <<row, disk, guard, current, registry, turn, child>>

SubmitCode(s) ==
  /\ Free
  /\ current = s /\ Live(s)
  /\ session' = [session EXCEPT ![s].state = "submitting_code"]
  /\ UNCHANGED <<row, disk, guard, current, registry, turn, child>>

CodexStores(s) ==
  /\ session[s].process = "running"
  /\ Write(session[s].instance)
  /\ session' = [session EXCEPT ![s].process = "stored"]
  /\ UNCHANGED <<row, guard, current, registry, turn, child>>

CodexExits(s) ==
  /\ Live(s)
  /\ \E code \in IF session[s].process = "stored" THEN {"succeeded", "failed"} ELSE {"failed"} :
       session' = [session EXCEPT ![s].process = code, ![s].instance = NoInstance]
  /\ UNCHANGED <<row, disk, guard, current, registry, turn, child>>

(* The watcher thread of a login, once the process has exited.             *)
NeverSuperseded(s) == FALSE
Superseded(s) == current # s

Settle(s) ==
  /\ Free
  /\ Exited(s)
  /\ IF Superseded(s) THEN UNCHANGED row
     ELSE UpdateStatus(IF session[s].process = "succeeded" THEN "authenticated" ELSE "other", file)
  /\ session' = [session EXCEPT ![s] = Settled]
  /\ UNCHANGED <<disk, guard, current, registry, turn, child>>

-----------------------------------------------------------------------------
CreateThread(t) ==
  /\ Free
  /\ bound[t] = NoInstance
  /\ EnsureRow
  /\ bound' = [bound EXCEPT ![t] = profile'.instance]
  /\ UNCHANGED <<disk, guard, logins, archived, turn, child>>

ArchiveThread(t) ==
  /\ bound[t] # NoInstance
  /\ archived' = archived \union {t}
  /\ UNCHANGED <<row, disk, guard, logins, bound, turn, child>>

BindingHolds(instance) == profile.instance # NoInstance /\ profile.instance = instance

(* A request for a turn reads the thread and the profile, and inserts the  *)
(* row later, without the guard in between.                                *)
CheckTurn(u, t) ==
  /\ turn[u].at = "new"
  /\ BindingHolds(bound[t]) /\ t \notin archived
  /\ turn' = [turn EXCEPT ![u] = [at |-> "checked", instance |-> bound[t], key |-> Missing, seen |-> Missing]]
  /\ UNCHANGED <<row, disk, guard, logins, registry, child>>

InsertTurn(u) ==
  /\ turn[u].at = "checked"
  /\ turn' = [turn EXCEPT ![u].at = "queued"]
  /\ UNCHANGED <<row, disk, guard, logins, registry, child>>

BindsUnchecked(u) == TRUE
Binds(u) == BindingHolds(turn[u].instance)

(* The turn runs: under the guard its binding is checked again, the key of *)
(* its child is computed, and idle children of other credentials retire.   *)
BeginTurn(u) ==
  /\ Free
  /\ turn[u].at = "queued"
  /\ IF Binds(u)
     THEN /\ EnsureRow
          /\ Take("turn", "asking")
          /\ turn' = [turn EXCEPT ![u].at = "binding", ![u].key = file]
          /\ child' = [k \in Prints |-> IF k # file /\ Served(k) = {} THEN NoChild ELSE child[k]]
     ELSE /\ turn' = [turn EXCEPT ![u] = Over]
          /\ UNCHANGED <<row, guard, child>>
  /\ UNCHANGED <<disk, logins, registry>>

(* A new child loads the credential there is when it starts.               *)
StartChild(u) ==
  /\ turn[u].at = "binding"
  /\ \/ /\ turn' = [turn EXCEPT ![u].at = "running"]
        /\ child' = [child EXCEPT ![turn[u].key] = IF @ = NoChild THEN file ELSE @]
     \/ /\ ~Open(turn[u].key)
        /\ turn' = [turn EXCEPT ![u] = Over] \/ turn' = [turn EXCEPT ![u].at = "failing"]
        /\ UNCHANGED child
  /\ Leave
  /\ UNCHANGED <<row, disk, logins, registry>>

EndTurn(u) ==
  /\ \/ turn[u].at \in {"running", "lost"} /\ turn' = [turn EXCEPT ![u] = Over]
     \/ turn[u].at = "running" /\ turn' = [turn EXCEPT ![u].at = "failing"]
  /\ UNCHANGED <<row, disk, guard, logins, registry, child>>

(* mark_runtime_auth_failure and close_profile, by the worker of the turn, *)
(* which no longer holds the guard.                                        *)
ReadFailed(u) ==
  /\ turn[u].at = "failing"
  /\ EnsureRow
  /\ turn' = [turn EXCEPT ![u].at = "marking", ![u].seen = file]
  /\ UNCHANGED <<disk, guard, logins, registry, child>>

MarkFailed(u) ==
  /\ turn[u].at = "marking"
  /\ UpdateStatus("refresh_failed", turn[u].seen)
  /\ turn' = [turn EXCEPT ![u].at = "closing"]
  /\ UNCHANGED <<disk, guard, logins, registry, child>>

CloseFailed(u) ==
  /\ turn[u].at = "closing"
  /\ child' = [k \in Prints |-> NoChild]
  /\ turn' = [Cut(Prints) EXCEPT ![u] = Over]
  /\ UNCHANGED <<row, disk, guard, logins, registry>>

-----------------------------------------------------------------------------
InUse(k) == (\E u \in Turns : turn[u].at = "running" /\ turn[u].key = k)
            \/ (Holding("account", "asking") /\ guard.seen = k)

(* A child at work renews its credential and stores the new one.           *)
Refresh(k) ==
  /\ Open(k) /\ child[k] # Missing /\ InUse(k)
  /\ Write(madeIn[child[k]])
  /\ child' = [child EXCEPT ![k] = Len(madeIn) + 1]
  /\ UNCHANGED <<row, guard, logins, registry, turn>>

ChildExits(k) ==
  /\ Open(k)
  /\ CloseChildren({k})
  /\ UNCHANGED <<row, disk, guard, logins, registry>>

(* The broker and every process it started are gone; rows and files stay.  *)
Crash ==
  /\ guard' = Nobody
  /\ session' = [s \in Sessions |-> Settled]
  /\ current' = NoSession
  /\ turn' = [u \in Turns |-> IF turn[u].at = "new" THEN Fresh ELSE Over]
  /\ child' = [k \in Prints |-> NoChild]
  /\ UNCHANGED <<row, disk, registry>>

Request == \/ BeginStatus \/ EndStatus \/ BeginProbe \/ ProbeMissing \/ EndProbe
           \/ BeginApiKey \/ EndApiKey \/ Invalidate \/ BeginAccountRequest \/ EndAccountRequest
           \/ BeginLogout("logout") \/ BeginLogout("delete")
           \/ Terminate \/ RemoveCredential \/ DeleteProfile \/ RecordLogout
Login == \E s \in Sessions : \/ StartLogin(s) \/ CodexAnnounces(s) \/ SubmitCode(s) \/ CodexStores(s)
                             \/ CodexExits(s) \/ Settle(s)
Thread == \E t \in Threads : CreateThread(t) \/ ArchiveThread(t) \/ \E u \in Turns : CheckTurn(u, t)
Turn == \E u \in Turns : \/ InsertTurn(u) \/ BeginTurn(u) \/ StartChild(u) \/ EndTurn(u)
                         \/ ReadFailed(u) \/ MarkFailed(u) \/ CloseFailed(u)
Child == \E k \in Prints : Refresh(k) \/ ChildExits(k)

Next == Request \/ Login \/ Thread \/ Turn \/ Child \/ Crash

Spec == Init /\ [][Next]_vars

-----------------------------------------------------------------------------
RowType ==
  /\ profile \in [instance : Nat, status : Statuses, failed : Prints \union {NoPrint}]
  /\ instances \in Nat /\ profile.instance <= instances
DiskType ==
  /\ madeIn \in Seq(Nat) /\ Len(madeIn) <= MaxCredentials
  /\ file \in 0..Len(madeIn)
GuardType == guard \in [op : Requests, at : Stages, seen : Prints, failed : Prints \union {NoPrint}]
LoginType ==
  /\ session \in [Sessions -> [state : LoginStates, process : Processes, instance : Nat]]
  /\ current \in Sessions \union {NoSession}
RegistryType == bound \in [Threads -> Nat] /\ archived \subseteq Threads
TurnType == turn \in [Turns -> [at : TurnStages, instance : Nat, key : Prints, seen : Prints]]
ChildType == child \in [Prints -> -1..Len(madeIn)]

(* Every variable has its type: no instance id is used that was not drawn, *)
(* and no credential is held that was never written.                       *)
TypeOK ==
  /\ RowType /\ DiskType /\ GuardType /\ LoginType /\ RegistryType /\ TurnType /\ ChildType

(* Old and queued threads fail closed: a turn that runs belongs to the     *)
(* instance of the profile there is, and the child it runs on holds no     *)
(* credential that was made for another one.                               *)
TurnsRunOnTheirAccount ==
  \A u \in Turns : turn[u].at = "running" =>
    /\ turn[u].instance = profile.instance
    /\ child[turn[u].key] \notin {NoChild, Missing} => madeIn[child[turn[u].key]] = turn[u].instance

(* When a logout has removed the credential nothing is left that could     *)
(* bring it back, no login and no child, until it has written the row; and *)
(* as long as a deleted profile has not been asked for again.              *)
LogoutIsThorough ==
  guard.at = "forgetting" \/ profile.instance = NoInstance =>
    /\ file = Missing
    /\ \A s \in Sessions : ~Live(s)
    /\ \A k \in Prints : ~Open(k)

(* A profile is only ever reported as authenticated if somebody logged in  *)
(* to this instance of it: the watcher of a login that a deletion has      *)
(* cancelled does not report to the profile that takes its place.          *)
AuthenticatedWasLoggedIn ==
  profile.status = "authenticated" => \E k \in 1..Len(madeIn) : madeIn[k] = profile.instance
=============================================================================
