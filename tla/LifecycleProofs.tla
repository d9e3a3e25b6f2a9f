--------------------------- MODULE LifecycleProofs ---------------------------
(***************************************************************************)
(* Proofs about Lifecycle and the Auth it embeds, for any number of        *)
(* workers and of attempts, any lifetimes of tokens and a clock without    *)
(* bound on how far it goes: LifecycleInv is inductive.                    *)
(***************************************************************************)
EXTENDS Lifecycle, TLAPS

-----------------------------------------------------------------------------
(* The clock *)

LEMMA ModOf ==
    ASSUME NEW R \in Nat \ {0}, NEW q \in Nat, NEW r \in 0..R - 1
    PROVE  (q * R + r) % R = r
BY Z3

(* How far the clock is behind the last tick, one unit of time later.      *)
LEMMA NextMod ==
    ASSUME NEW R \in Nat \ {0}, NEW n \in Nat
    PROVE  /\ n % R \in 0..R - 1
           /\ (n + 1) % R = IF n % R = R - 1 THEN 0 ELSE (n % R) + 1
<1> PICK q \in Nat : q = n \div R
    BY Z3
<1>1. q * R \in Nat /\ q * R <= n /\ n < q * R + R
    BY Z3
<1> PICK r \in Int : r = n - q * R
    BY <1>1
<1>2. r \in 0..R - 1
    BY <1>1
<1>3. n = q * R + r
    BY <1>1
<1>4. n % R = r
    BY <1>2, <1>3, ModOf
<1>5. CASE r = R - 1
    <2>1. n + 1 = (q + 1) * R + 0
        <3>1. (q + 1) * R = q * R + R
            BY Z3
        <3> QED
            <4> PICK p \in Nat : p = q * R
                BY <1>1
            <4>1. n = p + r
                BY <1>3
            <4>2. n + 1 = (p + R) + 0
                BY <4>1, <1>5
            <4>3. (q + 1) * R = p + R
                BY <3>1
            <4> QED
                BY <4>2, <4>3
    <2>2. ((q + 1) * R + 0) % R = 0
        <3>1. q + 1 \in Nat /\ 0 \in 0..R - 1
            OBVIOUS
        <3> QED
            BY <3>1, ModOf
    <2> QED
        BY <1>4, <1>5, <2>1, <2>2
<1>6. CASE r # R - 1
    <2>1. n + 1 = q * R + (r + 1)
        BY <1>1, <1>3
    <2>2. r + 1 \in 0..R - 1
        BY <1>2, <1>6
    <2>3. (q * R + (r + 1)) % R = r + 1
        BY <2>2, ModOf
    <2> QED
        BY <1>4, <1>6, <2>1, <2>3
<1> QED
    BY <1>2, <1>4, <1>5, <1>6

-----------------------------------------------------------------------------
(* The token and its renewal.  These steps are all that Auth takes.        *)

AuthInv == AuthTypeOK /\ TicksHandled

LEMMA ClockFacts ==
    AuthTypeOK => LastTick \in Nat /\ LastTick <= now /\ LastTick > now - RefreshTime
<1> SUFFICES ASSUME AuthTypeOK PROVE LastTick \in Nat /\ LastTick <= now /\ LastTick > now - RefreshTime
    OBVIOUS
<1>1. now \in Nat /\ RefreshTime \in Nat \ {0}
    BY AuthAssumption DEF AuthTypeOK, AuthAssumption
<1>2. PICK r : r = now % RefreshTime /\ r \in 0..RefreshTime - 1
    BY <1>1, NextMod
<1>3. r <= now
    BY <1>1, <1>2, Z3
<1> QED
    BY <1>1, <1>2, <1>3 DEF LastTick

LEMMA PassTimeKeeps ==
    ASSUME AuthInv, PassTime
    PROVE  AuthInv'
<1> USE DEF PassTime, AuthInv
<1>1. AuthTypeOK'
    BY AuthAssumption DEF AuthTypeOK, AuthAssumption
<1>2. ASSUME refresher = "select"  PROVE TicksHandled'
    <2>1. tick = Never /\ now \in Nat /\ since \in 0..now /\ expireTime \in Nat /\ RefreshTime \in Nat \ {0}
          /\ now' = now + 1 /\ since' = since /\ expireTime' = expireTime /\ refresher' = "select"
        BY <1>2, AuthAssumption DEF AuthTypeOK, AuthAssumption
    <2>2. LastTick > since => expireTime - LastTick > 2 * RefreshTime
        BY <1>2, <2>1 DEF TicksHandled
    <2>3. PICK r : r = now % RefreshTime /\ r \in 0..RefreshTime - 1
        BY <2>1, NextMod
    <2>4. (now + 1) % RefreshTime = IF r = RefreshTime - 1 THEN 0 ELSE r + 1
        BY <2>1, <2>3, NextMod
    <2>5. LastTick = now - r
        BY <2>3 DEF LastTick
    <2>6. PICK t : t = LastTick'
        OBVIOUS
    <2>7. t = (now + 1) - (IF r = RefreshTime - 1 THEN 0 ELSE r + 1)
        BY <2>1, <2>4, <2>6 DEF LastTick
    <2>8. CASE r = RefreshTime - 1
        <3>1. now' % RefreshTime = 0
            BY <2>1, <2>4, <2>8
        <3>2. tick' = now + 1
            BY <1>2, <2>1, <3>1 DEF Ticking
        <3>3. now + 1 - RefreshTime > since => expireTime - (now + 1) > RefreshTime
            BY <2>1, <2>2, <2>5, <2>8
        <3>4. tick' # Never
            BY <2>1, <3>2, AuthAssumption DEF AuthAssumption
        <3>5. now' - RefreshTime > since' => expireTime' - now' > RefreshTime'
            BY <2>1, <3>3
        <3>6. tick' = now'
            BY <2>1, <3>2
        <3> QED
            BY <3>4, <3>5, <3>6 DEF TicksHandled
    <2>9. CASE r # RefreshTime - 1
        <3>1. now' % RefreshTime # 0
            BY <2>1, <2>3, <2>4, <2>9
        <3>2. tick' = Never
            BY <1>2, <2>1, <3>1 DEF Ticking
        <3>3. LastTick' = LastTick
            BY <2>1, <2>3, <2>5, <2>6, <2>7, <2>9
        <3> QED
            BY <2>1, <2>2, <3>2, <3>3 DEF TicksHandled
    <2> QED
        BY <2>8, <2>9
<1>3. ASSUME refresher # "select"  PROVE TicksHandled'
    BY <1>3 DEF TicksHandled
<1> QED
    BY <1>1, <1>2, <1>3

(* A renewal, or a login, that leaves the select anew.                     *)
LEMMA SelectAnew ==
    ASSUME AuthTypeOK', tick' \in {Never} \cup 0..now, now' = now, since' = now
    PROVE  TicksHandled'
<1>1. (LastTick \in Nat /\ LastTick <= now /\ LastTick > now - RefreshTime)'
    BY ClockFacts, PTL
<1>2. ~ LastTick' > since'
    <2>1. now' \in Nat
        BY DEF AuthTypeOK
    <2> QED
        BY <1>1, <2>1
<1> QED
    BY <1>2 DEF TicksHandled

LEMMA SkipTickKeeps ==
    ASSUME AuthInv, SkipTick
    PROVE  AuthInv'
<1> USE DEF SkipTick, AuthInv
<1>1. AuthTypeOK'
    BY DEF AuthTypeOK
<1>2. now \in Nat /\ since \in 0..now /\ expireTime \in Nat /\ tick \in 0..now /\ RefreshTime \in Nat \ {0}
    BY AuthAssumption DEF AuthTypeOK, AuthAssumption
<1>3. LastTick \in Nat /\ LastTick <= now
    BY ClockFacts
<1>4. LastTick > since => expireTime - LastTick > 2 * RefreshTime
    <2>1. CASE since = now
        BY <1>2, <1>3, <2>1
    <2>2. CASE tick = now
        BY <1>2, <1>3, <2>2 DEF Fresh
    <2> QED
        BY <2>1, <2>2 DEF TicksHandled
<1>5. LastTick' = LastTick
    BY DEF LastTick
<1> QED
    BY <1>1, <1>4, <1>5 DEF TicksHandled

LEMMA RenewalKeeps ==
    ASSUME AuthInv, scheduleRefresh, ~SkipTick
    PROVE  AuthInv'
<1> USE AuthAssumption DEF AuthInv, AuthAssumption, AuthTypeOK
<1>1. CASE StartRenewal
    BY <1>1 DEF StartRenewal, TicksHandled
<1>2. ASSUME NEW i \in Instances, NEW l \in Lifetimes \cup {Never}, Renew(i, l)
      PROVE AuthInv'
    <2>1. AuthTypeOK'
        BY <1>2 DEF Renew, SetToken
    <2> QED
        BY <1>2, <2>1, SelectAnew DEF Renew, SetToken
<1>3. CASE RenewFails
    <2>1. AuthTypeOK'
        BY <1>3 DEF RenewFails, GiveUpRenewal
    <2>2. CASE GiveUpRenewal
        BY <1>3, <2>1, <2>2, SelectAnew DEF RenewFails, GiveUpRenewal
    <2>3. CASE refresher' = "pause"
        BY <2>1, <2>3 DEF TicksHandled
    <2> QED
        BY <1>3, <2>2, <2>3 DEF RenewFails
<1>4. CASE RetryRenewal
    <2>1. AuthTypeOK'
        BY <1>4 DEF RetryRenewal, GiveUpRenewal
    <2>2. CASE GiveUpRenewal
        BY <1>4, <2>1, <2>2, SelectAnew DEF RetryRenewal, GiveUpRenewal
    <2>3. CASE refresher' = "renew"
        BY <2>1, <2>3 DEF TicksHandled
    <2> QED
        BY <1>4, <2>2, <2>3 DEF RetryRenewal
<1>5. CASE StopRefresher
    BY <1>5 DEF StopRefresher, TicksHandled
<1> QED
    BY <1>1, <1>2, <1>3, <1>4, <1>5 DEF scheduleRefresh

LEMMA LoginKeeps ==
    ASSUME AuthInv, NEW i \in Instances, NEW l \in Lifetimes \cup {Never}, Login(i, l)
    PROVE  AuthInv'
<1> USE AuthAssumption DEF AuthInv, AuthAssumption, Login, SetToken
<1>1. AuthTypeOK'
    BY DEF AuthTypeOK
<1> QED
    BY <1>1, SelectAnew DEF AuthTypeOK

LEMMA AuthInvGivesTimely == AuthInv => RenewalTimely
<1> SUFFICES ASSUME AuthInv, refresher = "select", expireTime # Never, now > expireTime - RefreshTime
             PROVE now - since <= RefreshTime
    BY DEF RenewalTimely
<1>1. now \in Nat /\ since \in 0..now /\ expireTime \in Nat /\ RefreshTime \in Nat \ {0}
    BY AuthAssumption DEF AuthTypeOK, AuthAssumption, AuthInv
<1>2. LastTick \in Nat /\ LastTick <= now /\ LastTick > now - RefreshTime
    BY ClockFacts DEF AuthInv
<1>3. CASE tick = Never
    <2>1. LastTick > since => expireTime - LastTick > 2 * RefreshTime
        BY <1>3 DEF AuthInv, TicksHandled
    <2> QED
        BY <1>1, <1>2, <2>1
<1>4. CASE tick # Never
    <2>1. since = now \/ (now - RefreshTime > since => expireTime - now > RefreshTime)
        BY <1>4 DEF AuthInv, TicksHandled
    <2> QED
        BY <1>1, <2>1
<1> QED
    BY <1>3, <1>4

LEMMA AuthUnchanged ==
    ASSUME AuthInv, UNCHANGED authVars
    PROVE  AuthInv'
BY DEF AuthInv, AuthTypeOK, TicksHandled, LastTick, authVars

-----------------------------------------------------------------------------
(* The process *)

LEMMA LastOfAppend ==
    ASSUME NEW S, NEW s \in Seq(S), NEW e \in S
    PROVE  Append(s, e) \in Seq(S) /\ Last(Append(s, e)) = e
BY DEF Last

LEMMA InitKeeps == Init => LifecycleInv
<1> SUFFICES ASSUME Init PROVE LifecycleInv
    OBVIOUS
<1> USE DEF Init, AuthInit
<1>1. TypeOK
    BY DEF TypeOK
<1>2. AuthTypeOK /\ TicksHandled
    BY DEF AuthTypeOK, TicksHandled
<1>3. InstanceOK
    BY DEF InstanceOK
<1>4. ShutdownOK
    BY DEF ShutdownOK
<1> QED
    BY <1>1, <1>2, <1>3, <1>4 DEF LifecycleInv

LEMMA ConnectingKeeps ==
    ASSUME LifecycleInv, Connecting
    PROVE  LifecycleInv'
<1> USE DEF LifecycleInv, Goto, workVars
<1>1. ASSUME NEW i \in NewIds, NEW l \in Lifetimes \cup {Never}, Connect(i, l)
      PROVE LifecycleInv'
    <2> USE DEF Connect
    <2>1. i \in Instances /\ i # NoInstance
        BY <1>1, AuthAssumption DEF NewIds, AuthAssumption
    <2>2. AuthTypeOK' /\ TicksHandled'
        BY <1>1, <2>1, LoginKeeps DEF AuthInv
    <2>3. TypeOK'
        BY <1>1, <2>1 DEF TypeOK, Login, SetToken
    <2>4. registered' \in Seq(Instances) /\ Last(registered') = i
        BY <1>1, <2>1, LastOfAppend DEF InstanceOK
    <2>5. exits = {}
        BY <1>1 DEF ShutdownOK
    <2>6. InstanceOK'
        BY <1>1, <2>1, <2>4, <2>5 DEF InstanceOK, Login, SetToken
    <2>7. ShutdownOK'
        BY <1>1 DEF ShutdownOK
    <2> QED
        BY <2>2, <2>3, <2>6, <2>7
<1>2. ASSUME NEW ids \in Seq(Instances), ConnectFails(ids)
      PROVE LifecycleInv'
    <2> USE DEF ConnectFails
    <2>1. AuthTypeOK' /\ TicksHandled'
        BY <1>2, AuthUnchanged DEF AuthInv
    <2>2. TypeOK'
        BY <1>2 DEF TypeOK, authVars
    <2>3. InstanceOK'
        <3>1. registered' \in Seq(Instances)
            BY <1>2 DEF InstanceOK
        <3>2. exits' = {} /\ instanceID' = NoInstance
            BY <1>2 DEF InstanceOK, ShutdownOK, authVars
        <3> QED
            BY <1>2, <3>1, <3>2 DEF InstanceOK, authVars
    <2>4. ShutdownOK'
        BY <1>2 DEF ShutdownOK
    <2> QED
        BY <2>1, <2>2, <2>3, <2>4
<1>3. \A i \in NewIds : <<i>> \in Seq(Instances)
    BY DEF NewIds
<1>4. <<>> \in Seq(Instances)
    OBVIOUS
<1> QED
    BY <1>1, <1>2, <1>3, <1>4 DEF Connecting

LEMMA MainKeeps ==
    ASSUME LifecycleInv, Main \/ StartFails \/ Kill \/ TakeSignal
    PROVE  LifecycleInv'
<1> USE DEF LifecycleInv, Goto, MainVarsBut, workVars
<1>1. UNCHANGED <<authVars, registered, renamed, attempts, misses, ping, spoilt>>
    BY DEF Main, StartFails, Kill, TakeSignal, StartWorkers, Notify, SeeContext, ReportExit, Shutdown,
           CleanUp, CleanUpPanics, MainReturns
<1>2. AuthTypeOK' /\ TicksHandled'
    BY <1>1, AuthUnchanged DEF AuthInv
<1>3. TypeOK'
    <2>1. instanceID' = instanceID /\ refresher' = refresher
        BY <1>1 DEF authVars
    <2>2. work' = work \/ work' = [w \in Workers |-> "select"]
        BY DEF Main, StartFails, Kill, TakeSignal, StartWorkers, Notify, SeeContext, ReportExit, Shutdown,
               CleanUp, CleanUpPanics, MainReturns
    <2>3. phase' \in {"notify", "wait", "exit", "shutdown", "clean", "return", "ended"}
        BY DEF Main, StartFails, Kill, TakeSignal, StartWorkers, Notify, SeeContext, ReportExit, Shutdown,
               CleanUp, CleanUpPanics, MainReturns
    <2> QED
        BY <1>1, <2>1, <2>2, <2>3 DEF TypeOK
<1>4. InstanceOK'
    <2>1. UNCHANGED <<instanceID, registered, renamed, refresher>>
        BY <1>1 DEF authVars
    <2>2. phase' # "connect"
        BY DEF Main, StartFails, Kill, TakeSignal, StartWorkers, Notify, SeeContext, ReportExit, Shutdown,
               CleanUp, CleanUpPanics, MainReturns
    <2>3. phase' = "ended" \/ phase \notin {"connect", "ended"}
        BY DEF Main, StartFails, Kill, TakeSignal, StartWorkers, Notify, SeeContext, ReportExit, Shutdown,
               CleanUp, CleanUpPanics, MainReturns
    <2>4. exits' = exits \/ (exits' = exits \cup {instanceID} /\ phase = "exit")
        BY DEF Main, StartFails, Kill, TakeSignal, StartWorkers, Notify, SeeContext, ReportExit, Shutdown,
               CleanUp, CleanUpPanics, MainReturns
    <2>5. phase = "exit" =>
            exits = {} /\ instanceID \in {Last(registered)} \cup renamed
        BY DEF InstanceOK, ShutdownOK
    <2> QED
        BY <2>1, <2>2, <2>3, <2>4, <2>5 DEF InstanceOK
<1>5. ShutdownOK'
    <2>1. ctxDone => ctxDone'
        BY DEF Main, StartFails, Kill, TakeSignal, StartWorkers, Notify, SeeContext, ReportExit, Shutdown,
               CleanUp, CleanUpPanics, MainReturns
    <2>2. phase' \in {"exit", "shutdown", "clean", "return"} \/ removed' \/ exits' # {} => ctxDone'
        BY DEF Main, StartFails, Kill, TakeSignal, StartWorkers, Notify, SeeContext, ReportExit, Shutdown,
               CleanUp, CleanUpPanics, MainReturns, ShutdownOK
    <2>3. exits' # {} => phase' \in {"shutdown", "clean", "return", "ended"}
        BY DEF Main, StartFails, Kill, TakeSignal, StartWorkers, Notify, SeeContext, ReportExit, Shutdown,
               CleanUp, CleanUpPanics, MainReturns, ShutdownOK
    <2>4. ASSUME NEW w \in Workers  PROVE work'[w] = work[w] \/ work'[w] = "select"
        BY DEF Main, StartFails, Kill, TakeSignal, StartWorkers, Notify, SeeContext, ReportExit, Shutdown,
               CleanUp, CleanUpPanics, MainReturns
    <2> QED
        BY <1>1, <2>1, <2>2, <2>3, <2>4 DEF ShutdownOK, TypeOK
<1> QED
    BY <1>2, <1>3, <1>4, <1>5

LEMMA ClientKeeps ==
    ASSUME LifecycleInv, Client
    PROVE  LifecycleInv'
<1> USE DEF LifecycleInv, mainVars, workVars
<1>1. UNCHANGED <<mainVars, workVars>> /\ phase # "ended"
    BY DEF Client
<1>2. AuthTypeOK' /\ TicksHandled'
    <2>1. CASE PassTime
        BY <2>1, PassTimeKeeps DEF AuthInv
    <2>2. CASE scheduleRefresh
        BY <2>2, SkipTickKeeps, RenewalKeeps DEF AuthInv
    <2>3. CASE UNCHANGED authVars
        BY <2>3, AuthUnchanged DEF AuthInv
    <2> QED
        BY <2>1, <2>2, <2>3 DEF Client
<1>3. \/ instanceID' = instanceID /\ refresher' = refresher
      \/ /\ refresher # "off"
         /\ instanceID' = instanceID \/ (InsecureJwt /\ instanceID' \in Instances)
    <2>1. CASE PassTime \/ UNCHANGED authVars
        BY <2>1 DEF PassTime, authVars
    <2>2. CASE SkipTick \/ StartRenewal \/ RenewFails \/ RetryRenewal \/ StopRefresher
        BY <2>2 DEF SkipTick, StartRenewal, RenewFails, RetryRenewal, StopRefresher
    <2>3. ASSUME NEW i \in Instances, NEW l \in Lifetimes \cup {Never}, Renew(i, l)
          PROVE /\ refresher # "off"
                /\ instanceID' = instanceID \/ (InsecureJwt /\ instanceID' \in Instances)
        BY <2>3 DEF Renew, SetToken
    <2> QED
        BY <2>1, <2>2, <2>3 DEF Client, scheduleRefresh
<1>4. renamed' = IF instanceID' = instanceID THEN renamed ELSE renamed \cup {instanceID'}
    BY DEF Client
<1>5. TypeOK'
    BY <1>1, <1>2, <1>3, <1>4 DEF TypeOK, AuthTypeOK
<1>6. InstanceOK'
    <2>1. phase = "connect" => UNCHANGED <<instanceID, refresher>>
        BY <1>3 DEF InstanceOK
    <2>2. phase # "connect" => instanceID' # NoInstance
        BY <1>1, <1>3, AuthAssumption DEF InstanceOK, AuthAssumption
    <2> QED
        BY <1>1, <1>3, <1>4, <2>1, <2>2 DEF InstanceOK
<1>7. ctxDone => ctxDone'
    BY DEF Client, Ping, StartPing, PingOk, PingFails, StopPing
<1>8. ShutdownOK'
    BY <1>1, <1>7 DEF ShutdownOK
<1> QED
    BY <1>2, <1>5, <1>6, <1>8

LEMMA WorkerKeeps ==
    ASSUME LifecycleInv, NEW w \in Workers, Worker(w)
    PROVE  LifecycleInv'
<1> USE DEF LifecycleInv, mainVars
<1>1. PICK from, to \in {"off", "select", "judge", "execute", "report", "sent", "exited"} : Proceed(w, from, to)
    BY DEF Worker, Fetch, Exit, Execute, CompareOutput, Conclude, SendReport, SkipReport, EndReport
<1>2. UNCHANGED <<authVars, renamed, ctxDone, mainVars, ping, misses>> /\ work[w] = from
      /\ work' = [work EXCEPT ![w] = to]
    BY <1>1 DEF Proceed
<1>3. AuthTypeOK' /\ TicksHandled'
    BY <1>2, AuthUnchanged DEF AuthInv
<1>4. spoilt' \in {spoilt, spoilt \ {w}, spoilt \cup {w}}
    BY DEF Worker, Fetch, Exit, Execute, CompareOutput, Conclude, SendReport, SkipReport, EndReport, ReadFiles
<1>5. TypeOK'
    BY <1>2, <1>4 DEF TypeOK, authVars
<1>6. InstanceOK'
    BY <1>2 DEF InstanceOK, authVars
<1>7. w \in spoilt' => ctxDone /\ work'[w] \in {"report", "select", "exited"}
    <2>1. work'[w] = to
        BY <1>2 DEF TypeOK
    <2> USE DEF Proceed, ReadFiles, TypeOK
    <2>2. CASE Fetch(w)
        BY <2>2 DEF Fetch
    <2>3. CASE Conclude(w)
        BY <2>3 DEF Conclude, ShutdownOK
    <2>4. CASE Execute(w) \/ CompareOutput(w) \/ SendReport(w) \/ EndReport(w)
        BY <2>4 DEF Execute, CompareOutput, SendReport, EndReport, ShutdownOK
    <2>5. CASE Exit(w) \/ SkipReport(w)
        BY <2>5 DEF Exit, SkipReport
    <2> QED
        BY <2>2, <2>3, <2>4, <2>5 DEF Worker
<1>8. ASSUME NEW v \in spoilt', v # w
      PROVE  ctxDone /\ work'[v] \in {"report", "select", "exited"}
    <2>1. v \in spoilt /\ v \in Workers /\ work'[v] = work[v]
        BY <1>2, <1>4, <1>8 DEF TypeOK
    <2> QED
        BY <2>1 DEF ShutdownOK
<1>9. ShutdownOK'
    BY <1>2, <1>7, <1>8 DEF ShutdownOK
<1> QED
    BY <1>3, <1>5, <1>6, <1>9

LEMMA StutterKeeps ==
    ASSUME LifecycleInv, UNCHANGED vars
    PROVE  LifecycleInv'
<1> USE DEF LifecycleInv, vars, mainVars, workVars
<1>1. AuthTypeOK' /\ TicksHandled'
    BY AuthUnchanged DEF AuthInv
<1>2. TypeOK' /\ InstanceOK' /\ ShutdownOK'
    BY DEF TypeOK, InstanceOK, ShutdownOK, authVars
<1> QED
    BY <1>1, <1>2

LEMMA LifecycleInvariant == Spec => []LifecycleInv
<1>1. LifecycleInv /\ [Next]_vars => LifecycleInv'
    BY ConnectingKeeps, MainKeeps, ClientKeeps, WorkerKeeps, StutterKeeps DEF Next
<1> QED
    BY InitKeeps, <1>1, PTL DEF Spec

-----------------------------------------------------------------------------
(* The theorems *)

(* One exit is reported at most, and it is that of the last registration,  *)
(* or of an id that a renewal has put in its place, which happens only     *)
(* where InsecureJwt is set: however often connectBackend had to register, *)
(* no registration that it has abandoned is reported in its place.         *)
THEOREM ExitNamesRightInstance == Spec => []ExitNamesInstance
<1>1. LifecycleInv => ExitNamesInstance
    BY DEF LifecycleInv, InstanceOK, ExitNamesInstance
<1> QED
    BY LifecycleInvariant, <1>1, PTL

(* A verdict that a worker reaches after fsCleanUp has removed the files   *)
(* is never sent, although main does not wait for the workers: the files   *)
(* go after the context is done, and no report starts from then on.        *)
THEOREM NoVerdictAfterCleanUp == Spec => []VerdictsBeforeCleanUp
<1>1. LifecycleInv => VerdictsBeforeCleanUp
    BY DEF LifecycleInv, ShutdownOK, VerdictsBeforeCleanUp
<1> QED
    BY LifecycleInvariant, <1>1, PTL

(* After the exit is reported no worker starts a call to fetch a task or   *)
(* to report a result.                                                     *)
THEOREM NothingStartsAfterExit == Spec => QuietAfterExit
<1> DEFINE Quiet == exits # {} => \A w \in Workers :
        /\ work[w] = "select" => work'[w] \in {"select", "exited"}
        /\ work'[w] = "sent" => work[w] = "sent"
<1>1. ASSUME LifecycleInv, [Next]_vars PROVE Quiet
    <2> SUFFICES ASSUME exits # {}, NEW w \in Workers
                 PROVE  /\ work[w] = "select" => work'[w] \in {"select", "exited"}
                        /\ work'[w] = "sent" => work[w] = "sent"
        OBVIOUS
    <2>1. ctxDone /\ phase \in {"shutdown", "clean", "return", "ended"}
        BY <1>1 DEF LifecycleInv, ShutdownOK
    <2>2. ASSUME NEW v \in Workers, Worker(v)
          PROVE  work' = work \/ \E from, to \in {"select", "judge", "execute", "report", "sent", "exited"} :
                    /\ Proceed(v, from, to)
                    /\ from = "select" => to = "exited"
                    /\ to # "sent"
        BY <2>1, <2>2 DEF Worker, Fetch, Exit, Execute, CompareOutput, Conclude, SendReport, SkipReport, EndReport
    <2>3. CASE \E v \in Workers : Worker(v)
        BY <1>1, <2>2, <2>3 DEF Proceed, LifecycleInv, TypeOK
    <2>4. CASE work' = work
        BY <2>4
    <2>5. CASE Next /\ ~ \E v \in Workers : Worker(v)
        <3>1. work' = work
            BY <2>1, <2>5 DEF Next, Connecting, Connect, ConnectFails, Main, StartFails, Kill, TakeSignal,
                StartWorkers, Notify, SeeContext, ReportExit, Shutdown, CleanUp, CleanUpPanics, MainReturns,
                Client, Goto, MainVarsBut, workVars
        <3> QED
            BY <3>1
    <2>6. CASE UNCHANGED vars
        BY <2>6 DEF vars, workVars
    <2> QED
        BY <1>1, <2>3, <2>5, <2>6
<1> QED
    BY LifecycleInvariant, <1>1, PTL DEF Spec, QuietAfterExit

(* A token whose last tick period runs was set, or its renewal given up,   *)
(* at most one period ago: no tick that should have renewed it was missed. *)
THEOREM TokensAreRenewed == Spec => []RenewalTimely
<1>1. LifecycleInv => RenewalTimely
    BY AuthInvGivesTimely DEF LifecycleInv, AuthInv
<1> QED
    BY LifecycleInvariant, <1>1, PTL
=============================================================================
