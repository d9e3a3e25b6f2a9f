-------------------------------- MODULE Auth --------------------------------
(***************************************************************************)
(* The authManager of src/external/backend/auth.go: the token and the      *)
(* instance id it got from login, and the goroutine scheduleRefresh that   *)
(* renews the token on the ticks of a timer.  The channel of a Go ticker   *)
(* holds one tick; it keeps the time at which it fired, and further ticks  *)
(* are dropped.  A token is known by its expiry only.  Module Lifecycle    *)
(* embeds these actions.                                                   *)
(***************************************************************************)
EXTENDS Integers

CONSTANTS
    Instances,      \* ids that the backend gives to executors
    NoInstance,     \* the id before the first login
    RefreshTime,    \* defaultRefreshTime
    Lifetimes,      \* how long a token may last
    Never,          \* a token without an expiry; also: no tick waits
    MaxTime,        \* bound on the clock
    RenewRetries,   \* retries of one renewal (defaultMaxRetryTimes)
    InsecureJwt     \* the configuration does not verify tokens

ASSUME AuthAssumption ==
    /\ NoInstance \notin Instances
    /\ RefreshTime \in Nat \ {0}
    /\ Lifetimes \subseteq Nat \ {0}
    /\ Never \notin Int
    /\ {MaxTime, RenewRetries} \subseteq Nat
    /\ InsecureJwt \in BOOLEAN

VARIABLES
    now,            \* the clock
    tick,           \* the time of the tick that waits in tick.C
    expireTime, instanceID,
    refresher,      \* where scheduleRefresh is
    renewals,       \* failed attempts of the running backoff.Retry
    since,          \* when the token was last set or its renewal given up
    ctxDone         \* the context of the process is cancelled

authVars == <<now, tick, expireTime, instanceID, refresher, renewals, since>>

AuthInit ==
    /\ now = 0 /\ since = 0 /\ renewals = 0
    /\ tick = Never /\ expireTime = Never
    /\ instanceID = NoInstance
    /\ refresher = "off"

Ticking == refresher \notin {"off", "stopped"}

(* updateToken accepts the token: scheduleRefresh goes on unless it never  *)
(* expires.                                                                *)
SetToken(i, lifetime) ==
    /\ instanceID' = i
    /\ expireTime' = IF lifetime = Never THEN Never ELSE now + lifetime
    /\ refresher' = IF lifetime = Never THEN "stopped" ELSE "select"
    /\ since' = now
    /\ renewals' = 0

(* login, by a new authManager. *)
Login(i, lifetime) ==
    /\ SetToken(i, lifetime)
    /\ tick' = Never
    /\ UNCHANGED now

-----------------------------------------------------------------------------

(* A tick that finds scheduleRefresh in its select is handled at once; the *)
(* calls and pauses of a renewal take any time.                            *)
PassTime ==
    /\ now < MaxTime
    /\ ~(refresher = "select" /\ tick # Never)
    /\ now' = now + 1
    /\ tick' = IF Ticking /\ tick = Never /\ now' % RefreshTime = 0 THEN now' ELSE tick
    /\ UNCHANGED <<expireTime, instanceID, refresher, renewals, since>>

(* Mutant: the token is renewed at the last tick before its expiry only.   *)
FreshUntilLastTick == expireTime - tick > RefreshTime

Fresh == expireTime - tick > 2 * RefreshTime

SkipTick ==
    /\ refresher = "select" /\ tick # Never
    /\ Fresh
    /\ tick' = Never
    /\ UNCHANGED <<now, expireTime, instanceID, refresher, renewals, since>>

StartRenewal ==
    /\ refresher = "select" /\ tick # Never
    /\ ~Fresh
    /\ tick' = Never
    /\ refresher' = "renew"
    /\ UNCHANGED <<now, expireTime, instanceID, renewals, since>>

(* refresh succeeds; only with InsecureJwt the id of the token replaces    *)
(* another.                                                                *)
Renew(i, lifetime) ==
    /\ refresher = "renew"
    /\ i = instanceID \/ InsecureJwt
    /\ SetToken(i, lifetime)
    /\ UNCHANGED <<now, tick>>

GiveUpRenewal ==
    /\ refresher' = "select"
    /\ since' = now
    /\ renewals' = 0

(* The call fails or its token is refused. *)
RenewFails ==
    /\ refresher = "renew"
    /\ \/ /\ renewals < RenewRetries /\ ~ctxDone
          /\ renewals' = renewals + 1
          /\ refresher' = "pause"
          /\ UNCHANGED since
       \/ (renewals = RenewRetries \/ ctxDone) /\ GiveUpRenewal
    /\ UNCHANGED <<now, tick, expireTime, instanceID>>

RetryRenewal ==
    /\ refresher = "pause"
    /\ \/ refresher' = "renew" /\ UNCHANGED <<since, renewals>>
       \/ ctxDone /\ GiveUpRenewal
    /\ UNCHANGED <<now, tick, expireTime, instanceID>>

StopRefresher ==
    /\ refresher = "select" /\ ctxDone
    /\ refresher' = "stopped"
    /\ UNCHANGED <<now, tick, expireTime, instanceID, renewals, since>>

scheduleRefresh ==
    \/ SkipTick \/ StartRenewal
    \/ \E i \in Instances, l \in Lifetimes \cup {Never} : Renew(i, l)
    \/ RenewFails \/ RetryRenewal \/ StopRefresher

-----------------------------------------------------------------------------

(* When no more than a tick period is left of a token, it was set, or its  *)
(* last renewal given up, at most one period ago: no tick that should have *)
(* renewed it was missed, although ticks are dropped or come late while a  *)
(* renewal is slow.                                                        *)
RenewalTimely ==
    refresher = "select" /\ ~ctxDone /\ expireTime # Never =>
        (now > expireTime - RefreshTime => now - since <= RefreshTime)

-----------------------------------------------------------------------------
(* The inductive invariant behind the theorems of LifecycleProofs.         *)

AuthTypeOK ==
    /\ now \in Nat /\ since \in 0..now
    /\ tick \in {Never} \cup 0..now
    /\ expireTime \in {Never} \cup Nat
    /\ instanceID \in Instances \cup {NoInstance}
    /\ refresher \in {"off", "select", "renew", "pause", "stopped"}
    /\ refresher \in {"select", "renew", "pause"} => expireTime # Never

LastTick == now - (now % RefreshTime)

(* While scheduleRefresh is in its select, every tick since the token was  *)
(* set has found it fresh; one that waits is older or has just come.       *)
TicksHandled ==
    refresher = "select" =>
        IF tick = Never
        THEN LastTick > since => expireTime - LastTick > 2 * RefreshTime
        ELSE \/ since = now
             \/ /\ tick = now
                /\ now - RefreshTime > since => expireTime - now > RefreshTime
=============================================================================
