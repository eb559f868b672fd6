------------------------------ MODULE ServiceJWT ------------------------------
(***************************************************************************)
(* The provider's service identity (ServiceJWT, internal/incident/         *)
(* authn.go): Get returns the JWT it has until Margin before its expiry,   *)
(* and else exchanges the projected token at authn for another, one        *)
(* exchange at a time.  Its callers are the RCA calls and the comparison   *)
(* calls, each in a goroutine of its own; one without a JWT goes on        *)
(* unauthenticated.                                                        *)
(***************************************************************************)
EXTENDS Integers, Budget

CONSTANTS
    Callers,    \* the goroutines that call Get
    Nobody,     \* the mutex is free
    Lifetimes,  \* how long the JWTs that authn issues last; 0: its claims have no exp
    Margin,     \* how long before its expiry a JWT is exchanged, in clock units
    NoExp,      \* how long a JWT without exp is taken to last
    Enabled     \* a URL is set and the projected token is mounted

ASSUME ServiceJWTAssumption ==
    /\ Nobody \notin Callers
    /\ Lifetimes \subseteq Nat
    /\ Margin \in Nat
    /\ NoExp \in Nat
    /\ Enabled \in BOOLEAN

VARIABLES
    clock,
    issued,     \* how many JWTs authn has issued: the number of the last
    cached,     \* the JWT Get has, and its expiry
    holder,     \* who holds the mutex, during its exchange
    get         \* per caller: its call of Get, and the number of the JWT it was given

jwtVars == <<clock, issued, cached, holder, get>>

NoJWT == [id |-> 0, exp |-> 0]
NotCalling == [pc |-> "idle", jwt |-> NoJWT]

JWT == [id : Nat, exp : Nat]
Call == [pc : {"idle", "waiting", "exchanging", "answered"}, jwt : JWT]

JWTInit ==
    /\ clock = 0
    /\ issued = 0
    /\ cached = NoJWT
    /\ holder = Nobody
    /\ get = [c \in Callers |-> NotCalling]

\* The process ends, and with it the cache and the calls.
JWTStops ==
    /\ cached' = NoJWT
    /\ holder' = Nobody
    /\ get' = [c \in Callers |-> NotCalling]
    /\ UNCHANGED <<clock, issued>>

Fresh(jwt) == jwt.id # 0 /\ clock < jwt.exp - Margin

Answered(jwt) == [pc |-> "answered", jwt |-> jwt]

\* Get is called; without a URL or a mounted token it answers at once, with no JWT.
CallGet(c) ==
    /\ get[c].pc = "idle"
    /\ get' = [get EXCEPT ![c] = IF Enabled THEN [NotCalling EXCEPT !.pc = "waiting"]
                                 ELSE Answered(NoJWT)]
    /\ UNCHANGED <<clock, issued, cached, holder>>

\* Fault: nothing keeps two exchanges apart.
Lock_Free(c) ==
    /\ get[c].pc = "waiting"
    /\ IF Fresh(cached)
       THEN get' = [get EXCEPT ![c] = Answered(cached)] /\ UNCHANGED holder
       ELSE get' = [get EXCEPT ![c].pc = "exchanging"] /\ holder' = c
    /\ UNCHANGED <<clock, issued, cached, left>>

\* The lock is taken; only then the cache is looked at.
Lock(c) ==
    /\ get[c].pc = "waiting"
    /\ holder = Nobody
    /\ IF Fresh(cached)
       THEN get' = [get EXCEPT ![c] = Answered(cached)] /\ UNCHANGED holder
       ELSE get' = [get EXCEPT ![c].pc = "exchanging"] /\ holder' = c
    /\ UNCHANGED <<clock, issued, cached, left>>

\* authn issues a JWT.
Issued(lifetime) == [id |-> issued + 1, exp |-> clock + (IF lifetime = 0 THEN NoExp ELSE lifetime)]

\* Fault: an exchange that fails returns with the lock held.
Released_OnSuccess(jwt) == IF jwt.id # 0 THEN Nobody ELSE holder

\* The deferred unlock.
Released(jwt) == Nobody

\* The exchange ends: the new JWT is kept and given out, or it failed and the caller gets none.
Exchange(c) ==
    /\ get[c].pc = "exchanging"
    /\ \/ \E lifetime \in Lifetimes :
            /\ issued' = issued + 1
            /\ cached' = Issued(lifetime)
            /\ get' = [get EXCEPT ![c] = Answered(Issued(lifetime))]
            /\ holder' = Released(Issued(lifetime))
            /\ UNCHANGED left
       \/ /\ CallFails
          /\ get' = [get EXCEPT ![c] = Answered(NoJWT)]
          /\ holder' = Released(NoJWT)
          /\ UNCHANGED <<issued, cached>>
    /\ UNCHANGED clock

\* The caller's own call, which carried the JWT, is over.
CallOver(c) ==
    /\ get[c].pc = "answered"
    /\ get' = [get EXCEPT ![c] = NotCalling]
    /\ UNCHANGED <<clock, issued, cached, holder>>

JWTTick ==
    /\ Spend("ticks")
    /\ clock' = clock + 1
    /\ UNCHANGED <<issued, cached, holder, get>>

\* authnHTTP's timeout ends every exchange.  A Go mutex that a waiter has missed for a
\* millisecond goes to the waiters in their order, so each gets it in the end.
JWTFairness ==
    \A c \in Callers :
        /\ WF_<<jwtVars, left>>(Exchange(c))
        /\ SF_<<jwtVars, left>>(Lock(c))

-----------------------------------------------------------------------------
(* Properties. *)

JWTTypeOK ==
    /\ clock \in Nat
    /\ issued \in Nat
    /\ cached \in JWT
    /\ holder \in Callers \cup {Nobody}
    /\ get \in [Callers -> Call]

\* Concurrent calls reuse one JWT: of those in use that are not about to expire, all are the one
\* in the cache, so that no caller exchanged one while another was still good.
OneFreshJWT == \A c \in Callers : Fresh(get[c].jwt) => get[c].jwt = cached

\* Every call of Get returns, with a JWT or without, whatever the exchanges before it did.
GetReturns ==
    \A c \in Callers : get[c].pc \in {"waiting", "exchanging"} ~> get[c].pc \in {"answered", "idle"}

=============================================================================
