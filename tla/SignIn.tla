------------------------------- MODULE SignIn --------------------------------
(***************************************************************************)
(* Password logins behind the login guard (main.rs auth_login over          *)
(* loginguard.rs and Sessions).  The guard is asked before the password is  *)
(* verified and told the outcome after it; the verification takes long, and *)
(* any number of attempts may be between the two.                           *)
(*                                                                         *)
(* A login is the id of its user.  (The code counts by the text it is given, *)
(* so a user who has an e-mail has two counters.)                           *)
(***************************************************************************)
EXTENDS Sessions

CONSTANT MaxAttempts    \* login_max_attempts, 0 switches the guard off

ASSUME MaxAttemptsAssumption == MaxAttempts \in Nat
ASSUME ClientsAssumption == IsFiniteSet(Clients)

VARIABLES fails,        \* [Users -> Nat]: LoginGuard.entries within the window
          trying        \* [Clients -> the login it verifies, or None]

svars == <<vars, fails, trying>>

SInit == /\ Init
         /\ fails = [u \in Users |-> 0]
         /\ trying = [c \in Clients |-> None]

\* Mutated form of Locked: one failure too many.
LockedLate(u) == MaxAttempts # 0 /\ fails[u] > MaxAttempts

\* locked_secs.  The lock ends when the window of the last failure does, for
\* fail sets both to now + window, so a count that has reached the limit and
\* has not been forgotten is a lock.
Locked(u) == MaxAttempts # 0 /\ fails[u] >= MaxAttempts

-----------------------------------------------------------------------------
\* An attempt that the guard lets through.  The others are answered 429.
Attempt(c, u) ==
    /\ pc[c] = "idle"
    /\ trying[c] = None
    /\ ~Locked(u)
    /\ trying' = [trying EXCEPT ![c] = u]
    /\ UNCHANGED <<vars, fails>>

\* The password is right.
Verified(c) ==
    /\ trying[c] # None
    /\ StartLogin(c, trying[c])
    /\ UNCHANGED <<fails, trying>>

\* The session is stored and clear() forgets the failures, the lock included.
LoginSucceeds(c) ==
    /\ trying[c] # None
    /\ Mint(c)
    /\ fails' = [fails EXCEPT ![trying[c]] = 0]
    /\ trying' = [trying EXCEPT ![c] = None]

\* Every error counts: a wrong password, no such user, a DPoP proof, a driver.
LoginFails(c) ==
    /\ trying[c] # None
    /\ \/ pc[c] = "idle" /\ UNCHANGED vars
       \/ MintFails(c)
    /\ fails' = IF MaxAttempts = 0 THEN fails
                ELSE [fails EXCEPT ![trying[c]] = @ + 1]
    /\ trying' = [trying EXCEPT ![c] = None]

\* A window passes since the last failure.
WindowPasses(u) ==
    /\ fails[u] > 0
    /\ fails' = [fails EXCEPT ![u] = 0]
    /\ UNCHANGED <<vars, trying>>

\* The guard is not asked for anything else.
Elsewhere ==
    /\ Next
    /\ \A c \in Clients : trying[c] # None => pc'[c] = pc[c]
    /\ UNCHANGED <<fails, trying>>

SNext == \/ \E c \in Clients : \/ \E u \in Users : Attempt(c, u)
                               \/ Verified(c) \/ LoginSucceeds(c) \/ LoginFails(c)
         \/ \E u \in Users : WindowPasses(u)
         \/ Elsewhere

SSpec == SInit /\ [][SNext]_svars

-----------------------------------------------------------------------------
\* Concurrent attempts get past the limit (loginguard.rs: "locked attempts
\* never reach verification"), but only those that were let through before the
\* failure that closed the lock: guesses within a window, counted or still
\* under way, are at most the limit and one for each other request.
GuessesBounded ==
    MaxAttempts # 0 =>
      \A u \in Users :
        fails[u] + Cardinality({c \in Clients : trying[c] = u})
          < MaxAttempts + Cardinality(Clients)
=============================================================================
