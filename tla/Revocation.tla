----------------------------- MODULE Revocation ------------------------------
(***************************************************************************)
(* SignIn with a history of the sessions written while a revocation was     *)
(* under way (auth-local lib.rs revoke_user).                               *)
(***************************************************************************)
EXTENDS SignIn

VARIABLE late           \* [Clients -> sessions stored since its list()]

rvars == <<svars, late>>

RInit == SInit /\ late = [c \in Clients |-> {}]

Stored == {s \in Token : sessions'[s] # None /\ sessions'[s] # sessions[s]}

RNext == /\ SNext
         /\ late' = [c \in Clients |->
                       IF pc[c] = "revoke" /\ pc'[c] = "revoke"
                         THEN late[c] \cup Stored ELSE {}]

RSpec == RInit /\ [][RNext]_rvars

\* "Revoke ALL user sessions" (SECURITY_RULES.md): when revoke_user has worked
\* off its list, the only sessions the user has left are those that a login or
\* a refresh stored while it was at work.
RevocationIsComplete ==
    \A c \in Clients :
      pc[c] = "revoke" /\ loc[c].todo = {} => SessionsOf(loc[c].uid) \subseteq late[c]
=============================================================================
