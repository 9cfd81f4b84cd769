------------------------------ MODULE Sessions -------------------------------
(***************************************************************************)
(* Sessions of the local issuer (auth-local lib.rs: mint, login,            *)
(* login_external, refresh_classified, logout, revoke_user) with the         *)
(* handlers that call them (main.rs auth_login, auth_refresh, auth_logout). *)
(* A session is a document of __sessions; every driver call of a handler is *)
(* a step of its own.                                                       *)
(*                                                                         *)
(* Refresh tokens are numbered in the order they are drawn, and a session   *)
(* has the number of its first token.  Hashes are the tokens themselves.    *)
(***************************************************************************)
EXTENDS Naturals, FiniteSets

CONSTANTS Clients,      \* concurrent requests to the auth endpoints
          Users,        \* user ids
          MaxTokens,    \* bound: refresh tokens drawn in a behaviour
          None          \* no document

ASSUME MaxTokensAssumption == MaxTokens \in Nat

Token == 1..MaxTokens

\* uid, refresh_hash, prev_hash (0 before the first rotation).
Session == [uid : Users, cur : Token, prev : Token \cup {0}]

ASSUME NoneAssumption == None \notin Session \cup Users

VARIABLES users,        \* the ids that have a user document
          sessions,     \* __sessions: [Token -> Session or None]
          expired,      \* the sessions whose expires_at has passed
          next,         \* tokens drawn so far
          pc,           \* [Clients -> step of the handler]
          loc,          \* [Clients -> locals of the handler]
          spent,        \* history: the tokens that a rotation has replaced
          family        \* history: [Token -> the session it was drawn for, 0]

vars == <<users, sessions, expired, next, pc, loc, spent, family>>

Steps == {"idle", "mint", "expire", "rotate", "user", "trap", "list", "revoke",
          "logout", "gone"}

\* The presented token, the session found, its owner, what is left to revoke.
Locals == [token : Token \cup {0}, sid : Token \cup {0}, uid : Users \cup {None},
           todo : SUBSET Token]

NoLocals == [token |-> 0, sid |-> 0, uid |-> None, todo |-> {}]

Init == /\ users = Users
        /\ sessions = [s \in Token |-> None]
        /\ expired = {}
        /\ next = 0
        /\ pc = [c \in Clients |-> "idle"]
        /\ loc = [c \in Clients |-> NoLocals]
        /\ spent = {}
        /\ family = [t \in Token |-> 0]

-----------------------------------------------------------------------------
Goto(c, step, locals) == /\ pc' = [pc EXCEPT ![c] = step]
                         /\ loc' = [loc EXCEPT ![c] = locals]

Answer(c) == Goto(c, "idle", NoLocals)

Live == {s \in Token : sessions[s] # None}

\* session_by: at most one row whose field has the hash.
ByRefreshHash(t) == {s \in Live : sessions[s].cur = t}
ByPrevHash(t) == {s \in Live : sessions[s].prev = t}

Delete(s) == sessions' = [sessions EXCEPT ![s] = None]

\* A session runs past expires_at; a user document is deleted by an admin.
SessionExpires(s) ==
    /\ s \in Live \ expired
    /\ expired' = expired \cup {s}
    /\ UNCHANGED <<users, sessions, next, pc, loc, spent, family>>

UserRemoved(u) ==
    /\ users' = users \ {u}
    /\ UNCHANGED <<sessions, expired, next, pc, loc, spent, family>>

-----------------------------------------------------------------------------
\* login has found the user and verified the password; a failed login changes
\* nothing here.  login_external provisions the user it does not find.
StartLogin(c, u) ==
    /\ pc[c] = "idle"
    /\ u \in users
    /\ Goto(c, "mint", [NoLocals EXCEPT !.uid = u])
    /\ UNCHANGED <<users, sessions, expired, next, spent, family>>

StartExternalLogin(c, u) ==
    /\ pc[c] = "idle"
    /\ users' = users \cup {u}
    /\ Goto(c, "mint", [NoLocals EXCEPT !.uid = u])
    /\ UNCHANGED <<sessions, expired, next, spent, family>>

\* Mutated form of Mint: a session without prev_hash has no document there.
MintNoPrev(c) ==
    LET t == next + 1 IN
    /\ pc[c] = "mint"
    /\ next < MaxTokens
    /\ next' = t
    /\ sessions' = [sessions EXCEPT ![t] = [uid |-> loc[c].uid, cur |-> t]]
    /\ family' = [family EXCEPT ![t] = t]
    /\ Answer(c)
    /\ UNCHANGED <<users, expired, spent>>

Mint(c) ==
    LET t == next + 1 IN
    /\ pc[c] = "mint"
    /\ next < MaxTokens
    /\ next' = t
    /\ sessions' = [sessions EXCEPT ![t] = [uid |-> loc[c].uid, cur |-> t, prev |-> 0]]
    /\ family' = [family EXCEPT ![t] = t]
    /\ Answer(c)
    /\ UNCHANGED <<users, expired, spent>>

\* The DPoP proof is refused, or the session cannot be stored.
MintFails(c) ==
    /\ pc[c] = "mint"
    /\ Answer(c)
    /\ UNCHANGED <<users, sessions, expired, next, spent, family>>

-----------------------------------------------------------------------------
\* refresh_classified with any token drawn before: a retry, a second tab or
\* somebody else may present it again.  (A lookup that fails is not modelled:
\* it ends in the same 401 as a token nobody has, and changes nothing.)
StartRefresh(c, t) ==
    /\ pc[c] = "idle"
    /\ t <= next
    /\ \/ \E s \in ByRefreshHash(t) :
            Goto(c, IF s \in expired THEN "expire" ELSE "rotate",
                 [token |-> t, sid |-> s, uid |-> sessions[s].uid, todo |-> {}])
       \/ /\ ByRefreshHash(t) = {}
          /\ Goto(c, "trap", [NoLocals EXCEPT !.token = t])
    /\ UNCHANGED <<users, sessions, expired, next, spent, family>>

DeleteExpired(c) ==
    /\ pc[c] = "expire"
    /\ Delete(loc[c].sid)
    /\ Answer(c)
    /\ UNCHANGED <<users, expired, next, spent, family>>

\* Mutated form of Rotate: a failed copy that keeps the old refresh_hash.
RotateKeepingHash(c) ==
    LET t == next + 1  s == loc[c].sid IN
    /\ pc[c] = "rotate"
    /\ next < MaxTokens
    /\ next' = t
    /\ sessions' = [sessions EXCEPT
         ![s] = [uid |-> loc[c].uid, cur |-> loc[c].token, prev |-> loc[c].token]]
    /\ spent' = spent \cup {loc[c].token}
    /\ family' = [family EXCEPT ![t] = s]
    /\ Goto(c, "user", loc[c])
    /\ UNCHANGED <<users, expired>>

\* Mutated form of Rotate: the rotated session is stored under a new id.
RotateElsewhere(c) ==
    LET t == next + 1 IN
    /\ pc[c] = "rotate"
    /\ next < MaxTokens
    /\ next' = t
    /\ sessions' = [sessions EXCEPT
         ![t] = [uid |-> loc[c].uid, cur |-> t, prev |-> loc[c].token]]
    /\ spent' = spent \cup {loc[c].token}
    /\ family' = [family EXCEPT ![t] = loc[c].sid]
    /\ Goto(c, "user", loc[c])
    /\ UNCHANGED <<users, expired>>

\* set(merge = true) of the copy read at the start: an upsert, so a session
\* deleted meanwhile comes back, and the later of two rotations wins.
Rotate(c) ==
    LET t == next + 1  s == loc[c].sid IN
    /\ pc[c] = "rotate"
    /\ next < MaxTokens
    /\ next' = t
    /\ sessions' = [sessions EXCEPT
         ![s] = [uid |-> loc[c].uid, cur |-> t, prev |-> loc[c].token]]
    /\ spent' = spent \cup {loc[c].token}
    /\ family' = [family EXCEPT ![t] = s]
    /\ Goto(c, "user", loc[c])
    /\ UNCHANGED <<users, expired>>

RotateFails(c) ==
    /\ pc[c] = "rotate"
    /\ Answer(c)
    /\ UNCHANGED <<users, sessions, expired, next, spent, family>>

\* The rotation is stored before the user and the DPoP proof are looked at:
\* answered with the new token, or 401 with the token lost.  No state changes.
ReadUser(c) ==
    /\ pc[c] = "user"
    /\ Answer(c)
    /\ UNCHANGED <<users, sessions, expired, next, spent, family>>

\* A token that is no session's refresh_hash may be some session's prev_hash.
Trap(c) ==
    LET found == ByPrevHash(loc[c].token) IN
    /\ pc[c] = "trap"
    /\ \/ \E s \in found : Goto(c, "list", [loc[c] EXCEPT !.uid = sessions[s].uid])
       \/ found = {} /\ Goto(c, "gone", loc[c])
    /\ UNCHANGED <<users, sessions, expired, next, spent, family>>

Gone(c) ==
    /\ pc[c] = "gone"
    /\ Answer(c)
    /\ UNCHANGED <<users, sessions, expired, next, spent, family>>

\* revoke_user lists the user's sessions, then deletes them one by one and
\* stops at the first error.
SessionsOf(u) == {s \in Live : sessions[s].uid = u}

\* Mutated form of ListUser: with session_by's limit of one row.
ListOne(c) ==
    /\ pc[c] = "list"
    /\ \E some \in SUBSET SessionsOf(loc[c].uid) :
         /\ Cardinality(some) <= 1
         /\ Goto(c, "revoke", [loc[c] EXCEPT !.todo = some])
    /\ UNCHANGED <<users, sessions, expired, next, spent, family>>

ListUser(c) ==
    /\ pc[c] = "list"
    /\ Goto(c, "revoke", [loc[c] EXCEPT !.todo = SessionsOf(loc[c].uid)])
    /\ UNCHANGED <<users, sessions, expired, next, spent, family>>

RevokeOne(c) ==
    /\ pc[c] = "revoke"
    /\ \E s \in loc[c].todo :
         /\ Delete(s)
         /\ Goto(c, "revoke", [loc[c] EXCEPT !.todo = loc[c].todo \ {s}])
    /\ UNCHANGED <<users, expired, next, spent, family>>

RevokeEnds(c) ==
    /\ pc[c] = "revoke"
    /\ Answer(c)
    /\ UNCHANGED <<users, sessions, expired, next, spent, family>>

-----------------------------------------------------------------------------
\* logout with the session's current token; anything else answers 200 too.
StartLogout(c, t) ==
    /\ pc[c] = "idle"
    /\ \E s \in ByRefreshHash(t) :
         Goto(c, "logout", [NoLocals EXCEPT !.token = t, !.sid = s])
    /\ UNCHANGED <<users, sessions, expired, next, spent, family>>

Logout(c) ==
    /\ pc[c] = "logout"
    /\ Delete(loc[c].sid)
    /\ Answer(c)
    /\ UNCHANGED <<users, expired, next, spent, family>>

-----------------------------------------------------------------------------
Next == \/ \E s \in Token : SessionExpires(s)
        \/ \E u \in Users : UserRemoved(u)
        \/ \E c \in Clients :
             \/ \E u \in Users : StartLogin(c, u) \/ StartExternalLogin(c, u)
             \/ \E t \in Token : StartRefresh(c, t) \/ StartLogout(c, t)
             \/ Mint(c) \/ MintFails(c)
             \/ DeleteExpired(c) \/ Rotate(c) \/ RotateFails(c) \/ ReadUser(c)
             \/ Trap(c) \/ Gone(c) \/ ListUser(c) \/ RevokeOne(c) \/ RevokeEnds(c)
             \/ Logout(c)

Spec == Init /\ [][Next]_vars

-----------------------------------------------------------------------------
\* Type invariant of the session store and its handlers.
TypeOK == /\ users \subseteq Users
          /\ sessions \in [Token -> Session \cup {None}]
          /\ expired \subseteq Token
          /\ next \in 0..MaxTokens
          /\ pc \in [Clients -> Steps]
          /\ loc \in [Clients -> Locals]
          /\ spent \subseteq Token
          /\ family \in [Token -> Token \cup {0}]

\* Rotation is final (refresh_classified): once a rotation has replaced a
\* token, no session accepts it again, whatever stale copies concurrent
\* refreshes write and however often a deleted session comes back.  A token is
\* exchanged twice only by two refreshes that both looked it up before either
\* of them had stored its rotation.
SpentTokensStayDead == \A s \in Live : sessions[s].cur \notin spent

\* A stale copy or a session that comes back never mixes two sessions or two
\* users: what a session accepts, and what it traps, was drawn for it, and all
\* its tokens belong to the user who logged in.
TokensStayInTheirSession ==
    \A s \in Live :
      /\ family[sessions[s].cur] = s
      /\ sessions[s].prev # 0 => family[sessions[s].prev] = s

=============================================================================
