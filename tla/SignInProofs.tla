----------------------------- MODULE SignInProofs -----------------------------
(***************************************************************************)
(* Theorems about Sessions, SignIn and Revocation, for any users, tokens,   *)
(* limit and finite set of concurrent requests.                             *)
(*                                                                         *)
(* First the sessions. The inductive invariant IInv says what rotation      *)
(* needs about the past: every token that a session or a rotation under way *)
(* mentions has been drawn, so the token a rotation draws is new to all of  *)
(* them; and a rotation under way holds a token that was drawn for the      *)
(* session it is about to write. Then the guard in front of the logins      *)
(* (GInv counts the guesses under way), and what a revocation leaves.       *)
(***************************************************************************)
EXTENDS Revocation, FiniteSetTheorems, TLAPS


\* A handler about to write a session knows whose it is, and which.
RotationReady(c) == /\ loc[c].uid \in Users
                    /\ loc[c].sid \in Token
                    /\ loc[c].token \in 1..next
                    /\ family[loc[c].token] = loc[c].sid

Working == \A c \in Clients : /\ pc[c] = "mint" => loc[c].uid \in Users
                              /\ pc[c] = "rotate" => RotationReady(c)

\* What a session accepts and what it traps.
Kept(s) == /\ sessions[s].cur \in 1..next
           /\ sessions[s].cur \notin spent
           /\ sessions[s].prev \in 0..next
           /\ family[sessions[s].cur] = s
           /\ sessions[s].prev # 0 => family[sessions[s].prev] = s

IInv == /\ TypeOK
        /\ Working
        /\ \A s \in Live : Kept(s)
        /\ spent \subseteq 1..next

-----------------------------------------------------------------------------
\* Initially nobody works and no session exists.
LEMMA InitInv == Init => IInv
  BY MaxTokensAssumption, NoneAssumption
     DEF Init, IInv, TypeOK, Working, Live, Locals, NoLocals, Steps, Session, Token

\* A step that writes no session, but may delete some, and moves one handler
\* to where it is ready for, preserves the invariant.
LEMMA MoveKeepsInv ==
  ASSUME IInv, NEW c \in Clients, NEW st \in Steps, NEW l \in Locals,
         Goto(c, st, l),
         users' \subseteq Users, expired' \subseteq Token,
         sessions' \in [Token -> Session \cup {None}],
         \A s \in Token : sessions'[s] \in {None, sessions[s]},
         UNCHANGED <<next, spent, family>>,
         st = "mint" => l.uid \in Users,
         st = "rotate" => /\ l.uid \in Users
                          /\ l.sid \in Token
                          /\ l.token \in 1..next
                          /\ family[l.token] = l.sid
  PROVE  IInv'
<1>1. TypeOK'
  BY DEF IInv, TypeOK, Goto
<1>2. Working'
  <2> SUFFICES ASSUME NEW d \in Clients
               PROVE  /\ pc'[d] = "mint" => loc'[d].uid \in Users
                      /\ pc'[d] = "rotate" => RotationReady(d)'
    BY DEF Working
  <2>1. CASE d = c
    BY <2>1 DEF IInv, TypeOK, Goto, RotationReady
  <2>2. CASE d # c
    BY <2>2 DEF IInv, TypeOK, Goto, RotationReady, Working
  <2>3. QED  BY <2>1, <2>2
<1>3. \A s \in Live' : Kept(s)'
  BY DEF IInv, Live, Kept
<1>4. (spent \subseteq 1..next)'
  BY DEF IInv
<1>5. QED  BY <1>1, <1>2, <1>3, <1>4 DEF IInv

\* A step that stores a session with the next token drawn, either a new one or
\* the one a rotation is ready for, preserves it too.
LEMMA WriteKeepsInv ==
  ASSUME IInv, NEW c \in Clients, NEW st \in Steps, NEW l \in Locals,
         Goto(c, st, l), st \notin {"mint", "rotate"},
         NEW s \in Token, NEW u \in Users, NEW old \in 0..next,
         next < MaxTokens, next' = next + 1,
         sessions' = [sessions EXCEPT
           ![s] = [uid |-> u, cur |-> next + 1, prev |-> old]],
         family' = [family EXCEPT ![next + 1] = s],
         spent' = spent \cup ({old} \ {0}),
         old # 0 => family[old] = s,
         \A r \in Live : r # s => sessions[r].cur # old,
         UNCHANGED <<users, expired>>
  PROVE  IInv'
<1> USE MaxTokensAssumption
<1>1. next \in Nat /\ next + 1 \in Token /\ old \in Token \cup {0}
  BY DEF IInv, TypeOK, Token
<1>2. TypeOK'
  <2>1. [uid |-> u, cur |-> next + 1, prev |-> old] \in Session
    BY <1>1 DEF Session
  <2>2. sessions' \in [Token -> Session \cup {None}]
    BY <2>1 DEF IInv, TypeOK
  <2>3. family' \in [Token -> Token \cup {0}] /\ spent' \subseteq Token
    BY <1>1 DEF IInv, TypeOK
  <2>4. next' \in 0..MaxTokens
    BY <1>1
  <2>5. pc' \in [Clients -> Steps] /\ loc' \in [Clients -> Locals]
    BY DEF IInv, TypeOK, Goto
  <2>6. QED  BY <2>2, <2>3, <2>4, <2>5 DEF IInv, TypeOK
<1>3. Working'
  <2> SUFFICES ASSUME NEW d \in Clients
               PROVE  /\ pc'[d] = "mint" => loc'[d].uid \in Users
                      /\ pc'[d] = "rotate" => RotationReady(d)'
    BY DEF Working
  <2>1. CASE d = c
    BY <2>1 DEF IInv, TypeOK, Goto
  <2>2. CASE d # c
    <3>1. pc'[d] = pc[d] /\ loc'[d] = loc[d]
      BY <2>2 DEF IInv, TypeOK, Goto
    <3>2. pc[d] = "mint" => loc[d].uid \in Users
      BY DEF IInv, Working
    <3>3. ASSUME pc[d] = "rotate"  PROVE RotationReady(d)'
      <4>1. RotationReady(d)
        BY <3>3 DEF IInv, Working
      <4>2. loc[d].token # next + 1 /\ loc[d].token \in Token
        BY <4>1, <1>1 DEF RotationReady, Token, IInv, TypeOK
      <4>3. family'[loc[d].token] = family[loc[d].token]
        BY <4>2 DEF IInv, TypeOK
      <4>4. loc'[d].token \in 1..next'
        BY <4>1, <3>1, <1>1 DEF RotationReady
      <4>5. QED  BY <4>1, <4>3, <4>4, <3>1 DEF RotationReady
    <3>4. QED  BY <3>1, <3>2, <3>3
  <2>3. QED  BY <2>1, <2>2
<1>4. \A r \in Live' : Kept(r)'
  <2> SUFFICES ASSUME NEW r \in Live'  PROVE Kept(r)'
    OBVIOUS
  <2>1. r \in Token
    BY DEF Live
  <2>2. CASE r = s
    <3>1. sessions'[r] = [uid |-> u, cur |-> next + 1, prev |-> old]
      BY <2>1, <2>2 DEF IInv, TypeOK
    <3>2. family'[next + 1] = s
      BY <1>1 DEF IInv, TypeOK
    <3>3. old # 0 => old \in Token /\ old # next + 1
      BY <1>1
    <3>4. old # 0 => family'[old] = s
      BY <3>3 DEF IInv, TypeOK
    <3>5. next + 1 \notin spent'
      BY <1>1 DEF IInv
    <3>6. QED  BY <3>1, <3>2, <3>4, <3>5, <2>2, <1>1 DEF Kept
  <2>3. CASE r # s
    <3>1. sessions'[r] = sessions[r]
      BY <2>1, <2>3 DEF IInv, TypeOK
    <3>2. r \in Live /\ sessions[r] \in Session
      BY <2>1, <3>1 DEF Live, IInv, TypeOK
    <3>3. Kept(r)
      BY <3>2 DEF IInv
    <3>4. sessions[r].cur # old
      BY <3>2, <2>3
    <3>5. sessions[r].cur # next + 1 /\ sessions[r].prev # next + 1
      BY <3>3, <1>1 DEF Kept
    <3>6. family'[sessions[r].cur] = r
      BY <3>3, <3>5, <3>2 DEF Kept, IInv, TypeOK, Session
    <3>7. sessions[r].prev # 0 => family'[sessions[r].prev] = r
      BY <3>3, <3>5, <3>2 DEF Kept, IInv, TypeOK, Session
    <3>8. sessions[r].cur \in 1..next' /\ sessions[r].prev \in 0..next'
      BY <3>3, <1>1 DEF Kept
    <3>9. sessions[r].cur \notin spent'
      BY <3>3, <3>4 DEF Kept
    <3>10. QED  BY <3>1, <3>6, <3>7, <3>8, <3>9 DEF Kept
  <2>4. QED  BY <2>2, <2>3
<1>5. (spent \subseteq 1..next)'
  BY <1>1 DEF IInv
<1>6. QED  BY <1>2, <1>3, <1>4, <1>5 DEF IInv

-----------------------------------------------------------------------------
\* A login (mint) stores a session under the number of the token it draws.
LEMMA MintKeepsInv ==
  ASSUME IInv, NEW c \in Clients, Mint(c)  PROVE IInv'
<1>1. next + 1 \in Token /\ next \in Nat
  BY MaxTokensAssumption DEF Mint, IInv, TypeOK, Token
<1>2. NoLocals \in Locals /\ "idle" \in Steps
  BY DEF NoLocals, Locals, Steps
<1>3. loc[c].uid \in Users
  BY DEF Mint, IInv, Working
<1>4. \A r \in Live : sessions[r].cur # 0
  BY DEF IInv, Kept
<1>5. spent' = spent \cup ({0} \ {0}) /\ 0 \in 0..next
  BY <1>1 DEF Mint
<1>6. Goto(c, "idle", NoLocals)
  BY DEF Mint, Answer
<1>7. /\ next < MaxTokens /\ next' = next + 1
      /\ sessions' = [sessions EXCEPT
           ![next + 1] = [uid |-> loc[c].uid, cur |-> next + 1, prev |-> 0]]
      /\ family' = [family EXCEPT ![next + 1] = next + 1]
      /\ UNCHANGED <<users, expired>>
  BY DEF Mint
<1>8. QED  BY <1>1, <1>2, <1>3, <1>4, <1>5, <1>6, <1>7, WriteKeepsInv

\* A rotation stores the session it has read, with the token it draws: nobody
\* else has the token it replaces, since that was drawn for this session.
LEMMA RotateKeepsInv ==
  ASSUME IInv, NEW c \in Clients, Rotate(c)  PROVE IInv'
<1> DEFINE s == loc[c].sid
           t == loc[c].token
<1>1. pc[c] = "rotate" /\ RotationReady(c)
  BY DEF Rotate, IInv, Working
<1>2. s \in Token /\ t \in 1..next /\ loc[c].uid \in Users /\ family[t] = s
  BY <1>1 DEF RotationReady
<1>3. next \in Nat /\ t \in 0..next /\ t # 0
  BY <1>2, MaxTokensAssumption DEF IInv, TypeOK
<1>4. loc[c] \in Locals /\ "user" \in Steps
  BY DEF IInv, TypeOK, Steps
<1>5. \A r \in Live : r # s => sessions[r].cur # t
  <2> SUFFICES ASSUME NEW r \in Live, sessions[r].cur = t  PROVE r = s
    OBVIOUS
  <2>1. family[t] = r
    BY DEF IInv, Kept
  <2>2. QED  BY <2>1, <1>2
<1>6. spent' = spent \cup ({t} \ {0})
  BY <1>3 DEF Rotate
<1>7. /\ Goto(c, "user", loc[c])
      /\ next < MaxTokens /\ next' = next + 1
      /\ sessions' = [sessions EXCEPT
           ![s] = [uid |-> loc[c].uid, cur |-> next + 1, prev |-> t]]
      /\ family' = [family EXCEPT ![next + 1] = s]
      /\ UNCHANGED <<users, expired>>
  BY DEF Rotate
<1> HIDE DEF s, t
<1>8. QED  BY <1>2, <1>3, <1>4, <1>5, <1>6, <1>7, WriteKeepsInv

-----------------------------------------------------------------------------
\* Every other step moves a handler, deletes a session or lets time pass.
\* First the requests: a refresh that finds its token is ready to rotate.
LEMMA RequestsKeepInv ==
  ASSUME IInv, NEW c \in Clients,
         \/ \E u \in Users : StartLogin(c, u) \/ StartExternalLogin(c, u)
         \/ \E t \in Token : StartRefresh(c, t) \/ StartLogout(c, t)
  PROVE  IInv'
<1> USE DEF IInv, TypeOK
<1>1. ASSUME NEW u \in Users, StartLogin(c, u) \/ StartExternalLogin(c, u)
      PROVE  IInv'
  <2>1. [NoLocals EXCEPT !.uid = u] \in Locals
    BY DEF NoLocals, Locals
  <2>2. "mint" \in Steps /\ [NoLocals EXCEPT !.uid = u].uid = u
    BY DEF Steps, NoLocals
  <2>3. Goto(c, "mint", [NoLocals EXCEPT !.uid = u])
    BY <1>1 DEF StartLogin, StartExternalLogin
  <2>4. users' \subseteq Users /\ UNCHANGED <<sessions, expired, next, spent, family>>
    BY <1>1 DEF StartLogin, StartExternalLogin
  <2> HIDE DEF IInv, TypeOK
  <2>5. expired' \subseteq Token /\ sessions' \in [Token -> Session \cup {None}]
    BY <2>4 DEF IInv, TypeOK
  <2>6. QED  BY <2>1, <2>2, <2>3, <2>4, <2>5, MoveKeepsInv
<1>2. ASSUME NEW t \in Token, StartRefresh(c, t)
      PROVE  IInv'
  <2> DEFINE found(s) == [token |-> t, sid |-> s, uid |-> sessions[s].uid, todo |-> {}]
  <2>1. /\ expired' \subseteq Token
        /\ sessions' \in [Token -> Session \cup {None}]
        /\ users' \subseteq Users
        /\ UNCHANGED <<sessions, next, spent, family>>
    BY <1>2 DEF StartRefresh
  <2>2. ASSUME NEW s \in ByRefreshHash(t),
               Goto(c, IF s \in expired THEN "expire" ELSE "rotate", found(s))
        PROVE  IInv'
    <3>1. s \in Live /\ s \in Token /\ sessions[s].cur = t /\ sessions[s] \in Session
      BY DEF ByRefreshHash, Live
    <3>2. t \in 1..next /\ family[t] = s /\ sessions[s].uid \in Users
      BY <3>1 DEF Kept, Session
    <3>3. found(s) \in Locals
      BY <3>1, <3>2 DEF Locals
    <3>4. /\ found(s).uid = sessions[s].uid
          /\ found(s).sid = s
          /\ found(s).token = t
      OBVIOUS
    <3>5. (IF s \in expired THEN "expire" ELSE "rotate") \in Steps \ {"mint"}
      BY DEF Steps
    <3> HIDE DEF found, IInv, TypeOK
    <3>6. QED  BY <2>1, <2>2, <3>1, <3>2, <3>3, <3>4, <3>5, MoveKeepsInv
  <2>3. ASSUME Goto(c, "trap", [NoLocals EXCEPT !.token = t])
        PROVE  IInv'
    <3>1. [NoLocals EXCEPT !.token = t] \in Locals /\ "trap" \in Steps
      BY DEF NoLocals, Locals, Steps
    <3> HIDE DEF IInv, TypeOK
    <3>2. QED  BY <2>1, <2>3, <3>1, MoveKeepsInv
  <2>4. QED  BY <1>2, <2>2, <2>3 DEF StartRefresh
<1>3. ASSUME NEW t \in Token, StartLogout(c, t)
      PROVE  IInv'
  <2>1. PICK s \in ByRefreshHash(t) :
          Goto(c, "logout", [NoLocals EXCEPT !.token = t, !.sid = s])
    BY <1>3 DEF StartLogout
  <2>2. s \in Token
    BY DEF ByRefreshHash, Live
  <2>3. [NoLocals EXCEPT !.token = t, !.sid = s] \in Locals /\ "logout" \in Steps
    BY <2>2 DEF NoLocals, Locals, Steps
  <2>4. /\ expired' \subseteq Token
        /\ sessions' \in [Token -> Session \cup {None}]
        /\ users' \subseteq Users
        /\ UNCHANGED <<sessions, next, spent, family>>
    BY <1>3 DEF StartLogout
  <2> HIDE DEF IInv, TypeOK
  <2>5. QED  BY <2>1, <2>3, <2>4, MoveKeepsInv
<1>4. QED  BY <1>1, <1>2, <1>3

\* The steps that answer: a delete before the answer takes a session away.
LEMMA AnswersKeepInv ==
  ASSUME IInv, NEW c \in Clients,
         \/ MintFails(c) \/ DeleteExpired(c) \/ RotateFails(c) \/ ReadUser(c)
         \/ Gone(c) \/ RevokeEnds(c) \/ Logout(c)
  PROVE  IInv'
<1>1. NoLocals \in Locals /\ "idle" \in Steps
  BY DEF NoLocals, Locals, Steps
<1>2. Goto(c, "idle", NoLocals)
  BY DEF MintFails, DeleteExpired, RotateFails, ReadUser, Gone, RevokeEnds, Logout, Answer
<1>3. UNCHANGED <<users, expired, next, spent, family>>
  BY DEF MintFails, DeleteExpired, RotateFails, ReadUser, Gone, RevokeEnds, Logout
<1>4. \/ UNCHANGED sessions
      \/ sessions' = [sessions EXCEPT ![loc[c].sid] = None]
  BY DEF MintFails, DeleteExpired, RotateFails, ReadUser, Gone, RevokeEnds, Logout, Delete
<1>5. /\ sessions' \in [Token -> Session \cup {None}]
      /\ \A s \in Token : sessions'[s] \in {None, sessions[s]}
      /\ users' \subseteq Users /\ expired' \subseteq Token
  BY <1>3, <1>4 DEF IInv, TypeOK
<1>6. QED  BY <1>1, <1>2, <1>3, <1>5, MoveKeepsInv

\* The reuse trap and revoke_user only take sessions away.
LEMMA RevocationKeepsInv ==
  ASSUME IInv, NEW c \in Clients, Trap(c) \/ ListUser(c) \/ RevokeOne(c)
  PROVE  IInv'
<1>1. loc[c] \in Locals /\ users \subseteq Users /\ expired \subseteq Token
      /\ sessions \in [Token -> Session \cup {None}]
  BY DEF IInv, TypeOK
<1>2. {"trap", "list", "revoke", "gone"} \subseteq Steps
  BY DEF Steps
<1>3. CASE Trap(c)
  <2>1. UNCHANGED <<users, sessions, expired, next, spent, family>>
    BY <1>3 DEF Trap
  <2>2. ASSUME NEW s \in Live,
               Goto(c, "list", [loc[c] EXCEPT !.uid = sessions[s].uid])
        PROVE  IInv'
    <3>1. sessions[s].uid \in Users
      BY <1>1 DEF Live, Session
    <3>2. [loc[c] EXCEPT !.uid = sessions[s].uid] \in Locals
      BY <1>1, <3>1 DEF Locals
    <3>3. QED  BY <1>1, <1>2, <2>1, <2>2, <3>2, MoveKeepsInv
  <2>3. ASSUME Goto(c, "gone", loc[c])  PROVE IInv'
    BY <1>1, <1>2, <2>1, <2>3, MoveKeepsInv
  <2>4. QED  BY <1>3, <2>2, <2>3 DEF Trap, ByPrevHash
<1>4. CASE ListUser(c)
  <2>1. UNCHANGED <<users, sessions, expired, next, spent, family>>
    BY <1>4 DEF ListUser
  <2>2. SessionsOf(loc[c].uid) \subseteq Token
    BY DEF SessionsOf, Live
  <2>3. [loc[c] EXCEPT !.todo = SessionsOf(loc[c].uid)] \in Locals
    BY <1>1, <2>2 DEF Locals
  <2>4. Goto(c, "revoke", [loc[c] EXCEPT !.todo = SessionsOf(loc[c].uid)])
    BY <1>4 DEF ListUser
  <2>5. QED  BY <1>1, <1>2, <2>1, <2>3, <2>4, MoveKeepsInv
<1>5. CASE RevokeOne(c)
  <2>1. PICK s \in loc[c].todo :
          /\ Delete(s)
          /\ Goto(c, "revoke", [loc[c] EXCEPT !.todo = loc[c].todo \ {s}])
    BY <1>5 DEF RevokeOne
  <2>2. UNCHANGED <<users, expired, next, spent, family>>
    BY <1>5 DEF RevokeOne
  <2>3. [loc[c] EXCEPT !.todo = loc[c].todo \ {s}] \in Locals
    BY <1>1 DEF Locals
  <2>4. /\ sessions' \in [Token -> Session \cup {None}]
        /\ \A r \in Token : sessions'[r] \in {None, sessions[r]}
    BY <1>1, <2>1 DEF Delete
  <2>5. QED  BY <1>1, <1>2, <2>1, <2>2, <2>3, <2>4, MoveKeepsInv
<1>6. QED  BY <1>3, <1>4, <1>5

\* Time and administrators touch neither the sessions nor the handlers.
LEMMA TimeKeepsInv ==
  ASSUME IInv,
         \/ \E s \in Token : SessionExpires(s)
         \/ \E u \in Users : UserRemoved(u)
         \/ UNCHANGED vars
  PROVE  IInv'
<1>1. UNCHANGED <<sessions, next, pc, loc, spent, family>>
  BY DEF SessionExpires, UserRemoved, vars
<1>2. users' \subseteq Users /\ expired' \subseteq Token
  BY DEF SessionExpires, UserRemoved, vars, IInv, TypeOK
<1>3. QED
  BY <1>1, <1>2 DEF IInv, TypeOK, Working, RotationReady, Live, Kept

\* The invariant is inductive: every step of the auth endpoints keeps it.
THEOREM StepKeepsInv == IInv /\ [Next]_vars => IInv'
<1> SUFFICES ASSUME IInv, [Next]_vars  PROVE IInv'
  OBVIOUS
<1>1. ASSUME NEW c \in Clients,
             \/ \E u \in Users : StartLogin(c, u) \/ StartExternalLogin(c, u)
             \/ \E t \in Token : StartRefresh(c, t) \/ StartLogout(c, t)
      PROVE  IInv'
  BY <1>1, RequestsKeepInv
<1>2. ASSUME NEW c \in Clients, Mint(c)  PROVE IInv'
  BY <1>2, MintKeepsInv
<1>3. ASSUME NEW c \in Clients, Rotate(c)  PROVE IInv'
  BY <1>3, RotateKeepsInv
<1>4. ASSUME NEW c \in Clients,
             \/ MintFails(c) \/ DeleteExpired(c) \/ RotateFails(c) \/ ReadUser(c)
             \/ Gone(c) \/ RevokeEnds(c) \/ Logout(c)
      PROVE  IInv'
  BY <1>4, AnswersKeepInv
<1>5. ASSUME NEW c \in Clients, Trap(c) \/ ListUser(c) \/ RevokeOne(c)  PROVE IInv'
  BY <1>5, RevocationKeepsInv
<1>6. ASSUME \/ \E s \in Token : SessionExpires(s)
             \/ \E u \in Users : UserRemoved(u)
             \/ UNCHANGED vars
      PROVE  IInv'
  BY <1>6, TimeKeepsInv
<1>7. QED  BY <1>1, <1>2, <1>3, <1>4, <1>5, <1>6 DEF Next

-----------------------------------------------------------------------------
\* The session store keeps its shape (lib.rs mint and refresh_classified write
\* complete session documents only).
THEOREM TypeCorrect == Spec => []TypeOK
<1>1. IInv => TypeOK
  BY DEF IInv
<1>2. QED  BY InitInv, StepKeepsInv, <1>1, PTL DEF Spec

\* refresh_classified: a token that a rotation has replaced is never accepted
\* again, whichever copies concurrent refreshes write back.
THEOREM RotationIsFinal == Spec => []SpentTokensStayDead
<1>1. IInv => SpentTokensStayDead
  BY DEF IInv, Kept, SpentTokensStayDead
<1>2. QED  BY InitInv, StepKeepsInv, <1>1, PTL DEF Spec

\* refresh_classified: the tokens of two sessions never mix, even when a stale
\* copy is written over a newer one or over a deleted session.
THEOREM SessionsNeverMix == Spec => []TokensStayInTheirSession
<1>1. IInv => TokensStayInTheirSession
  BY DEF IInv, Kept, TokensStayInTheirSession
<1>2. QED  BY InitInv, StepKeepsInv, <1>1, PTL DEF Spec

-----------------------------------------------------------------------------
\* The requests that verify a password for the login u.
Trying(u) == {c \in Clients : trying[c] = u}

\* Guesses counted and guesses under way, together.
Bounded(u) ==
    MaxAttempts # 0 =>
      fails[u] + Cardinality(Trying(u)) < MaxAttempts + Cardinality(Clients)

GInv == /\ fails \in [Users -> Nat]
        /\ trying \in [Clients -> Users \cup {None}]
        /\ \A u \in Users : Bounded(u)

LEMMA TryingFinite ==
    ASSUME NEW S \in SUBSET Clients
    PROVE  /\ IsFiniteSet(S) /\ Cardinality(S) \in Nat
           /\ Cardinality(Clients) \in Nat
           /\ Cardinality(S) <= Cardinality(Clients)
  BY ClientsAssumption, FS_Subset, FS_CardinalityType

\* A count that starts again leaves room for every request.
LEMMA ForgottenIsBounded ==
    ASSUME NEW u \in Users, fails'[u] = 0
    PROVE  Bounded(u)'
<1>1. Trying(u)' \in SUBSET Clients
  BY DEF Trying
<1>2. /\ Cardinality(Trying(u)') \in Nat /\ Cardinality(Clients) \in Nat
      /\ Cardinality(Trying(u)') <= Cardinality(Clients)
  BY <1>1, TryingFinite
<1> QED
  BY <1>2, MaxAttemptsAssumption DEF Bounded

\* A login whose count stands, and that nobody new tries.
LEMMA StillBounded ==
    ASSUME GInv, NEW u \in Users, fails'[u] = fails[u],
           Trying(u)' \subseteq Trying(u)
    PROVE  Bounded(u)'
<1>1. Trying(u) \in SUBSET Clients /\ IsFiniteSet(Trying(u))
  BY TryingFinite DEF Trying
<1>2. /\ Cardinality(Trying(u)') \in Nat /\ Cardinality(Trying(u)) \in Nat
      /\ Cardinality(Clients) \in Nat
      /\ Cardinality(Trying(u)') <= Cardinality(Trying(u))
  BY <1>1, TryingFinite, FS_Subset DEF Trying
<1> QED
  BY <1>2, MaxAttemptsAssumption DEF GInv, Bounded

LEMMA GuardInit == SInit => GInv
<1> SUFFICES ASSUME SInit PROVE GInv
  OBVIOUS
<1>1. ASSUME NEW u \in Users PROVE Bounded(u)
  <2>1. Trying(u) = {} /\ fails[u] = 0
    BY NoneAssumption DEF SInit, Trying
  <2>2. Cardinality(Trying(u)) = 0 /\ Cardinality(Clients) \in Nat
    BY <2>1, FS_EmptySet, TryingFinite
  <2> QED
    BY <2>1, <2>2, MaxAttemptsAssumption DEF Bounded
<1> QED
  BY <1>1 DEF SInit, GInv

LEMMA GuardStep == GInv /\ [SNext]_svars => GInv'
<1> SUFFICES ASSUME GInv, [SNext]_svars PROVE GInv'
  OBVIOUS
<1>1. ASSUME NEW c \in Clients, NEW u \in Users, Attempt(c, u) PROVE GInv'
  <2>1. fails' = fails /\ trying' = [trying EXCEPT ![c] = u] /\ ~Locked(u)
    BY <1>1 DEF Attempt
  <2>2. ASSUME NEW v \in Users \ {u} PROVE Bounded(v)'
    <3>1. Trying(v)' \subseteq Trying(v)
      BY <2>1 DEF GInv, Trying
    <3> QED
      BY <2>1, <3>1, StillBounded
  <2>3. Bounded(u)'
    <3>1. Trying(u)' \in SUBSET Clients
      BY DEF Trying
    <3>2. /\ Cardinality(Trying(u)') \in Nat /\ Cardinality(Clients) \in Nat
          /\ Cardinality(Trying(u)') <= Cardinality(Clients)
      BY <3>1, TryingFinite
    <3>3. MaxAttempts # 0 => fails'[u] < MaxAttempts
      BY <2>1, MaxAttemptsAssumption DEF Locked, GInv
    <3> QED
      BY <2>1, <3>2, <3>3, MaxAttemptsAssumption DEF Bounded, GInv
  <2> QED
    BY <2>1, <2>2, <2>3 DEF GInv
<1>2. ASSUME NEW c \in Clients, Verified(c) PROVE GInv'
  <2>1. fails' = fails /\ trying' = trying
    BY <1>2 DEF Verified
  <2> QED
    BY <2>1, StillBounded DEF GInv, Trying
<1>3. ASSUME NEW c \in Clients, LoginSucceeds(c) PROVE GInv'
  <2>1. PICK u \in Users : u = trying[c]
    BY <1>3 DEF LoginSucceeds, GInv
  <2>2. fails' = [fails EXCEPT ![u] = 0] /\ trying' = [trying EXCEPT ![c] = None]
    BY <1>3, <2>1 DEF LoginSucceeds
  <2>3. ASSUME NEW v \in Users PROVE Bounded(v)'
    <3>1. Trying(v)' \subseteq Trying(v)
      BY <2>2, NoneAssumption DEF GInv, Trying
    <3>2. fails'[v] = 0 \/ fails'[v] = fails[v]
      BY <2>2 DEF GInv
    <3> QED
      BY <3>1, <3>2, StillBounded, ForgottenIsBounded
  <2> QED
    BY <2>2, <2>3 DEF GInv
<1>4. ASSUME NEW c \in Clients, LoginFails(c) PROVE GInv'
  <2>1. PICK u \in Users : u = trying[c]
    BY <1>4 DEF LoginFails, GInv
  <2>2. /\ fails' = IF MaxAttempts = 0 THEN fails ELSE [fails EXCEPT ![u] = @ + 1]
        /\ trying' = [trying EXCEPT ![c] = None]
    BY <1>4, <2>1 DEF LoginFails
  <2>3. ASSUME NEW v \in Users \ {u} PROVE Bounded(v)'
    <3>1. Trying(v)' \subseteq Trying(v)
      BY <2>2, NoneAssumption DEF GInv, Trying
    <3>2. fails'[v] = fails[v]
      BY <2>2 DEF GInv
    <3> QED
      BY <3>1, <3>2, StillBounded
  <2>4. Bounded(u)'
    <3>1. c \in Trying(u) /\ Trying(u)' = Trying(u) \ {c}
      BY <2>1, <2>2, NoneAssumption DEF GInv, Trying
    <3>2. /\ Cardinality(Trying(u)') = Cardinality(Trying(u)) - 1
          /\ Cardinality(Trying(u)) \in Nat /\ Cardinality(Clients) \in Nat
      <4>1. IsFiniteSet(Trying(u)) /\ Cardinality(Trying(u)) \in Nat
            /\ Cardinality(Clients) \in Nat
        BY TryingFinite DEF Trying
      <4> QED
        BY <3>1, <4>1, FS_RemoveElement
    <3>3. MaxAttempts # 0 => fails'[u] = fails[u] + 1
      BY <2>2 DEF GInv
    <3> QED
      BY <3>2, <3>3, MaxAttemptsAssumption DEF Bounded, GInv
  <2> QED
    BY <2>2, <2>3, <2>4 DEF GInv
<1>5. ASSUME NEW u \in Users, WindowPasses(u) PROVE GInv'
  <2>1. fails' = [fails EXCEPT ![u] = 0] /\ trying' = trying
    BY <1>5 DEF WindowPasses
  <2>2. ASSUME NEW v \in Users PROVE Bounded(v)'
    <3>1. Trying(v)' \subseteq Trying(v)
      BY <2>1 DEF Trying
    <3>2. fails'[v] = 0 \/ fails'[v] = fails[v]
      BY <2>1 DEF GInv
    <3> QED
      BY <3>1, <3>2, StillBounded, ForgottenIsBounded
  <2> QED
    BY <2>1, <2>2 DEF GInv
<1>6. CASE UNCHANGED svars
  BY <1>6, StillBounded DEF svars, GInv, Trying
<1>7. CASE Elsewhere
  <2>1. fails' = fails /\ trying' = trying
    BY <1>7 DEF Elsewhere
  <2> QED
    BY <2>1, StillBounded DEF GInv, Trying
<1> QED
  BY <1>1, <1>2, <1>3, <1>4, <1>5, <1>6, <1>7 DEF SNext

\* However many attempts are verified at the same time, the guesses of one
\* window pass the limit by fewer than there are requests (auth_login asks
\* locked_secs before the verification and counts after it).
THEOREM GuessesAlwaysBounded == SSpec => []GuessesBounded
<1>1. GInv => GuessesBounded
  BY DEF GInv, Bounded, Trying, GuessesBounded
<1> QED
  BY <1>1, GuardInit, GuardStep, PTL DEF SSpec

-----------------------------------------------------------------------------
\* Every step of auth_login is a step of the session store or changes nothing
\* there.
LEMMA GuardStepsSessions == GInv /\ [SNext]_svars => [Next]_vars
<1> SUFFICES ASSUME GInv, [SNext]_svars PROVE Next \/ UNCHANGED vars
  OBVIOUS
<1>1. ASSUME NEW c \in Clients, Verified(c) PROVE Next
  <2>1. trying[c] \in Users /\ StartLogin(c, trying[c])
    BY <1>1 DEF Verified, GInv
  <2> QED
    BY <2>1 DEF Next
<1>2. ASSUME NEW c \in Clients, LoginSucceeds(c) \/ LoginFails(c)
      PROVE  Next \/ UNCHANGED vars
  BY <1>2 DEF LoginSucceeds, LoginFails, Next
<1> QED
  BY <1>1, <1>2 DEF SNext, svars, Attempt, WindowPasses, Elsewhere

\* Behind the guard the sessions behave as Sessions says.
THEOREM GuardKeepsSessions == SSpec => Spec
<1>1. SInit => Init
  BY DEF SInit
<1> QED
  BY <1>1, GuardStepsSessions, GuardInit, GuardStep, PTL DEF SSpec, Spec

-----------------------------------------------------------------------------
\* What a revocation has still to delete, or could not have listed.
Covered(c) == pc[c] = "revoke" => SessionsOf(loc[c].uid) \subseteq loc[c].todo \cup late[c]

RInv == /\ GInv
        /\ IInv
        /\ late \in [Clients -> SUBSET Token]
        /\ \A c \in Clients : Covered(c)

\* How a step can touch a revocation under way: from outside, by deleting one
\* session of its list, or by listing.
LEMMA RevocationSteps ==
    ASSUME GInv, IInv, Next \/ UNCHANGED vars, NEW c \in Clients, pc'[c] = "revoke"
    PROVE  \/ pc[c] = "revoke" /\ loc'[c] = loc[c]
           \/ /\ pc[c] = "revoke" /\ loc'[c].uid = loc[c].uid
              /\ \E s \in loc[c].todo : /\ sessions'[s] = None
                                        /\ loc'[c].todo = loc[c].todo \ {s}
           \/ /\ pc[c] # "revoke" /\ sessions' = sessions
              /\ loc'[c].todo = SessionsOf(loc'[c].uid)
<1> USE DEF TypeOK
<1>0. pc \in [Clients -> Steps] /\ loc \in [Clients -> Locals]
      /\ sessions \in [Token -> Session \cup {None}]
  BY DEF IInv
<1>1. ASSUME NEW d \in Clients \ {c}, NEW step, NEW l, Goto(d, step, l)
      PROVE  pc[c] = "revoke" /\ loc'[c] = loc[c]
  BY <1>0, <1>1 DEF Goto
<1>2. ASSUME NEW step, NEW l, Goto(c, step, l), step # "revoke" PROVE FALSE
  BY <1>0, <1>2 DEF Goto
<1>3. CASE RevokeOne(c)
  <2>1. PICK s \in loc[c].todo :
          Delete(s) /\ Goto(c, "revoke", [loc[c] EXCEPT !.todo = loc[c].todo \ {s}])
    BY <1>3 DEF RevokeOne
  <2>2. loc[c] \in Locals /\ s \in Token
    BY <1>0 DEF Locals
  <2>3. loc'[c] = [loc[c] EXCEPT !.todo = loc[c].todo \ {s}]
    BY <1>0, <2>1 DEF Goto
  <2>4. loc'[c].todo = loc[c].todo \ {s} /\ loc'[c].uid = loc[c].uid
    BY <2>2, <2>3 DEF Locals
  <2>5. sessions'[s] = None
    BY <1>0, <2>1, <2>2 DEF Delete
  <2> QED
    BY <1>3, <2>4, <2>5 DEF RevokeOne
<1>4. CASE ListUser(c)
  <2>1. /\ loc'[c] = [loc[c] EXCEPT !.todo = SessionsOf(loc[c].uid)]
        /\ sessions' = sessions /\ pc[c] = "list"
    BY <1>0, <1>4 DEF ListUser, Goto
  <2>2. loc[c] \in Locals
    BY <1>0
  <2>3. loc'[c].todo = SessionsOf(loc[c].uid) /\ loc'[c].uid = loc[c].uid
    BY <2>1, <2>2 DEF Locals
  <2> QED
    BY <2>1, <2>3
<1>5. ASSUME NEW d \in Clients,
             \/ \E u \in Users : StartLogin(d, u) \/ StartExternalLogin(d, u)
             \/ \E t \in Token : StartRefresh(d, t) \/ StartLogout(d, t)
             \/ Mint(d) \/ MintFails(d)
             \/ DeleteExpired(d) \/ Rotate(d) \/ RotateFails(d) \/ ReadUser(d)
             \/ Trap(d) \/ Gone(d) \/ RevokeEnds(d) \/ Logout(d)
      PROVE  pc[c] = "revoke" /\ loc'[c] = loc[c]
  <2>1. \E step \in Steps \ {"revoke"} : \E l : Goto(d, step, l)
    BY <1>5 DEF StartLogin, StartExternalLogin, StartRefresh, StartLogout, Mint,
       MintFails, DeleteExpired, Rotate, RotateFails, ReadUser, Trap, Gone,
       RevokeEnds, Logout, Answer, Steps
  <2> QED
    BY <1>1, <1>2, <2>1
<1>6. CASE UNCHANGED <<pc, loc>>
  BY <1>6
<1>7. (\E s \in Token : SessionExpires(s)) \/ (\E u \in Users : UserRemoved(u))
        \/ UNCHANGED vars => UNCHANGED <<pc, loc>>
  BY DEF SessionExpires, UserRemoved, vars
<1>8. ASSUME NEW d \in Clients \ {c}, RevokeOne(d) \/ ListUser(d)
      PROVE  pc[c] = "revoke" /\ loc'[c] = loc[c]
  BY <1>1, <1>8 DEF RevokeOne, ListUser
<1> QED
  BY <1>3, <1>4, <1>5, <1>6, <1>7, <1>8 DEF Next

LEMMA CoveredStep ==
    ASSUME RInv, IInv', Next \/ UNCHANGED vars, NEW c \in Clients,
           late'[c] = IF pc[c] = "revoke" /\ pc'[c] = "revoke"
                        THEN late[c] \cup Stored ELSE {}
    PROVE  Covered(c)'
<1> SUFFICES ASSUME pc'[c] = "revoke", NEW s \in Token,
                    s \in Live', sessions'[s].uid = loc'[c].uid
             PROVE  s \in loc'[c].todo \cup late'[c]
  BY DEF Covered, SessionsOf, Live
<1>1. CASE pc[c] # "revoke"
  <2>1. sessions' = sessions /\ loc'[c].todo = SessionsOf(loc'[c].uid)
    BY <1>1, RevocationSteps DEF RInv
  <2> QED
    BY <2>1 DEF SessionsOf, Live
<1>2. CASE pc[c] = "revoke" /\ sessions'[s] # sessions[s]
  BY <1>2 DEF Live, Stored
<1>3. CASE pc[c] = "revoke" /\ sessions'[s] = sessions[s]
  <2>1. loc'[c].uid = loc[c].uid
    BY <1>3, RevocationSteps DEF RInv
  <2>2. s \in loc[c].todo \cup late[c]
    BY <1>3, <2>1 DEF RInv, Covered, SessionsOf, Live
  <2>3. s \in loc[c].todo => s \in loc'[c].todo
    BY <1>3, RevocationSteps DEF RInv, Live
  <2> QED
    BY <1>3, <2>2, <2>3
<1> QED
  BY <1>1, <1>2, <1>3

\* "Revoke ALL user sessions": whatever logins, rotations and other revocations
\* run beside it, revoke_user leaves its user no session but those stored after
\* it took its list.
THEOREM RevocationsAreComplete == RSpec => []RevocationIsComplete
<1>1. RInit => RInv
  <2> SUFFICES ASSUME RInit PROVE RInv
    OBVIOUS
  <2>1. GInv /\ IInv
    BY GuardInit, InitInv DEF RInit, SInit
  <2>2. \A c \in Clients : pc[c] = "idle"
    BY DEF RInit, SInit, Init
  <2>3. late \in [Clients -> SUBSET Token]
    BY DEF RInit
  <2> QED
    BY <2>1, <2>2, <2>3 DEF RInv, Covered
<1>2. RInv /\ [RNext]_rvars => RInv'
  <2> SUFFICES ASSUME RInv, [RNext]_rvars PROVE RInv'
    OBVIOUS
  <2>1. [SNext]_svars
    BY DEF RNext, rvars
  <2>2. Next \/ UNCHANGED vars
    BY <2>1, GuardStepsSessions DEF RInv
  <2>3. GInv' /\ IInv'
    BY <2>1, <2>2, GuardStep, StepKeepsInv DEF RInv
  <2>4. CASE UNCHANGED rvars
    BY <2>3, <2>4 DEF RInv, rvars, svars, vars, Covered, SessionsOf, Live
  <2>5. CASE RNext
    <3>1. late' \in [Clients -> SUBSET Token]
      BY <2>5 DEF RNext, RInv, Stored
    <3>2. \A c \in Clients : Covered(c)'
      BY <2>2, <2>3, <2>5, CoveredStep DEF RNext
    <3> QED
      BY <2>3, <3>1, <3>2 DEF RInv
  <2> QED
    BY <2>4, <2>5
<1>3. RInv => RevocationIsComplete
  BY DEF RInv, Covered, RevocationIsComplete
<1> QED
  BY <1>1, <1>2, <1>3, PTL DEF RSpec
=============================================================================
