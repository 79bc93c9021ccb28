---------------------------- MODULE AuthSessions ----------------------------
(***************************************************************************)
(* The refresh-token sessions of one user                                  *)
(* (modules/auth/services/auth.service.ts).  No operation touches two      *)
(* users, so one user's document is the whole system.                      *)
(*                                                                         *)
(* The sessions are an array in the user's document.  Every operation loads*)
(* the document, computes a new array in memory and saves it: the save     *)
(* replaces the whole array, whatever is stored by then.                   *)
(*                                                                         *)
(* A refresh token is a signed JWT over the user and the second of signing *)
(* (token.util.ts): two tokens signed in the same second are the same      *)
(* token.  So a token IS the second it was signed at, and `now' counts     *)
(* seconds.  The clock does not move between the reply to a read and the   *)
(* synchronous code that handles it.                                       *)
(***************************************************************************)
EXTENDS Naturals, Sequences, FiniteSets

CONSTANTS
  Handler,      \* slots for handlers in flight
  MaxSessions,  \* MAX_REFRESH_SESSIONS
  Lifetime,     \* JWT_REFRESH_EXPIRES_IN, in seconds
  Overlap,      \* may two handlers of this user be in flight?
  SameSecond,   \* may two tokens be signed within one second?
  Faults,       \* may a handler be cut off at an await?
  MaxTime       \* bound on the clock

ASSUME AuthAssumption ==
  /\ MaxSessions \in Nat \ {0}      \* packages/config env.schema.ts:36
  /\ Lifetime \in Nat \ {0}
  /\ MaxTime \in Nat
  /\ { Overlap, SameSecond, Faults } \subseteq BOOLEAN

VARIABLES
  exists,       \* has the user been registered?
  isActive,
  refreshTokens,\* the stored array, oldest first
  now,
  handler,
  given,        \* history: the tokens that have been sent to clients
  revoked,      \* history: tokens whose revocation has been confirmed
  promised,     \* history: the sessions a client may count on
  root          \* history: root[t] is the login that t descends from, NoToken
                \* if t has not been signed

vars == << exists, isActive, refreshTokens, now, handler,
           given, revoked, promised, root >>

history == << given, revoked, promised, root >>

Token  == 0 .. MaxTime
NoToken == MaxTime + 1

Session == [ token : Token, expiresAt : 0 .. MaxTime + Lifetime ]

PC == { "idle", "comparePassword", "revokeLoad", "revokeSave", "reload",
        "persistSave", "clearSave" }

HandlerState ==
  [ pc     : PC,
    op     : { "none", "register", "login", "refresh", "logout", "logoutAll" },
    array  : Seq(Session),           \* the array loaded, or about to be saved
    old    : SUBSET Token,           \* the tokens to be given up
    new    : Token \cup { NoToken } ]\* the token signed

Idle == [ pc |-> "idle", op |-> "none", array |-> << >>,
          old |-> {}, new |-> NoToken ]

Goes(h, local) == handler' = [handler EXCEPT ![h] = local]

Accepts(h) ==
  /\ handler[h].pc = "idle"
  /\ Overlap \/ \A g \in Handler : handler[g].pc = "idle"

Init ==
  /\ exists = FALSE /\ isActive = TRUE /\ refreshTokens = << >>
  /\ now = 0
  /\ handler = [h \in Handler |-> Idle]
  /\ given = {} /\ revoked = {} /\ promised = {}
  /\ root = [t \in Token |-> NoToken]

-----------------------------------------------------------------------------
(***************************************************************************)
(* What the code computes in memory.                                       *)
(***************************************************************************)
Expires(t) == t + Lifetime

\* verifyRefreshToken and findValidRefreshSession.
IsValidSession(array, t) ==
  /\ now < Expires(t)
  /\ \E i \in 1 .. Len(array) : array[i].token = t /\ array[i].expiresAt > now

Stored(t) == \E i \in 1 .. Len(refreshTokens) : refreshTokens[i].token = t

\* Would refreshAccessToken take this token now?
Accepted(t) == exists /\ isActive /\ IsValidSession(refreshTokens, t)

\* Mutated: one session too many is kept.
Trimmed_OffByOne(array) ==
  IF Len(array) > MaxSessions
    THEN SubSeq(array, Len(array) - MaxSessions, Len(array)) ELSE array

\* Mutated: the newest session is dropped, not the oldest.
Trimmed_DropsNewest(array) ==
  IF Len(array) > MaxSessions THEN SubSeq(array, 1, MaxSessions) ELSE array

Trimmed(array) ==
  IF Len(array) > MaxSessions
    THEN SubSeq(array, Len(array) - MaxSessions + 1, Len(array)) ELSE array

\* array.filter: the sessions of the array that are in `kept', in their order.
\* SelectSeq, as a recursive function, which can be reasoned about.
Filtered(array, kept) ==
  LET First[n \in 0 .. Len(array)] ==
        IF n = 0 THEN << >>
        ELSE IF array[n] \in kept THEN Append(First[n - 1], array[n])
        ELSE First[n - 1]
  IN  First[Len(array)]

Live == { s \in Session : s.expiresAt > now }

\* persistRefreshToken, up to its save.
WithSession(array, t) ==
  Trimmed(Append(Filtered(array, Live), [token |-> t, expiresAt |-> now + Lifetime]))

WithoutTokens(array, tokens) == Filtered(array, { s \in Session : s.token \notin tokens })

\* createTokenPair, now, for a session that descends from login r.
Signs(r) ==
  /\ SameSecond \/ root[now] = NoToken
  /\ root' = [root EXCEPT ![now] = IF r = NoToken THEN now ELSE root[r]]

-----------------------------------------------------------------------------
(***************************************************************************)
(* register: the document is inserted without sessions, then saved with    *)
(* one.                                                                    *)
(***************************************************************************)
RegisterInsert(h) ==
  /\ Accepts(h)
  /\ ~ exists
  /\ exists' = TRUE
  /\ Signs(NoToken)
  /\ Goes(h, [Idle EXCEPT !.pc = "persistSave", !.op = "register",
                          !.array = WithSession(<< >>, now), !.new = now])
  /\ UNCHANGED << isActive, refreshTokens, now, given, revoked, promised >>

(***************************************************************************)
(* login: the document is loaded, then the password is compared.           *)
(***************************************************************************)
LoginLoad(h) ==
  /\ Accepts(h)
  /\ exists /\ isActive
  /\ Goes(h, [Idle EXCEPT !.pc = "comparePassword", !.op = "login",
                          !.array = refreshTokens])
  /\ UNCHANGED << exists, isActive, refreshTokens, now, history >>

ComparePassword(h) ==
  /\ handler[h].pc = "comparePassword"
  /\ \/ /\ Goes(h, Idle)                                  \* it does not match
        /\ UNCHANGED history
     \/ /\ Signs(NoToken)
        /\ Goes(h, [handler[h] EXCEPT !.pc = "persistSave",
                      !.array = WithSession(handler[h].array, now),
                      !.new = now])
        /\ UNCHANGED << given, revoked, promised >>
  /\ UNCHANGED << exists, isActive, refreshTokens, now >>

(***************************************************************************)
(* refreshAccessToken: check, sign, revoke the old token, load the document*)
(* again and persist the new one.                                          *)
(***************************************************************************)
RefreshLoad(h, t) ==
  /\ Accepts(h)
  /\ Accepted(t)
  /\ Signs(t)
  /\ Goes(h, [Idle EXCEPT !.pc = "revokeLoad", !.op = "refresh",
                          !.old = { t }, !.new = now])
  /\ UNCHANGED << exists, isActive, refreshTokens, now, given, revoked, promised >>

\* revokeRefreshToken has loaded the document.  Without a change, Mongoose
\* has nothing to save; the save is still awaited.
RevokeLoad(h) ==
  /\ handler[h].pc = "revokeLoad"
  /\ Goes(h, [handler[h] EXCEPT !.pc = "revokeSave", !.array = refreshTokens])
  /\ UNCHANGED << exists, isActive, refreshTokens, now, history >>

RevokeSave(h) ==
  LET me   == handler[h]
      kept == WithoutTokens(me.array, me.old)
  IN
  /\ me.pc = "revokeSave"
  /\ refreshTokens' = IF kept # me.array THEN kept ELSE refreshTokens
  /\ IF me.op = "refresh"
       THEN /\ Goes(h, [me EXCEPT !.pc = "reload", !.array = << >>])
            /\ UNCHANGED << revoked, promised >>
       ELSE /\ Goes(h, Idle)
            /\ revoked' = revoked \cup me.old
            /\ promised' = promised \ me.old
  /\ UNCHANGED << exists, isActive, now, given, root >>

Reload(h) ==
  /\ handler[h].pc = "reload"
  /\ Goes(h, [handler[h] EXCEPT !.pc = "persistSave",
                !.array = WithSession(refreshTokens, handler[h].new)])
  /\ UNCHANGED << exists, isActive, refreshTokens, now, history >>

\* What the answer lets the client count on: its new session and the newest
\* of the others that have not expired.
Newest(tokens) ==
  LET live == { t \in tokens : now < Expires(t) }
  IN  { t \in live : Cardinality({ u \in live : u > t }) < MaxSessions }

\* The save of persistRefreshToken, and the answer.
PersistSave(h) ==
  LET me == handler[h] IN
  /\ me.pc = "persistSave"
  /\ refreshTokens' = me.array
  /\ revoked' = (revoked \ { me.new }) \cup me.old
  /\ given' = given \cup { me.new }
  /\ promised' = Newest((promised \ me.old) \cup { me.new })
  /\ Goes(h, Idle)
  /\ UNCHANGED << exists, isActive, now, root >>

(***************************************************************************)
(* logout of one session: revokeRefreshToken, on whatever token the body   *)
(* carries.  logoutAll empties the array; it is asked to end the sessions  *)
(* that had been given out when it loaded them.                            *)
(***************************************************************************)
Logout(h, t) ==
  /\ Accepts(h)
  /\ exists
  /\ Goes(h, [Idle EXCEPT !.pc = "revokeLoad", !.op = "logout",
                          !.old = { t }])
  /\ UNCHANGED << exists, isActive, refreshTokens, now, history >>

LogoutAllLoad(h) ==
  /\ Accepts(h)
  /\ exists
  /\ Goes(h, [Idle EXCEPT !.pc = "clearSave", !.op = "logoutAll",
                          !.array = refreshTokens, !.old = promised])
  /\ UNCHANGED << exists, isActive, refreshTokens, now, history >>

\* Mutated: only expired sessions are cleared.
ClearSave_KeepsLive(h) ==
  /\ handler[h].pc = "clearSave"
  /\ refreshTokens' = Filtered(refreshTokens, Live)
  /\ revoked' = revoked \cup handler[h].old
  /\ promised' = promised \ handler[h].old
  /\ Goes(h, Idle)
  /\ UNCHANGED << exists, isActive, now, given, root >>

ClearSave(h) ==
  /\ handler[h].pc = "clearSave"
  /\ refreshTokens' = IF handler[h].array # << >> THEN << >> ELSE refreshTokens
  /\ revoked' = revoked \cup handler[h].old
  /\ promised' = promised \ handler[h].old
  /\ Goes(h, Idle)
  /\ UNCHANGED << exists, isActive, now, given, root >>

-----------------------------------------------------------------------------
\* An admin's updateUserStatus, one atomic update of another field.
SetActive(b) ==
  /\ exists
  /\ isActive' = b
  /\ UNCHANGED << exists, refreshTokens, now, handler, history >>

Tick ==
  /\ now < MaxTime
  /\ now' = now + 1
  /\ UNCHANGED << exists, isActive, refreshTokens, handler, history >>

\* The process dies, or a read or a save is rejected: no answer is sent.
Abort(h) ==
  /\ Faults
  /\ handler[h].pc # "idle"
  /\ Goes(h, Idle)
  /\ UNCHANGED << exists, isActive, refreshTokens, now, history >>

Step(h) ==
  \/ RegisterInsert(h)
  \/ LoginLoad(h) \/ ComparePassword(h)
  \/ \E t \in given : RefreshLoad(h, t) \/ Logout(h, t)
  \/ RevokeLoad(h) \/ RevokeSave(h) \/ Reload(h) \/ PersistSave(h)
  \/ LogoutAllLoad(h) \/ ClearSave(h)

\* What happens while nothing fails.
Unfailing == (\E h \in Handler : Step(h)) \/ (\E b \in BOOLEAN : SetActive(b)) \/ Tick

Next == Unfailing \/ \E h \in Handler : Abort(h)

Spec == Init /\ [][Next]_vars

-----------------------------------------------------------------------------
(***************************************************************************)
(* Properties                                                              *)
(***************************************************************************)

\* The stored array and every array that a handler holds has sessions of
\* this user, and handlers hold tokens that exist.
TypeOK ==
  /\ exists \in BOOLEAN /\ isActive \in BOOLEAN
  /\ refreshTokens \in Seq(Session)
  /\ now \in 0 .. MaxTime
  /\ handler \in [Handler -> HandlerState]
  /\ given \subseteq Token /\ revoked \subseteq Token /\ promised \subseteq Token
  /\ root \in [Token -> Token \cup { NoToken }]

\* MAX_REFRESH_SESSIONS holds of the stored array whatever overlaps and
\* whatever fails (persistRefreshToken, auth.service.ts:80-84).
SessionCap == Len(refreshTokens) <= MaxSessions

\* Whatever overlaps and whatever fails, the stored array is one of sessions
\* and is within the cap (refreshTokenSchema, persistRefreshToken).
SessionsBounded == TypeOK /\ SessionCap

\* A token whose revocation has been confirmed, by a logout, by a logout
\* everywhere or because it was exchanged for a new one, is not accepted any
\* more ('Refresh token revoked or expired', auth.service.ts:175-177).
RevokedRefused == \A t \in revoked : ~ Accepted(t)

\* A login is one chain of sessions: of all tokens that descend from the same
\* login, at most one is stored (refreshAccessToken revokes the old one before
\* it stores the new one, auth.service.ts:185-192), also when the handler is
\* cut off between its two saves.
OneSessionPerLogin ==
  \A t, u \in Token : Stored(t) /\ Stored(u) /\ root[t] = root[u] => t = u

\* No session is lost: while no handler is at work, the tokens that would be
\* accepted are exactly those that clients were given, were not asked to
\* give up, have not expired and are among the newest MAX_REFRESH_SESSIONS.
SessionsAsPromised ==
  (\A h \in Handler : handler[h].pc = "idle") =>
    { t \in Token : IsValidSession(refreshTokens, t) } =
      { t \in promised : now < Expires(t) }

=============================================================================
