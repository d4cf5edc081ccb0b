--------------------------- MODULE WalletSessions ---------------------------
(***************************************************************************)
(* Wallet logins (services/walletAuth.ts, routes/walletAuth.ts) and admin  *)
(* sessions (services/adminSessionService.ts, middleware/admin-session.ts).*)
(* Requests interleave between a handler's read and its write.  Signatures *)
(* are external: a request either carries a valid one for the challenge's  *)
(* nonce or is refused before it changes anything.                         *)
(***************************************************************************)
EXTENDS FiniteSets, Naturals

CONSTANTS
  Challenges,   \* challenges that may be created; a session is named after its challenge
  Visitors,     \* slots for concurrent requests
  Servers,      \* server processes, each with its own admin session cache
  MaxTokens,    \* bound on access and refresh token pairs ever issued
  MaxVisits     \* bound on requests

VARIABLES
  challenge,    \* wallet_challenges: "none", "open", "expired" or "consumed"
  session,      \* wallet_sessions row made from each challenge: token pair, revoked, expired
  tokens,       \* token pairs issued
  visit,        \* locals of each request
  visits,       \* requests so far, bounded by MaxVisits
  opened,       \* history: sessions created from each challenge
  loggedOut,    \* history: sessions whose revocation was written
  admin,        \* admin_sessions row: "none", "live", "revoked" or "expired"
  adminCache,   \* servers whose sessionCache holds the row as not revoked
  adminRevokers \* history: servers that served the revocation of the row

sessionVars == <<challenge, session, tokens, visit, visits, opened, loggedOut, admin, adminCache, adminRevokers>>
walletVars == <<challenge, session, tokens, visit, visits, opened, loggedOut>>

NoVisit == [op |-> "idle", on |-> "none"]
NoSession == [token |-> 0, revoked |-> FALSE, expired |-> FALSE]

SessionInit ==
  /\ challenge = [c \in Challenges |-> "none"]
  /\ session = [c \in Challenges |-> NoSession]
  /\ tokens = 0 /\ visits = 0
  /\ visit = [v \in Visitors |-> NoVisit]
  /\ opened = [c \in Challenges |-> 0]
  /\ loggedOut = {}
  /\ admin = "none" /\ adminCache = {} /\ adminRevokers = {}

Visit(v, op, c) ==
  /\ visit[v] = NoVisit /\ visits < MaxVisits
  /\ visits' = visits + 1
  /\ visit' = [visit EXCEPT ![v] = [op |-> op, on |-> c]]
Leave(v) == visit' = [visit EXCEPT ![v] = NoVisit] /\ UNCHANGED visits
NewToken == tokens < MaxTokens /\ tokens' = tokens + 1
Live(s) == s.token # 0 /\ ~ s.revoked /\ ~ s.expired

createChallenge(c) ==
  /\ challenge[c] = "none"
  /\ challenge' = [challenge EXCEPT ![c] = "open"]
  /\ UNCHANGED <<session, tokens, visit, visits, opened, loggedOut>>

\* verifyChallenge up to the signature check.
verifyChallenge_read(v, c) ==
  /\ challenge[c] = "open"
  /\ Visit(v, "verify", c)
  /\ UNCHANGED <<challenge, session, tokens, opened, loggedOut>>

Consumable_AsRead(c) == TRUE

\* The conditional updateMany: unconsumed and unexpired when it runs.
Consumable(c) == challenge[c] = "open"

\* One request wins the update and creates the session; the others are refused.
verifyChallenge_consume(v) ==
  LET c == visit[v].on IN
  /\ visit[v].op = "verify"
  /\ \/ /\ Consumable(c) /\ NewToken
        /\ challenge' = [challenge EXCEPT ![c] = "consumed"]
        /\ session' = [session EXCEPT ![c] = [NoSession EXCEPT !.token = tokens']]
        /\ opened' = [opened EXCEPT ![c] = @ + 1]
     \/ ~ Consumable(c) /\ UNCHANGED <<challenge, session, tokens, opened>>
  /\ Leave(v) /\ UNCHANGED loggedOut

\* The refresh token that the request carries is the row's when it reads.
refreshSession_read(v, c) ==
  /\ Live(session[c])
  /\ Visit(v, "refresh", c)
  /\ UNCHANGED <<challenge, session, tokens, opened, loggedOut>>

\* revokedAt is not among the columns the update writes.
Rotated(s, t) == [s EXCEPT !.token = t, !.expired = FALSE]

\* An update by id: a concurrent refresh or revocation is not noticed.
refreshSession_write(v) ==
  /\ visit[v].op = "refresh" /\ NewToken
  /\ session' = [session EXCEPT ![visit[v].on] = Rotated(@, tokens')]
  /\ Leave(v) /\ UNCHANGED <<challenge, opened, loggedOut>>

\* Logout; a token that a refresh already replaced finds no row.
revokeSession_read(v, c) ==
  /\ session[c].token # 0 /\ ~ session[c].revoked
  /\ Visit(v, "revoke", c)
  /\ UNCHANGED <<challenge, session, tokens, opened, loggedOut>>

revokeSession_write(v) ==
  /\ visit[v].op = "revoke"
  /\ session' = [session EXCEPT ![visit[v].on].revoked = TRUE]
  /\ loggedOut' = loggedOut \cup {visit[v].on}
  /\ Leave(v) /\ UNCHANGED <<challenge, tokens, opened>>

\* One statement over every session of the wallet.
revokeAllSessions ==
  /\ session' = [c \in Challenges |-> [session[c] EXCEPT !.revoked = session[c].token # 0]]
  /\ loggedOut' = {c \in Challenges : session[c].token # 0}
  /\ UNCHANGED <<challenge, tokens, visit, visits, opened>>

SessionTime ==
  \/ /\ \E c \in Challenges : challenge[c] = "open" /\ challenge' = [challenge EXCEPT ![c] = "expired"]
     /\ UNCHANGED <<session, tokens, visit, visits, opened, loggedOut>>
  \/ /\ \E c \in Challenges : Live(session[c]) /\ session' = [session EXCEPT ![c].expired = TRUE]
     /\ UNCHANGED <<challenge, tokens, visit, visits, opened, loggedOut>>

-----------------------------------------------------------------------------
(* Admin sessions.  Only the server that created a session caches it.        *)
createSession(p) ==
  /\ admin = "none"
  /\ admin' = "live" /\ adminCache' = {p}
  /\ UNCHANGED adminRevokers

Uncached(p) == adminCache \ {p}

revokeSession(p) ==
  /\ admin # "none"
  /\ admin' = "revoked"
  /\ adminCache' = Uncached(p)
  /\ adminRevokers' = adminRevokers \cup {p}

AdminExpires == admin = "live" /\ admin' = "expired" /\ adminCache' = {} /\ UNCHANGED adminRevokers

\* verifySession on server p; an entry is only used until it expires.
verifySession(p) == p \in adminCache \/ admin = "live"

AdminNext == AdminExpires \/ \E p \in Servers : createSession(p) \/ revokeSession(p)

SessionNext ==
  \/ /\ \/ revokeAllSessions \/ SessionTime
        \/ \E v \in Visitors :
             \/ verifyChallenge_consume(v) \/ refreshSession_write(v) \/ revokeSession_write(v)
             \/ \E c \in Challenges : \/ createChallenge(c) \/ verifyChallenge_read(v, c)
                                      \/ refreshSession_read(v, c) \/ revokeSession_read(v, c)
     /\ UNCHANGED <<admin, adminCache, adminRevokers>>
  \/ AdminNext /\ UNCHANGED walletVars

SessionSpec == SessionInit /\ [][SessionNext]_sessionVars

-----------------------------------------------------------------------------
(* Rows and requests keep their shapes, and a session stems from a consumed  *)
(* challenge.                                                                 *)
SessionTypeOK ==
  /\ \A c \in Challenges :
       /\ challenge[c] \in {"none", "open", "expired", "consumed"}
       /\ session[c].token \in 0 .. tokens
       /\ session[c].token # 0 => challenge[c] = "consumed"
  /\ adminCache \subseteq Servers

(* "Only one can consume the nonce": however verify requests for one         *)
(* challenge interleave, they open one session at most.                      *)
ChallengeSingleUse == \A c \in Challenges : opened[c] <= 1

(* A session whose logout was answered stays logged out, also when a refresh *)
(* that read it before rotates its tokens afterwards.                        *)
LoggedOutStays == \A c \in loggedOut : session[c].revoked

(* The server that revoked an admin session refuses it from then on, cached  *)
(* or not.  Another server may accept it from its cache until it expires.    *)
RevokerRefuses == \A p \in adminRevokers : ~ verifySession(p)

\* A signature opens one session, and a session that was closed or whose
\* admin was revoked stays closed, although requests rotate its token.
SessionsSound ==
  /\ SessionTypeOK
  /\ ChallengeSingleUse
  /\ LoggedOutStays
  /\ RevokerRefuses
=============================================================================
