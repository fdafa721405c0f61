---------------------------- MODULE RefreshTokens ----------------------------
(***************************************************************************)
(* Refresh tokens (core/auth.py, with /login, /refresh and /logout of      *)
(* core/platform_api.py).  A request reads the row of the token it was     *)
(* given, and commits later: the row revoked and its successor inserted in *)
(* one transaction.  The handlers run in a thread pool.  The access token  *)
(* of the answer is signed after that commit, and a deployment without     *)
(* PLATFORM_JWT_SECRET cannot sign.                                        *)
(***************************************************************************)
EXTENDS Naturals, Sequences

CONSTANTS
  TokenRequests,  \* refresh and logout requests in progress at one time
  MaxTokens       \* bound: rows of refresh_tokens

ASSUME TokensAssumption == MaxTokens \in Nat

VARIABLES
  tokens,    \* the table: [parent, known, revoked]; a row's place is its id
  expired,   \* the oldest rows, up to this one, are past expires_at
  secret,    \* PLATFORM_JWT_SECRET is set
  asking,    \* the request each thread works on
  held,      \* history: tokens that reached a client
  ended      \* history: tokens a logout revoked

tokVars == <<tokens, expired, secret, asking, held, ended>>

Rows == 1 .. Len(tokens)
NoRequest == [at |-> "none", token |-> 0, known |-> 0]

TokensTypeOK ==
  /\ tokens \in Seq([parent : 0 .. MaxTokens, known : 0 .. MaxTokens, revoked : BOOLEAN])
  /\ Len(tokens) <= MaxTokens
  /\ expired \in 0 .. Len(tokens)
  /\ secret \in BOOLEAN
  /\ asking \in [TokenRequests -> [at : {"none", "rotate", "answer", "logout"},
                                   token : 0 .. MaxTokens, known : 0 .. MaxTokens]]
  /\ held \in SUBSET Rows
  /\ ended \in SUBSET Rows

TokensInit ==
  /\ tokens = << >>
  /\ expired = 0
  /\ secret = TRUE
  /\ asking = [q \in TokenRequests |-> NoRequest]
  /\ held = {} /\ ended = {}
-----------------------------------------------------------------------------
\* What rotate_refresh_token accepts.
Valid(t) == ~tokens[t].revoked /\ t > expired

\* issue_refresh_token: parent 0 is a login; known counts the rows there were
\* when the request read its token.
Row(p, k) == [parent |-> p, known |-> k, revoked |-> FALSE]
Revoke(t) == [tokens EXCEPT ![t].revoked = TRUE]

(* /login: the access token is signed first, so without a secret nothing   *)
(* is stored.                                                              *)
Login ==
  /\ secret /\ Len(tokens) < MaxTokens
  /\ tokens' = Append(tokens, Row(0, 0))
  /\ held' = held \cup {Len(tokens')}
  /\ UNCHANGED <<expired, secret, asking, ended>>

Take(q, t, at) ==
  /\ asking[q].at = "none" /\ t \in held
  /\ asking' = [asking EXCEPT ![q] = [at |-> at, token |-> t, known |-> Len(tokens)]]
  /\ UNCHANGED <<tokens, expired, secret, held, ended>>

\* /refresh reads the row; a row that is not valid is answered with 401.
RefreshRead(q, t) == t \in Rows /\ Valid(t) /\ Take(q, t, "rotate")
\* /logout needs an access token, which a process without a secret refuses;
\* a row is found whatever its state.
LogoutRead(q, t) == secret /\ Take(q, t, "logout")

NotRevokedSlip(q) == Append(tokens, Row(asking[q].token, asking[q].known))
\* The rows after the commit in issue_refresh_token.
Rotated(q) == Append(Revoke(asking[q].token), Row(asking[q].token, asking[q].known))

RefreshCommit(q) ==
  /\ asking[q].at = "rotate" /\ Len(tokens) < MaxTokens
  /\ tokens' = Rotated(q)
  /\ asking' = [asking EXCEPT ![q].at = "answer", ![q].token = Len(tokens')]
  /\ UNCHANGED <<expired, secret, held, ended>>

\* refresh() signs the access token: without a secret it raises, and the new
\* refresh token goes with the answer.
RefreshAnswer(q) ==
  /\ asking[q].at = "answer"
  /\ held' = IF secret THEN held \cup {asking[q].token} ELSE held
  /\ asking' = [asking EXCEPT ![q] = NoRequest]
  /\ UNCHANGED <<tokens, expired, secret, ended>>

LogoutCommit(q) ==
  /\ asking[q].at = "logout"
  /\ tokens' = Revoke(asking[q].token)
  /\ ended' = ended \cup {asking[q].token}
  /\ asking' = [asking EXCEPT ![q] = NoRequest]
  /\ UNCHANGED <<expired, secret, held>>

\* The database refuses the commit (another writer holds it): rolled back.
CommitFails(q) ==
  /\ asking[q].at \in {"rotate", "logout"}
  /\ asking' = [asking EXCEPT ![q] = NoRequest]
  /\ UNCHANGED <<tokens, expired, secret, held, ended>>

Expire ==
  /\ expired < Len(tokens)
  /\ expired' = expired + 1
  /\ UNCHANGED <<tokens, secret, asking, held, ended>>

\* The process stops; the next deployment has a secret or lacks it.
Redeploy ==
  /\ secret' \in BOOLEAN
  /\ asking' = [q \in TokenRequests |-> NoRequest]
  /\ UNCHANGED <<tokens, expired, held, ended>>

TokensNext ==
  \/ Login \/ Expire \/ Redeploy
  \/ \E q \in TokenRequests :
       \/ RefreshCommit(q) \/ RefreshAnswer(q) \/ LogoutCommit(q) \/ CommitFails(q)
       \/ \E t \in held : RefreshRead(q, t) \/ LogoutRead(q, t)

TokensSpec == TokensInit /\ [][TokensNext]_tokVars
-----------------------------------------------------------------------------
(* One refresh token yields one successor.  It yields two only when the    *)
(* second request read the row before the first one committed: rotate      *)
(* checks revoked, but the check and the commit are two steps.             *)
ForkOnlyByOverlap ==
  \A s, t \in Rows :
    s < t /\ tokens[s].parent = tokens[t].parent /\ tokens[t].parent # 0
      => tokens[t].known < s

(* A rotation never leaves a session without a token.  The row a client    *)
(* holds is usable or it expired or a logout revoked it, or it was rotated *)
(* and the same holds of a successor; the one other way to lose a session  *)
(* is a successor that is stored and never reached its client: in flight,  *)
(* dropped by a restart, or not answered for want of the secret.           *)
SessionIsPassedOn ==
  \A t \in held : \/ Valid(t) \/ t <= expired \/ t \in ended
                  \/ \E s \in Rows : tokens[s].parent = t

(* A session is one chain of tokens, as far as rotation can keep it one.   *)
SessionIsOneChain == ForkOnlyByOverlap /\ SessionIsPassedOn
=============================================================================
