---------------------------- MODULE TokenRefresh ----------------------------
(***************************************************************************)
(* The OAuth tokens of the read-only brokerage connection, which every     *)
(* worker process uses and may refresh: CredentialStore and                *)
(* RobinhoodMcpCapabilityClient in scripts/broker/robinhood_mcp_audit.py.  *)
(*                                                                         *)
(* The encrypted envelope holds an access token with its expiry, a refresh *)
(* token, and the cooldown that a failed reconnect leaves.  It is read     *)
(* without a lock and rewritten under one of its own, so a read and a      *)
(* write are a step each.  A second lock, the refresh lock, is held by the *)
(* worker that is about to refresh, until its session is initialized.      *)
(*                                                                         *)
(* External, and modelled from how it is used: the OAuth provider of the   *)
(* MCP package, which keeps the tokens it has read for the length of a     *)
(* session, and the server, which rotates the refresh token (the one that  *)
(* was presented is void afterwards).  Client registration, metadata, the  *)
(* migration of old envelopes and the interactive reauthorization, which a *)
(* person runs, are left out.                                              *)
(*                                                                         *)
(* The operators named Fault... are the seeded faults of PROJECT.json.     *)
(***************************************************************************)
EXTENDS Naturals, FiniteSets

CONSTANTS
    Clients,
    Tokens,     \* names for tokens; one that nobody remembers is used again
    NoToken,
    Lifetime,   \* expires_in of a new access token
    Skew,       \* TOKEN_REFRESH_SKEW_SECONDS
    Cooldown,   \* auth_reconnect_cooldown_seconds
    Deadline,   \* _readonly_operation_timeout_seconds
    MaxFaults   \* bound on the access tokens that the server rejects early

ConstantsOK ==
    /\ NoToken \notin Tokens /\ IsFiniteSet(Tokens) /\ Tokens # {}
    /\ Lifetime \in Nat /\ Skew \in Nat /\ Cooldown \in Nat
    /\ Deadline \in Nat /\ MaxFaults \in Nat
    /\ Skew < Lifetime

\* An access token outlives the cooldown and the operations of two workers.
Timely == Skew + Cooldown + 2 * Deadline <= Lifetime

VARIABLES
    envelope,  \* the credential file
    lock,      \* the worker that holds the refresh lock, or "none"
    session,   \* worker -> where its operation stands
    grant,     \* the refresh token that the server accepts
    rejected,  \* access tokens that the server rejects before they expire
    lost,      \* the response to a refresh never reached the envelope
    faults

tokenVars == <<envelope, lock, session, grant, rejected, lost, faults>>

TokenOrNone == Tokens \cup {NoToken}
NoTokens == [access |-> NoToken, refresh |-> NoToken, left |-> 0]
TokenPair == [access : TokenOrNone, refresh : TokenOrNone, left : 0..Lifetime]

Steps ==
    {"idle", "blocked", "peer", "attempt", "need", "lock", "waited", "recheck", "connect",
     "request", "refresh", "store", "force", "force_lock", "force_waited", "mark", "expire",
     "block"}

\* rejected is the access token at the start of the attempt, latest the one read
\* under the lock, tokens what the provider has in memory.
Off ==
    [step |-> "idle", stage |-> "initialize", forced |-> FALSE, rejected |-> NoToken,
     latest |-> NoToken, tokens |-> NoTokens, age |-> 0]

TokenTypeOK ==
    /\ envelope \in [tokens : TokenPair, blocked : 0..Cooldown, blocked_for : TokenOrNone]
    /\ lock \in Clients \cup {"none"}
    /\ session \in [Clients ->
           [step : Steps, stage : {"initialize", "operate"}, forced : BOOLEAN,
            rejected : TokenOrNone, latest : TokenOrNone, tokens : TokenPair,
            age : 0..Deadline]]
    /\ grant \in TokenOrNone /\ rejected \subseteq Tokens
    /\ lost \in BOOLEAN /\ faults \in 0..MaxFaults

TokenInit ==
    /\ grant = CHOOSE t \in Tokens : TRUE
    /\ envelope = [tokens |-> [access |-> grant, refresh |-> grant, left |-> Lifetime],
                   blocked |-> 0, blocked_for |-> NoToken]
    /\ lock = "none"
    /\ session = [w \in Clients |-> Off]
    /\ rejected = {} /\ lost = FALSE /\ faults = 0

At(w, step) == session[w].step = step
Goto(w, step) == session' = [session EXCEPT ![w].step = step]
End(w) == session' = [session EXCEPT ![w] = Off]
Server == <<grant, rejected, lost, faults>>
OnlySession == UNCHANGED <<envelope, lock, Server>>

-----------------------------------------------------------------------------
(* CredentialStore *)

\* get_tokens counts the skew as expired already.
Valid(tokens) == tokens.access # NoToken /\ tokens.left > Skew

\* _has_valid_access_token: it differs from the one that was rejected, if any.
ValidPeerToken(w) ==
    Valid(envelope.tokens) /\ envelope.tokens.access # session[w].rejected

\* set_tokens: the rest of the envelope stays as it is at this moment.
SetTokens(tokens) == envelope' = [envelope EXCEPT !.tokens = tokens]

\* Seeded fault: the cooldown is for the token that is now in the envelope.
FaultSetCooldown(w) ==
    envelope' = [envelope EXCEPT !.blocked = Cooldown, !.blocked_for = envelope.tokens.access]

SetCooldown(w) ==
    envelope' = [envelope EXCEPT !.blocked = Cooldown, !.blocked_for = session[w].rejected]

-----------------------------------------------------------------------------
(* _run_readonly_operation: the cooldown *)

Begin(w) ==
    /\ At(w, "idle")
    /\ Goto(w, IF envelope.blocked = 0 THEN "attempt" ELSE "blocked")
    /\ OnlySession

ReadBlocked(w) ==
    /\ At(w, "blocked")
    /\ IF envelope.blocked_for = NoToken THEN End(w)
       ELSE session' = [session EXCEPT ![w].step = "peer", ![w].rejected = envelope.blocked_for]
    /\ OnlySession

\* A peer may have stored another token since.
Bypass(w) ==
    /\ At(w, "peer")
    /\ IF ValidPeerToken(w)
       THEN session' = [session EXCEPT ![w].step = "attempt", ![w].rejected = NoToken]
       ELSE End(w)
    /\ OnlySession

Attempt(w) ==
    /\ At(w, "attempt")
    /\ session' = [session EXCEPT ![w].step = "need", ![w].stage = "initialize",
                                  ![w].rejected = envelope.tokens.access]
    /\ OnlySession

-----------------------------------------------------------------------------
(* _acquire_refresh_lock_if_needed *)

NeedsLock(w) ==
    /\ At(w, "need")
    /\ Goto(w, IF envelope.tokens.refresh = NoToken \/ Valid(envelope.tokens)
               THEN "connect" ELSE "lock")
    /\ OnlySession

TakeLock(w, from, to) ==
    /\ At(w, from) /\ lock = "none"
    /\ lock' = w
    /\ Goto(w, to)
    /\ UNCHANGED <<envelope, Server>>

\* The wait has a timeout.
LockTimesOut(w, from, to) ==
    /\ At(w, from) /\ lock # "none"
    /\ Goto(w, to)
    /\ OnlySession

Waited(w) ==
    /\ At(w, "waited")
    /\ IF Valid(envelope.tokens) THEN Goto(w, "connect") ELSE End(w)
    /\ OnlySession

Unlock(w) == lock' = IF lock = w THEN "none" ELSE lock

\* A peer that held the lock before may have refreshed.
Recheck(w) ==
    /\ At(w, "recheck")
    /\ IF Valid(envelope.tokens) THEN Unlock(w) ELSE UNCHANGED lock
    /\ Goto(w, "connect")
    /\ UNCHANGED <<envelope, Server>>

-----------------------------------------------------------------------------
(* _session *)

\* The provider reads the tokens once.
Connect(w) ==
    /\ At(w, "connect")
    /\ session' = [session EXCEPT ![w].step = "request", ![w].tokens = envelope.tokens]
    /\ OnlySession

\* The lock is released when the session is initialized; the operation is another
\* request of the same session.
Accepted(w) ==
    /\ At(w, "request") /\ Valid(session[w].tokens)
    /\ session[w].tokens.access \notin rejected
    /\ IF session[w].stage = "initialize"
       THEN session' = [session EXCEPT ![w].stage = "operate"] ELSE End(w)
    /\ Unlock(w)
    /\ UNCHANGED <<envelope, Server>>

\* The exception leaves the session, which releases the lock.
Failed(w) ==
    /\ session' = [session EXCEPT ![w].step = IF session[w].forced THEN "block" ELSE "force",
                                  ![w].tokens = NoTokens, ![w].stage = "initialize"]
    /\ Unlock(w)

\* The answer is 401, and a browser is what the provider would need next.
Unauthorized(w) ==
    /\ At(w, "request")
    /\ IF Valid(session[w].tokens) THEN session[w].tokens.access \in rejected
       ELSE session[w].tokens.refresh = NoToken
    /\ Failed(w)
    /\ UNCHANGED <<envelope, Server>>

\* Before each request the provider refreshes what it takes for expired, whether
\* the worker holds the lock or not.
StartRefresh(w) ==
    /\ At(w, "request") /\ ~Valid(session[w].tokens) /\ session[w].tokens.refresh # NoToken
    /\ Goto(w, "refresh")
    /\ OnlySession

Remembered ==
    {envelope.tokens.access, envelope.tokens.refresh, envelope.blocked_for, grant}
    \cup UNION {{session[w].rejected, session[w].latest, session[w].tokens.access,
                 session[w].tokens.refresh} : w \in Clients}

\* The server issues a new pair.
Refresh(w) ==
    /\ At(w, "refresh") /\ session[w].tokens.refresh = grant
    /\ Tokens \ Remembered # {}
    /\ LET new == CHOOSE t \in Tokens : t \notin Remembered
       IN /\ grant' = new
          /\ rejected' = rejected \cap Remembered
          /\ session' = [session EXCEPT ![w].step = "store",
                ![w].tokens = [access |-> new, refresh |-> new, left |-> Lifetime]]
    /\ UNCHANGED <<envelope, lock, lost, faults>>

\* A peer has used the refresh token up: the provider forgets its tokens and sends
\* the request without one.
Refused(w) ==
    /\ At(w, "refresh") /\ session[w].tokens.refresh # grant
    /\ Failed(w)
    /\ UNCHANGED <<envelope, Server>>

Store(w) ==
    /\ At(w, "store")
    /\ SetTokens(session[w].tokens)
    /\ Goto(w, "request")
    /\ UNCHANGED <<lock, Server>>

-----------------------------------------------------------------------------
(* _force_refresh_after_auth_failure, and one more attempt *)

Retry(w) ==
    session' = [session EXCEPT ![w].step = "attempt", ![w].forced = TRUE,
                               ![w].rejected = NoToken, ![w].latest = NoToken]

ForceRefresh(w) ==
    /\ At(w, "force")
    /\ IF session[w].rejected # NoToken /\ ValidPeerToken(w) THEN Retry(w)
       ELSE Goto(w, IF envelope.tokens.refresh = NoToken THEN "block" ELSE "force_lock")
    /\ OnlySession

ForceWaited(w) ==
    /\ At(w, "force_waited")
    /\ IF ValidPeerToken(w) THEN Retry(w) ELSE Goto(w, "block")
    /\ OnlySession

\* Under the lock the envelope is read again ...
ReadLatest(w) ==
    /\ At(w, "mark")
    /\ \/ /\ envelope.tokens.refresh = NoToken
          /\ Goto(w, "block") /\ Unlock(w)
       \/ /\ envelope.tokens.refresh # NoToken
          /\ session[w].rejected # NoToken /\ ValidPeerToken(w)
          /\ Retry(w) /\ Unlock(w)
       \/ /\ envelope.tokens.refresh # NoToken
          /\ session[w].rejected = NoToken \/ ~ValidPeerToken(w)
          /\ session' = [session EXCEPT ![w].step = "expire",
                                        ![w].latest = envelope.tokens.access]
          /\ UNCHANGED lock
    /\ UNCHANGED <<envelope, Server>>

\* Seeded fault: the tokens are dropped, not only marked.
FaultExpire(w) ==
    /\ At(w, "expire")
    /\ IF envelope.tokens.access = session[w].latest /\ envelope.tokens.refresh # NoToken
       THEN envelope' = [envelope EXCEPT !.tokens = NoTokens] /\ Retry(w)
       ELSE UNCHANGED envelope /\ Goto(w, "block")
    /\ Unlock(w)
    /\ UNCHANGED Server

\* ... and its access token is marked, unless it was replaced in between.
Expire(w) ==
    /\ At(w, "expire")
    /\ IF envelope.tokens.access = session[w].latest /\ envelope.tokens.refresh # NoToken
       THEN envelope' = [envelope EXCEPT !.tokens.left = 0] /\ Retry(w)
       ELSE UNCHANGED envelope /\ Goto(w, "block")
    /\ Unlock(w)
    /\ UNCHANGED Server

Block(w) ==
    /\ At(w, "block")
    /\ SetCooldown(w)
    /\ End(w)
    /\ UNCHANGED <<lock, Server>>

-----------------------------------------------------------------------------
(* The environment *)

\* A network failure, a deadline, or the death of the worker, whose lock its peers
\* remove (ProcessLock).
Break(w) ==
    /\ session[w].step # "idle"
    /\ End(w) /\ Unlock(w)
    /\ lost' = (lost \/ At(w, "store"))
    /\ UNCHANGED <<envelope, grant, rejected, faults>>

Reject ==
    /\ faults < MaxFaults /\ faults' = faults + 1
    /\ envelope.tokens.access # NoToken
    /\ rejected' = rejected \cup {envelope.tokens.access}
    /\ UNCHANGED <<envelope, lock, session, grant, lost>>

Older(tokens) == [tokens EXCEPT !.left = IF @ = 0 THEN 0 ELSE @ - 1]

\* An operation that meets its deadline is cancelled first.
Elapse ==
    /\ \A w \in Clients : At(w, "idle") \/ session[w].age < Deadline
    /\ envelope' = [envelope EXCEPT !.tokens = Older(@), !.blocked = IF @ = 0 THEN 0 ELSE @ - 1]
    /\ session' = [w \in Clients |-> IF At(w, "idle") THEN Off ELSE
           [session[w] EXCEPT !.tokens = Older(@), !.age = @ + 1]]
    /\ UNCHANGED <<lock, Server>>

Operation(w) ==
    \/ Begin(w) \/ ReadBlocked(w) \/ Bypass(w) \/ Attempt(w)
    \/ NeedsLock(w) \/ TakeLock(w, "lock", "recheck") \/ LockTimesOut(w, "lock", "waited")
    \/ Waited(w) \/ Recheck(w)
    \/ Connect(w) \/ Accepted(w) \/ Unauthorized(w)
    \/ StartRefresh(w) \/ Refresh(w) \/ Refused(w) \/ Store(w)
    \/ ForceRefresh(w) \/ TakeLock(w, "force_lock", "mark")
    \/ LockTimesOut(w, "force_lock", "force_waited")
    \/ ForceWaited(w) \/ ReadLatest(w) \/ Expire(w) \/ Block(w)

TokenNext == Elapse \/ Reject \/ \E w \in Clients : Operation(w) \/ Break(w)

TokenSpec == TokenInit /\ [][TokenNext]_tokenVars

-----------------------------------------------------------------------------
(* Properties *)

Storing == \E w \in Clients : At(w, "store") /\ session[w].tokens.refresh = grant

\* The refresh token in the envelope is the one the server accepts, unless a worker
\* is about to store it: no cooldown, mark or refresh of a peer overwrites it, and
\* only the death of the worker that has it in its hands can lose it.
GrantKept == envelope.tokens.refresh = grant \/ Storing \/ lost

\* The cooldown is bound to the rejected token, so that a healthy peer is not
\* blocked by mistake (DEVELOPMENT_LOG.md:7): if the server rejects nothing early
\* and no token is lost, then a worker that lost a race for the refresh, and blocks
\* the connection, blocks nobody, for the token of the winner gets through.
NoFalseBlock ==
    envelope.blocked > 0 /\ faults = 0 /\ ~lost =>
        \/ Storing
        \/ Valid(envelope.tokens) /\ envelope.blocked_for \notin {NoToken, envelope.tokens.access}
=============================================================================
