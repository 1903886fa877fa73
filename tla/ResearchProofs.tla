----------------------------- MODULE ResearchProofs -----------------------------
(***************************************************************************)
(* What five parts of the research guarantee, which share no state.  The   *)
(* sums over finite sets come from PaperBrokerProofs.                      *)
(*                                                                         *)
(* The workers that share the brokerage's tokens (TokenRefresh), for any   *)
(* number of them and any lifetimes, failures and rejections: the refresh  *)
(* token that the server accepts is lost only to the death of the worker   *)
(* that has it in its hands, and a worker that loses the race for a        *)
(* refresh blocks nobody.                                                  *)
(*                                                                         *)
(* The teams of agents (InvestmentTeams), for any evidence and any number  *)
(* of retries: what is billed is on record, and an entry cites evidence    *)
(* that was supplied.                                                      *)
(*                                                                         *)
(* The labelling of outcomes (OutcomeLearning), for any horizon, delay and *)
(* session: an observation is learned from once, and once more at most for *)
(* each kill.                                                              *)
(*                                                                         *)
(* The sizing of an order (InstrumentAllocation), for any percentages,     *)
(* prices and number of tickers: no order is created beyond the caps, and  *)
(* no share is bought whose move is over.                                  *)
(*                                                                         *)
(* The choice of what is researched (CandidateSelection), for any number   *)
(* of tickers and places and whatever the ranker answers: the reservations *)
(* are kept, and deep research is about what was researched.  What a loop  *)
(* over a list computes is shown step by step, from an induction up to a   *)
(* bound (EachStep) that rests on the minimal elements of a finite set.    *)
(***************************************************************************)
EXTENDS PaperBrokerProofs, TokenRefresh, InvestmentTeams, CandidateSelection,
        InstrumentAllocation, OutcomeLearning

-----------------------------------------------------------------------------
(* The tokens of the brokerage *)

\* The newest tokens have one owner: while a worker is about to store them, nobody else
\* has their refresh token, the envelope included.
StoringIsAlone ==
    \A w \in Clients : At(w, "store") =>
        /\ session[w].tokens.refresh = grant
        /\ envelope.tokens.refresh # grant
        /\ \A v \in Clients \ {w} : session[v].tokens.refresh # grant

\* A worker whose request failed, before its next attempt.
Failing == {"force", "force_lock", "force_waited", "mark", "expire", "block"}

\* Its request is refused, or will be: a peer has refreshed since.
Doomed(s) ==
    \/ s.step \in Failing
    \/ s.step \in {"request", "refresh"} /\ s.tokens.refresh # grant

\* What an operation knows of the tokens.  The last two parts say that tokens which
\* replaced those of a doomed worker are still young.
Informed(s) ==
    /\ s.tokens.access = s.tokens.refresh
    /\ s.step \in Failing \cup {"need", "lock", "waited", "recheck", "connect", "request",
                               "refresh", "store"} => s.rejected # NoToken
    /\ s.step \in {"request", "refresh", "store"} => s.tokens.refresh # NoToken
    /\ s.rejected = grant =>
          /\ envelope.tokens.refresh = grant
          /\ s.step \notin Failing
          /\ s.step \in {"request", "refresh"} => s.tokens.refresh = grant
    /\ s.step = "expire" => s.latest # grant
    /\ s.step = "store" => Lifetime <= s.tokens.left + s.age
    /\ Doomed(s) /\ envelope.tokens.refresh = grant =>
          Lifetime <= envelope.tokens.left + s.age + Deadline

\* The cooldown is for a token that was replaced.
BlockedIsOld ==
    /\ envelope.blocked_for # grant
    /\ envelope.blocked > 0 =>
          /\ envelope.blocked_for # NoToken
          /\ envelope.tokens.refresh = grant =>
                Lifetime + envelope.blocked <= envelope.tokens.left + 2 * Deadline + Cooldown

\* As long as the server rejects nothing early.
RacesAreBenign ==
    faults = 0 =>
        /\ rejected = {}
        /\ envelope.tokens.access = envelope.tokens.refresh
        /\ envelope.tokens.refresh # NoToken
        /\ \A w \in Clients : Informed(session[w])
        /\ BlockedIsOld


\* The inductive invariant of GrantKept; that of NoFalseBlock is RacesAreBenign on top.
TokenIInv == TokenTypeOK /\ grant # NoToken /\ StoringIsAlone /\ GrantKept

SessionRecord ==
    [step : Steps, stage : {"initialize", "operate"}, forced : BOOLEAN,
     rejected : TokenOrNone, latest : TokenOrNone, tokens : TokenPair, age : 0..Deadline]

-----------------------------------------------------------------------------
(* The start *)

LEMMA OffIsRecord == ASSUME ConstantsOK PROVE Off \in SessionRecord /\ NoTokens \in TokenPair
BY DEF ConstantsOK, Off, SessionRecord, Steps, NoTokens, TokenPair, TokenOrNone

LEMMA InitTokenIInv == ASSUME ConstantsOK, TokenInit PROVE TokenIInv
<1>1. grant \in Tokens /\ grant # NoToken BY DEF ConstantsOK, TokenInit
<1>2. TokenTypeOK
  <2>1. /\ envelope = [tokens |-> [access |-> grant, refresh |-> grant, left |-> Lifetime],
                       blocked |-> 0, blocked_for |-> NoToken]
        /\ session = [w \in Clients |-> Off] /\ lock = "none" /\ rejected = {}
        /\ lost = FALSE /\ faults = 0
    BY DEF TokenInit
  <2>2. Lifetime \in 0..Lifetime /\ 0 \in 0..Cooldown /\ 0 \in 0..MaxFaults
    BY DEF ConstantsOK
  <2>3. envelope \in [tokens : TokenPair, blocked : 0..Cooldown, blocked_for : TokenOrNone]
    BY <1>1, <2>1, <2>2 DEF TokenPair, TokenOrNone
  <2>4. session \in [Clients -> SessionRecord] BY <2>1, OffIsRecord
  <2> QED BY <1>1, <2>1, <2>2, <2>3, <2>4 DEF TokenTypeOK, SessionRecord, TokenOrNone
<1>3. StoringIsAlone BY DEF TokenInit, StoringIsAlone, At, Off
<1>4. GrantKept BY DEF TokenInit, GrantKept
<1> QED BY <1>1, <1>2, <1>3, <1>4 DEF TokenIInv

LEMMA InitRaces == ASSUME ConstantsOK, TokenInit PROVE RacesAreBenign
<1>1. grant \in Tokens /\ grant # NoToken BY DEF ConstantsOK, TokenInit
<1>2. Informed(Off) BY <1>1 DEF Informed, Off, NoTokens, Doomed, Failing
<1>3. BlockedIsOld BY <1>1 DEF BlockedIsOld, TokenInit
<1>4. \A w \in Clients : session[w] = Off BY DEF TokenInit
<1>5. \A w \in Clients : Informed(session[w]) BY <1>2, <1>4
<1>6. /\ rejected = {} /\ envelope.tokens.access = grant
      /\ envelope.tokens.refresh = grant
  BY DEF TokenInit
<1> QED BY <1>1, <1>3, <1>5, <1>6 DEF RacesAreBenign

-----------------------------------------------------------------------------
(* Steps of one operation that leave the envelope alone *)

\* Nothing but the session of w moves, w does not come to store, and has no tokens
\* that neither it nor the envelope had.
OwnMove(w) ==
    /\ UNCHANGED <<envelope, grant, rejected, faults>>
    /\ lock' \in Clients \cup {"none"}
    /\ session'[w] \in SessionRecord
    /\ session' = [session EXCEPT ![w] = session'[w]]
    /\ session'[w].step # "store"
    /\ session'[w].tokens.refresh = grant =>
          grant \in {session[w].tokens.refresh, envelope.tokens.refresh}
    /\ \/ lost' = lost /\ session[w].step # "store"
       \/ lost' = TRUE

LEMMA OwnMoveKeeps ==
    ASSUME ConstantsOK, TokenIInv, NEW w \in Clients, OwnMove(w) PROVE TokenIInv'
<1>1. TokenTypeOK'
  BY DEF TokenIInv, TokenTypeOK, OwnMove, SessionRecord
<1>2. session \in [Clients -> SessionRecord] BY DEF TokenIInv, TokenTypeOK, SessionRecord
<1>3. \A v \in Clients : session'[v] = IF v = w THEN session'[w] ELSE session[v]
  BY <1>2 DEF OwnMove
<1>4. StoringIsAlone' BY <1>3 DEF TokenIInv, StoringIsAlone, OwnMove, At
<1>5. GrantKept' BY <1>3 DEF TokenIInv, GrantKept, Storing, OwnMove, At
<1> QED BY <1>1, <1>4, <1>5 DEF TokenIInv, OwnMove

LEMMA OwnMoveIsBenign ==
    ASSUME ConstantsOK, TokenIInv, RacesAreBenign, NEW w \in Clients, OwnMove(w),
           faults = 0 => Informed(session[w])'
    PROVE  RacesAreBenign'
<1> SUFFICES ASSUME faults = 0 PROVE RacesAreBenign' BY DEF RacesAreBenign, OwnMove
<1>1. session \in [Clients -> SessionRecord] BY DEF TokenIInv, TokenTypeOK, SessionRecord
<1>2. \A v \in Clients \ {w} : session'[v] = session[v] BY <1>1 DEF OwnMove
<1>3. \A v \in Clients \ {w} : Informed(session[v])'
  BY <1>2 DEF RacesAreBenign, Informed, Doomed, OwnMove
<1>4. BlockedIsOld' BY DEF RacesAreBenign, BlockedIsOld, OwnMove
<1> QED BY <1>3, <1>4 DEF RacesAreBenign, OwnMove

\* The steps of an operation that only move it on, ...
Proceeding(w) ==
    \/ Begin(w) \/ ReadBlocked(w) \/ Bypass(w) \/ Attempt(w) \/ NeedsLock(w)
    \/ TakeLock(w, "lock", "recheck") \/ LockTimesOut(w, "lock", "waited")
    \/ Waited(w) \/ Recheck(w) \/ Connect(w) \/ Accepted(w) \/ StartRefresh(w)

\* ... and those after a failure.
Recovering(w) ==
    \/ Unauthorized(w) \/ Refused(w) \/ ForceRefresh(w) \/ TakeLock(w, "force_lock", "mark")
    \/ LockTimesOut(w, "force_lock", "force_waited") \/ ForceWaited(w) \/ ReadLatest(w)

LEMMA Sessions ==
    ASSUME TokenIInv
    PROVE  /\ session \in [Clients -> SessionRecord]
           /\ envelope \in [tokens : TokenPair, blocked : 0..Cooldown,
                            blocked_for : TokenOrNone]
           /\ lock \in Clients \cup {"none"} /\ grant \in Tokens /\ grant # NoToken
           /\ rejected \subseteq Tokens /\ lost \in BOOLEAN /\ faults \in 0..MaxFaults
BY DEF TokenIInv, TokenTypeOK, SessionRecord, TokenOrNone

LEMMA MoveTo ==
    ASSUME ConstantsOK, TokenIInv, NEW w \in Clients, NEW s \in SessionRecord,
           session' = [session EXCEPT ![w] = s], s.step # "store",
           s.tokens.refresh \in {session[w].tokens.refresh, envelope.tokens.refresh, NoToken},
           session[w].step # "store", UNCHANGED <<envelope, Server>>,
           lock' \in Clients \cup {"none"}
    PROVE  OwnMove(w)
<1>1. session'[w] = s BY Sessions
<1> QED BY <1>1, Sessions DEF OwnMove, Server

LEMMA EndMoves ==
    ASSUME ConstantsOK, TokenIInv, NEW w \in Clients, End(w), session[w].step # "store",
           UNCHANGED <<envelope, Server>>, lock' \in Clients \cup {"none"}
    PROVE  OwnMove(w)
<1>1. Off.step # "store" /\ Off.tokens.refresh = NoToken BY DEF Off, NoTokens
<1> QED BY <1>1, MoveTo, OffIsRecord DEF End

LEMMA ProceedingMoves ==
    ASSUME ConstantsOK, TokenIInv, NEW w \in Clients, Proceeding(w) PROVE OwnMove(w)
<1> USE Sessions DEF OnlySession, Server, At
<1>0. Unlock(w) => lock' \in Clients \cup {"none"} BY DEF Unlock
<1>1. CASE Begin(w) BY <1>1 DEF Begin, Goto, OwnMove, SessionRecord, Steps
<1>2. CASE ReadBlocked(w)
  <2>1. CASE End(w) BY <1>2, <2>1, EndMoves DEF ReadBlocked
  <2>2. CASE ~End(w)
    <3> DEFINE s == [session[w] EXCEPT !.step = "peer", !.rejected = envelope.blocked_for]
    <3>1. session' = [session EXCEPT ![w] = s] BY <1>2, <2>2 DEF ReadBlocked
    <3>2. s \in SessionRecord /\ s.step = "peer" /\ s.tokens = session[w].tokens
      BY DEF SessionRecord, Steps
    <3> HIDE DEF s
    <3> QED BY <1>2, <3>1, <3>2, MoveTo DEF ReadBlocked
  <2> QED BY <2>1, <2>2
<1>3. CASE Bypass(w)
  <2>1. CASE End(w) BY <1>3, <2>1, EndMoves DEF Bypass
  <2>2. CASE ~End(w)
    <3> DEFINE s == [session[w] EXCEPT !.step = "attempt", !.rejected = NoToken]
    <3>1. session' = [session EXCEPT ![w] = s] BY <1>3, <2>2 DEF Bypass
    <3>2. s \in SessionRecord /\ s.step = "attempt" /\ s.tokens = session[w].tokens
      BY DEF SessionRecord, Steps, TokenOrNone
    <3> HIDE DEF s
    <3> QED BY <1>3, <3>1, <3>2, MoveTo DEF Bypass
  <2> QED BY <2>1, <2>2
<1>4. CASE Attempt(w)
  <2> DEFINE s == [session[w] EXCEPT !.step = "need", !.stage = "initialize",
                                     !.rejected = envelope.tokens.access]
  <2>1. session' = [session EXCEPT ![w] = s] BY <1>4 DEF Attempt
  <2>2. s \in SessionRecord /\ s.step = "need" /\ s.tokens = session[w].tokens
    BY DEF SessionRecord, Steps, TokenPair
  <2> HIDE DEF s
  <2> QED BY <1>4, <2>1, <2>2, MoveTo DEF Attempt
<1>5. CASE NeedsLock(w) BY <1>5 DEF NeedsLock, Goto, OwnMove, SessionRecord, Steps
<1>6. CASE TakeLock(w, "lock", "recheck")
  BY <1>6 DEF TakeLock, Goto, OwnMove, SessionRecord, Steps
<1>7. CASE LockTimesOut(w, "lock", "waited")
  BY <1>7 DEF LockTimesOut, Goto, OwnMove, SessionRecord, Steps
<1>8. CASE Waited(w)
  <2>1. CASE End(w) BY <1>8, <2>1, EndMoves DEF Waited
  <2>2. CASE Goto(w, "connect")
    BY <1>8, <2>2 DEF Waited, Goto, OwnMove, SessionRecord, Steps
  <2> QED BY <1>8, <2>1, <2>2 DEF Waited
<1>9. CASE Recheck(w) BY <1>0, <1>9 DEF Recheck, Goto, OwnMove, SessionRecord, Steps
<1>10. CASE Connect(w) BY <1>10 DEF Connect, OwnMove, SessionRecord, Steps
<1>11. CASE Accepted(w)
  <2>1. CASE End(w) BY <1>0, <1>11, <2>1, EndMoves DEF Accepted
  <2>2. CASE session' = [session EXCEPT ![w].stage = "operate"]
    BY <1>0, <1>11, <2>2 DEF Accepted, OwnMove, SessionRecord
  <2> QED BY <1>11, <2>1, <2>2 DEF Accepted
<1>12. CASE StartRefresh(w) BY <1>12 DEF StartRefresh, Goto, OwnMove, SessionRecord, Steps
<1> QED BY <1>1, <1>2, <1>3, <1>4, <1>5, <1>6, <1>7, <1>8, <1>9, <1>10, <1>11, <1>12
        DEF Proceeding

LEMMA RecoveringMoves ==
    ASSUME ConstantsOK, TokenIInv, NEW w \in Clients, Recovering(w) PROVE OwnMove(w)
<1> USE Sessions DEF OnlySession, Server, At
<1>0. Unlock(w) => lock' \in Clients \cup {"none"} BY DEF Unlock
<1>1. ASSUME Failed(w), session[w].step # "store", UNCHANGED <<envelope, Server>>
      PROVE  OwnMove(w)
  BY <1>0, <1>1, OffIsRecord DEF Failed, OwnMove, SessionRecord, Steps, NoTokens
<1>2. CASE Unauthorized(w) BY <1>1, <1>2 DEF Unauthorized
<1>3. CASE Refused(w) BY <1>1, <1>3 DEF Refused
<1>4. ASSUME Retry(w), session[w].step # "store", UNCHANGED <<envelope, Server>>,
             lock' \in Clients \cup {"none"}
      PROVE  OwnMove(w)
  <2> DEFINE s == [session[w] EXCEPT !.step = "attempt", !.forced = TRUE,
                                     !.rejected = NoToken, !.latest = NoToken]
  <2>1. session' = [session EXCEPT ![w] = s] BY <1>4 DEF Retry
  <2>2. s \in SessionRecord /\ s.step = "attempt" /\ s.tokens = session[w].tokens
    BY DEF SessionRecord, Steps, TokenOrNone
  <2> HIDE DEF s
  <2> QED BY <1>4, <2>1, <2>2, MoveTo
<1>5. ASSUME NEW s \in Failing, Goto(w, s), session[w].step # "store",
             UNCHANGED <<envelope, Server>>, lock' \in Clients \cup {"none"}
      PROVE  OwnMove(w)
  BY <1>5 DEF Goto, OwnMove, SessionRecord, Steps, Failing
<1>6. CASE ForceRefresh(w) BY <1>4, <1>5, <1>6 DEF ForceRefresh, Failing
<1>7. CASE TakeLock(w, "force_lock", "mark") BY <1>5, <1>7 DEF TakeLock, Failing
<1>8. CASE LockTimesOut(w, "force_lock", "force_waited")
  BY <1>5, <1>8 DEF LockTimesOut, Failing
<1>9. CASE ForceWaited(w) BY <1>4, <1>5, <1>9 DEF ForceWaited, Failing
<1>10. CASE ReadLatest(w)
  <2>1. CASE Goto(w, "block") BY <1>0, <1>5, <1>10, <2>1 DEF ReadLatest, Failing
  <2>2. CASE Retry(w) BY <1>0, <1>4, <1>10, <2>2 DEF ReadLatest
  <2>3. CASE session' = [session EXCEPT ![w].step = "expire",
                                        ![w].latest = envelope.tokens.access]
    <3> DEFINE s == [session[w] EXCEPT !.step = "expire", !.latest = envelope.tokens.access]
    <3>1. session' = [session EXCEPT ![w] = s] BY <2>3
    <3>2. s \in SessionRecord /\ s.step = "expire" /\ s.tokens = session[w].tokens
      BY DEF SessionRecord, Steps, TokenPair
    <3>3. lock' \in Clients \cup {"none"} BY <1>0, <1>10 DEF ReadLatest
    <3> HIDE DEF s
    <3> QED BY <1>10, <3>1, <3>2, <3>3, MoveTo DEF ReadLatest
  <2> QED BY <1>10, <2>1, <2>2, <2>3 DEF ReadLatest
<1> QED BY <1>2, <1>3, <1>6, <1>7, <1>8, <1>9, <1>10 DEF Recovering

LEMMA BreakMoves ==
    ASSUME ConstantsOK, TokenIInv, NEW w \in Clients, Break(w)
    PROVE  OwnMove(w) /\ session'[w] = Off
BY Sessions, OffIsRecord
DEF Break, Unlock, End, OwnMove, SessionRecord, Off, NoTokens, Server, At

-----------------------------------------------------------------------------
(* What an operation knows, step by step *)

LEMMA OffIsInformed == ASSUME grant # NoToken PROVE Informed(Off)
BY DEF Informed, Off, NoTokens, Doomed, Failing

\* The envelope and the grant stay, so only the session of w matters.
LEMMA InformedNext ==
    ASSUME NEW w \in Clients, OwnMove(w), NEW s, session'[w] = s, Informed(s)
    PROVE  Informed(session[w])'
BY DEF OwnMove, Informed, Doomed

LEMMA ProceedingIsInformed ==
    ASSUME ConstantsOK, TokenIInv, RacesAreBenign, faults = 0, NEW w \in Clients, Proceeding(w)
    PROVE  Informed(session[w])'
<1>1. OwnMove(w) BY ProceedingMoves
<1>2. /\ Informed(session[w]) /\ Informed(Off)
      /\ envelope.tokens.access = envelope.tokens.refresh
      /\ envelope.tokens.refresh # NoToken /\ envelope.blocked_for # grant
      /\ session[w] \in SessionRecord /\ grant # NoToken
  BY OffIsInformed, Sessions DEF RacesAreBenign, BlockedIsOld
<1> USE Sessions DEF At
<1>3. ASSUME NEW next \in Steps, Goto(w, next), next \notin Failing \cup {"store"},
             next \in {"need", "lock", "waited", "recheck", "connect", "request", "refresh"} =>
                session[w].step \in {"need", "lock", "waited", "recheck", "connect", "request",
                                     "refresh"},
             next = "refresh" => session[w].step = "request",
             next # "request"
      PROVE  Informed(session[w])'
  <2>1. session'[w] = [session[w] EXCEPT !.step = next] BY <1>3 DEF Goto
  <2>2. Informed([session[w] EXCEPT !.step = next])
    BY <1>2, <1>3 DEF Informed, Doomed, Failing, SessionRecord
  <2> QED BY <1>1, <2>1, <2>2, InformedNext
<1>4. ASSUME End(w) PROVE Informed(session[w])'
  <2>1. session'[w] = Off BY <1>4 DEF End
  <2> QED BY <1>1, <1>2, <2>1, InformedNext
<1>5. CASE Begin(w) BY <1>3, <1>5 DEF Begin, Steps, Failing
<1>6. CASE ReadBlocked(w)
  <2>1. CASE ~End(w)
    <3>1. session'[w] = [session[w] EXCEPT !.step = "peer", !.rejected = envelope.blocked_for]
      BY <1>6, <2>1 DEF ReadBlocked
    <3>2. Informed(session'[w])
      BY <1>2, <3>1 DEF Informed, Doomed, Failing, SessionRecord
    <3> QED BY <1>1, <3>2, InformedNext
  <2> QED BY <1>4, <2>1
<1>7. CASE Bypass(w)
  <2>1. CASE ~End(w)
    <3>1. session'[w] = [session[w] EXCEPT !.step = "attempt", !.rejected = NoToken]
      BY <1>7, <2>1 DEF Bypass
    <3>2. Informed(session'[w])
      BY <1>2, <3>1 DEF Informed, Doomed, Failing, SessionRecord
    <3> QED BY <1>1, <3>2, InformedNext
  <2> QED BY <1>4, <2>1
<1>8. CASE Attempt(w)
  <2>1. session'[w] = [session[w] EXCEPT !.step = "need", !.stage = "initialize",
                                         !.rejected = envelope.tokens.access]
    BY <1>8 DEF Attempt
  <2>2. Informed(session'[w])
    BY <1>2, <2>1 DEF Informed, Doomed, Failing, SessionRecord
  <2> QED BY <1>1, <2>2, InformedNext
<1>9. CASE NeedsLock(w) BY <1>3, <1>9 DEF NeedsLock, Steps, Failing
<1>10. CASE TakeLock(w, "lock", "recheck") BY <1>3, <1>10 DEF TakeLock, Steps, Failing
<1>11. CASE LockTimesOut(w, "lock", "waited")
  BY <1>3, <1>11 DEF LockTimesOut, Steps, Failing
<1>12. CASE Waited(w) BY <1>3, <1>4, <1>12 DEF Waited, Steps, Failing
<1>13. CASE Recheck(w) BY <1>3, <1>13 DEF Recheck, Steps, Failing
<1>14. CASE Connect(w)
  <2>1. session'[w] = [session[w] EXCEPT !.step = "request", !.tokens = envelope.tokens]
        /\ session[w].step = "connect"
    BY <1>14 DEF Connect
  <2>2. Informed(session'[w])
    BY <1>2, <2>1 DEF Informed, Doomed, Failing, SessionRecord
  <2> QED BY <1>1, <2>2, InformedNext
<1>15. CASE Accepted(w)
  <2>1. CASE ~End(w)
    <3>1. session'[w] = [session[w] EXCEPT !.stage = "operate"]
      BY <1>15, <2>1 DEF Accepted
    <3>2. Informed(session'[w])
      BY <1>2, <3>1 DEF Informed, Doomed, Failing, SessionRecord
    <3> QED BY <1>1, <3>2, InformedNext
  <2> QED BY <1>4, <2>1
<1>16. CASE StartRefresh(w) BY <1>3, <1>16 DEF StartRefresh, Steps, Failing
<1> QED BY <1>5, <1>6, <1>7, <1>8, <1>9, <1>10, <1>11, <1>12, <1>13, <1>14, <1>15, <1>16
        DEF Proceeding

\* What the server rejects nothing of is refused to a worker only because a peer has
\* refreshed; the failing worker then meets tokens that are young.
LEMMA RecoveringIsInformed ==
    ASSUME ConstantsOK, Timely, Cooldown > 0, TokenIInv, RacesAreBenign, faults = 0,
           NEW w \in Clients, Recovering(w)
    PROVE  Informed(session[w])'
<1>1. OwnMove(w) BY RecoveringMoves
<1>2. /\ Informed(session[w])
      /\ envelope.tokens.access = envelope.tokens.refresh
      /\ envelope.tokens.refresh # NoToken /\ rejected = {}
      /\ session[w] \in SessionRecord /\ grant # NoToken
  BY Sessions DEF RacesAreBenign
<1> USE Sessions DEF At
<1>3. ASSUME NEW next \in Failing \ {"expire"}, Goto(w, next), session[w].step \in Failing
      PROVE  Informed(session[w])'
  <2>1. session'[w] = [session[w] EXCEPT !.step = next] BY <1>3 DEF Goto
  <2>2. Informed([session[w] EXCEPT !.step = next])
    BY <1>2, <1>3 DEF Informed, Doomed, Failing, SessionRecord
  <2> QED BY <1>1, <2>1, <2>2, InformedNext
<1>4. ASSUME Retry(w) PROVE Informed(session[w])'
  <2>1. session'[w] = [session[w] EXCEPT !.step = "attempt", !.forced = TRUE,
                                         !.rejected = NoToken, !.latest = NoToken]
    BY <1>4 DEF Retry
  <2>2. Informed(session'[w])
    BY <1>2, <2>1 DEF Informed, Doomed, Failing, SessionRecord
  <2> QED BY <1>1, <2>2, InformedNext
<1>5. ~Unauthorized(w) BY <1>2 DEF Unauthorized, Informed
<1>6. CASE Refused(w)
  <2>1. session[w].step = "refresh" /\ session[w].tokens.refresh # grant BY <1>6 DEF Refused
  <2>2. PICK next \in {"block", "force"} :
           session'[w] = [session[w] EXCEPT !.step = next, !.tokens = NoTokens,
                                            !.stage = "initialize"]
    BY <1>6 DEF Refused, Failed
  <2>3. Informed(session'[w])
    BY <1>2, <2>1, <2>2 DEF Informed, Doomed, Failing, SessionRecord, NoTokens
  <2> QED BY <1>1, <2>3, InformedNext
<1>7. CASE ForceRefresh(w) BY <1>3, <1>4, <1>7 DEF ForceRefresh, Failing
<1>8. CASE TakeLock(w, "force_lock", "mark") BY <1>3, <1>8 DEF TakeLock, Failing
<1>9. CASE LockTimesOut(w, "force_lock", "force_waited")
  BY <1>3, <1>9 DEF LockTimesOut, Failing
<1>10. CASE ForceWaited(w) BY <1>3, <1>4, <1>10 DEF ForceWaited, Failing
<1>11. CASE ReadLatest(w)
  <2>1. session[w].step = "mark" /\ session[w].rejected # NoToken
        /\ session[w].rejected # grant
    BY <1>2, <1>11 DEF ReadLatest, Informed, Failing
  <2>2. CASE ~Retry(w) /\ ~Goto(w, "block")
    <3>1. /\ ~ValidPeerToken(w)
          /\ session'[w] = [session[w] EXCEPT !.step = "expire",
                                              !.latest = envelope.tokens.access]
      BY <1>11, <2>1, <2>2 DEF ReadLatest
    <3>2. envelope.tokens.access # grant
      <4> SUFFICES ASSUME envelope.tokens.access = grant PROVE FALSE
          OBVIOUS
      <4>1. Lifetime <= envelope.tokens.left + session[w].age + Deadline
        BY <1>2, <2>1 DEF Informed, Doomed, Failing
      <4>2. envelope.tokens.left \in Nat /\ session[w].age \in 0..Deadline
        BY DEF SessionRecord, TokenPair, ConstantsOK
      <4>3. envelope.tokens.left > Skew BY <4>1, <4>2 DEF ConstantsOK, Timely
      <4> QED BY <1>2, <2>1, <3>1, <4>3 DEF ValidPeerToken, Valid
    <3>3. Informed(session'[w])
      BY <1>2, <2>1, <3>1, <3>2 DEF Informed, Doomed, Failing, SessionRecord
    <3> QED BY <1>1, <3>3, InformedNext
  <2> QED BY <1>3, <1>4, <2>1, <2>2 DEF Failing
<1> QED BY <1>5, <1>6, <1>7, <1>8, <1>9, <1>10, <1>11 DEF Recovering

-----------------------------------------------------------------------------
(* The steps that change the envelope, the grant or the clock *)

LEMMA RefreshKeeps ==
    ASSUME ConstantsOK, TokenIInv, NEW w \in Clients, Refresh(w)
    PROVE  TokenIInv' /\ (RacesAreBenign => RacesAreBenign')
<1> DEFINE new == CHOOSE t \in Tokens : t \notin Remembered
<1>1. new \in Tokens /\ new \notin Remembered BY DEF Refresh
<1> DEFINE fresh == [access |-> new, refresh |-> new, left |-> Lifetime]
<1>2. /\ grant' = new /\ rejected' = rejected \cap Remembered
      /\ session' = [session EXCEPT ![w].step = "store", ![w].tokens = fresh]
      /\ UNCHANGED <<envelope, lock, lost, faults>>
      /\ session[w].step = "refresh" /\ session[w].tokens.refresh = grant
  BY DEF Refresh, At
<1> HIDE DEF new
<1> USE Sessions
<1>3. new # NoToken BY <1>1 DEF ConstantsOK
<1>4. fresh \in TokenPair BY <1>1 DEF TokenPair, TokenOrNone, ConstantsOK
<1>5. session' = [session EXCEPT ![w] = [session[w] EXCEPT !.step = "store", !.tokens = fresh]]
  BY <1>2
<1>6. [session[w] EXCEPT !.step = "store", !.tokens = fresh] \in SessionRecord
  BY <1>4 DEF SessionRecord, Steps
<1> DEFINE s == [session[w] EXCEPT !.step = "store", !.tokens = fresh]
<1>7. /\ \A v \in Clients : session'[v] = IF v = w THEN s ELSE session[v]
      /\ session' \in [Clients -> SessionRecord]
  BY <1>5, <1>6
<1>8. /\ s.step = "store" /\ s.tokens = fresh /\ s.age = session[w].age
      /\ s.rejected = session[w].rejected /\ s.latest = session[w].latest
  BY DEF SessionRecord
<1>9. /\ envelope.tokens.refresh # new /\ envelope.blocked_for # new
      /\ \A v \in Clients :
            new \notin {session[v].rejected, session[v].latest, session[v].tokens.refresh}
  BY <1>1 DEF Remembered
<1> HIDE DEF s, fresh
<1>10. TokenTypeOK'
  BY <1>1, <1>2, <1>7 DEF TokenIInv, TokenTypeOK, SessionRecord, TokenOrNone
<1>11. fresh.refresh = new /\ fresh.access = new /\ fresh.left = Lifetime BY DEF fresh
<1>12. \A v \in Clients \ {w} : session[v].step # "store"
  BY <1>2 DEF TokenIInv, StoringIsAlone, At
<1>13. StoringIsAlone'
  BY <1>2, <1>7, <1>8, <1>9, <1>11, <1>12 DEF StoringIsAlone, At
<1>14. GrantKept' BY <1>2, <1>7, <1>8, <1>11 DEF GrantKept, Storing, At
<1>15. ASSUME RacesAreBenign, faults' = 0 PROVE RacesAreBenign'
  <2>1. /\ rejected = {} /\ envelope.tokens.access = envelope.tokens.refresh
        /\ envelope.tokens.refresh # NoToken /\ \A v \in Clients : Informed(session[v])
        /\ BlockedIsOld
    BY <1>2, <1>15 DEF RacesAreBenign
  <2>2. BlockedIsOld' BY <1>2, <1>9, <2>1 DEF BlockedIsOld
  <2>3. Informed(session[w])'
    <3>1. session[w].age \in Nat /\ Lifetime \in Nat /\ session[w].rejected # NoToken
      BY <1>2, <2>1 DEF SessionRecord, ConstantsOK, Informed
    <3> QED BY <1>2, <1>3, <1>7, <1>8, <1>9, <1>11, <3>1 DEF Informed, Doomed, Failing
  <2>4. ASSUME NEW v \in Clients \ {w} PROVE Informed(session[v])'
    <3>1. session'[v] = session[v] /\ session[v].step # "store" BY <1>7, <1>12
    <3> QED BY <1>2, <1>9, <2>1, <3>1 DEF Informed, Doomed, Failing
  <2> QED BY <1>2, <2>1, <2>2, <2>3, <2>4 DEF RacesAreBenign
<1> QED BY <1>2, <1>3, <1>10, <1>13, <1>14, <1>15 DEF TokenIInv, RacesAreBenign

LEMMA StoreKeeps ==
    ASSUME ConstantsOK, TokenIInv, NEW w \in Clients, Store(w)
    PROVE  TokenIInv' /\ (RacesAreBenign => RacesAreBenign')
<1> USE Sessions
<1> DEFINE s == [session[w] EXCEPT !.step = "request"]
<1>1. /\ session[w].step = "store" /\ envelope' = [envelope EXCEPT !.tokens = session[w].tokens]
      /\ session' = [session EXCEPT ![w] = s]
      /\ UNCHANGED <<lock, grant, rejected, lost, faults>>
  BY DEF Store, At, SetTokens, Goto, Server
<1>2. /\ s \in SessionRecord /\ s.step = "request" /\ s.tokens = session[w].tokens
      /\ s.age = session[w].age /\ s.rejected = session[w].rejected
      /\ s.latest = session[w].latest
  BY DEF SessionRecord, Steps
<1>3. /\ \A v \in Clients : session'[v] = IF v = w THEN s ELSE session[v]
      /\ session' \in [Clients -> SessionRecord]
  BY <1>1, <1>2
<1> HIDE DEF s
<1>4. /\ envelope'.tokens = session[w].tokens /\ envelope'.blocked = envelope.blocked
      /\ envelope'.blocked_for = envelope.blocked_for
      /\ envelope' \in [tokens : TokenPair, blocked : 0..Cooldown, blocked_for : TokenOrNone]
  BY <1>1 DEF SessionRecord
<1>5. session[w].tokens.refresh = grant
      /\ \A v \in Clients \ {w} : session[v].tokens.refresh # grant
  BY <1>1 DEF TokenIInv, StoringIsAlone, At
<1>6. \A v \in Clients \ {w} : session[v].step # "store"
  BY <1>5 DEF TokenIInv, StoringIsAlone, At
<1>7. TokenTypeOK' BY <1>1, <1>3, <1>4 DEF TokenIInv, TokenTypeOK, SessionRecord
<1>8. StoringIsAlone' BY <1>2, <1>3, <1>6 DEF StoringIsAlone, At
<1>9. GrantKept' BY <1>1, <1>4, <1>5 DEF GrantKept
<1>10. ASSUME RacesAreBenign, faults' = 0 PROVE RacesAreBenign'
  <2>1. /\ rejected = {} /\ \A v \in Clients : Informed(session[v])
        /\ BlockedIsOld
    BY <1>1, <1>10 DEF RacesAreBenign
  <2>2. /\ session[w].tokens.access = grant /\ session[w].rejected # NoToken
        /\ Lifetime <= session[w].tokens.left + session[w].age
        /\ session[w].age \in 0..Deadline /\ session[w].tokens.left \in Nat
        /\ Lifetime \in Nat /\ Deadline \in Nat /\ Cooldown \in Nat
    BY <1>1, <1>5, <2>1 DEF Informed, SessionRecord, TokenPair, ConstantsOK
  <2>3. BlockedIsOld'
    <3>1. envelope.blocked \in 0..Cooldown OBVIOUS
    <3> QED BY <1>1, <1>4, <2>1, <2>2, <3>1 DEF BlockedIsOld
  <2>4. Informed(session[w])'
    BY <1>1, <1>2, <1>3, <1>4, <1>5, <2>2 DEF Informed, Doomed, Failing
  <2>5. ASSUME NEW v \in Clients \ {w} PROVE Informed(session[v])'
    <3>1. session'[v] = session[v] /\ session[v].step # "store" BY <1>3, <1>6
    <3>2. session[v].age \in Nat BY DEF SessionRecord
    <3>3. Informed(session[v]) /\ session[v].rejected # grant
      BY <1>1, <2>1 DEF Informed, TokenIInv, StoringIsAlone, At
    <3> QED BY <1>1, <1>4, <1>5, <2>2, <3>1, <3>2, <3>3 DEF Informed, Doomed, Failing
  <2> QED BY <1>1, <1>4, <1>5, <2>1, <2>2, <2>3, <2>4, <2>5 DEF RacesAreBenign
<1> QED BY <1>1, <1>7, <1>8, <1>9, <1>10 DEF TokenIInv, RacesAreBenign

\* A mark or a cooldown leaves the refresh token in the envelope; without an early
\* rejection the mark is on tokens that were replaced.
LEMMA ExpireKeeps ==
    ASSUME ConstantsOK, TokenIInv, NEW w \in Clients, Expire(w)
    PROVE  TokenIInv' /\ (RacesAreBenign => RacesAreBenign')
<1> USE Sessions
<1>1. /\ session[w].step = "expire" /\ UNCHANGED <<grant, rejected, lost, faults>>
      /\ lock' \in Clients \cup {"none"}
  BY DEF Expire, At, Server, Unlock
<1>2. \/ /\ envelope' = [envelope EXCEPT !.tokens.left = 0]
         /\ envelope.tokens.access = session[w].latest
         /\ session' = [session EXCEPT ![w] = [session[w] EXCEPT
                            !.step = "attempt", !.forced = TRUE, !.rejected = NoToken,
                            !.latest = NoToken]]
      \/ /\ envelope' = envelope
         /\ session' = [session EXCEPT ![w] = [session[w] EXCEPT !.step = "block"]]
  BY DEF Expire, Retry, Goto
<1>3. PICK s \in SessionRecord :
        /\ session' = [session EXCEPT ![w] = s] /\ s.tokens = session[w].tokens
        /\ s.age = session[w].age
        /\ \/ s.step = "attempt" /\ s.rejected = NoToken
           \/ s.step = "block" /\ s.rejected = session[w].rejected /\ envelope' = envelope
  <2>1. [session[w] EXCEPT !.step = "attempt", !.forced = TRUE, !.rejected = NoToken,
                           !.latest = NoToken] \in SessionRecord
        /\ [session[w] EXCEPT !.step = "block"] \in SessionRecord
    BY DEF SessionRecord, Steps, TokenOrNone
  <2>2. /\ session[w] \in SessionRecord
        /\ \A r \in SessionRecord : r.step \in Steps
    BY DEF SessionRecord
  <2> QED BY <1>2, <2>1, <2>2 DEF SessionRecord
<1>4. /\ \A v \in Clients : session'[v] = IF v = w THEN s ELSE session[v]
      /\ session' \in [Clients -> SessionRecord]
  BY <1>3
<1>5. /\ envelope'.tokens.access = envelope.tokens.access
      /\ envelope'.tokens.refresh = envelope.tokens.refresh
      /\ envelope'.blocked = envelope.blocked /\ envelope'.blocked_for = envelope.blocked_for
      /\ envelope' \in [tokens : TokenPair, blocked : 0..Cooldown, blocked_for : TokenOrNone]
      /\ envelope' = envelope \/ envelope.tokens.access = session[w].latest
  BY <1>2 DEF TokenPair, ConstantsOK
<1>6. TokenTypeOK' BY <1>1, <1>4, <1>5 DEF TokenIInv, TokenTypeOK, SessionRecord
<1>7. StoringIsAlone' BY <1>1, <1>3, <1>4, <1>5 DEF TokenIInv, StoringIsAlone, At
<1>8. GrantKept' BY <1>1, <1>3, <1>4, <1>5 DEF TokenIInv, GrantKept, Storing, At
<1>9. ASSUME RacesAreBenign, faults' = 0 PROVE RacesAreBenign'
  <2>1. /\ rejected = {} /\ \A v \in Clients : Informed(session[v])
        /\ BlockedIsOld /\ envelope.tokens.access = envelope.tokens.refresh
        /\ envelope.tokens.refresh # NoToken
    BY <1>1, <1>9 DEF RacesAreBenign
  <2>2. session[w].latest # grant BY <1>1, <2>1 DEF Informed
  <2>3. envelope.tokens.refresh = grant => envelope' = envelope BY <1>5, <2>1, <2>2
  <2>4. BlockedIsOld' BY <1>1, <1>5, <2>1, <2>3 DEF BlockedIsOld
  <2>5. ASSUME NEW v \in Clients \ {w} PROVE Informed(session[v])'
    BY <1>1, <1>4, <1>5, <2>1, <2>3 DEF Informed, Doomed, Failing
  <2>6. Informed(session[w])'
    BY <1>1, <1>3, <1>4, <1>5, <2>1, <2>3 DEF Informed, Doomed, Failing
  <2> QED BY <1>1, <1>5, <2>1, <2>4, <2>5, <2>6 DEF RacesAreBenign
<1> QED BY <1>1, <1>6, <1>7, <1>8, <1>9 DEF TokenIInv, RacesAreBenign

LEMMA BlockKeeps ==
    ASSUME ConstantsOK, TokenIInv, NEW w \in Clients, Block(w)
    PROVE  TokenIInv' /\ (RacesAreBenign => RacesAreBenign')
<1> USE Sessions
<1>1. /\ session[w].step = "block" /\ UNCHANGED <<lock, grant, rejected, lost, faults>>
      /\ envelope' = [envelope EXCEPT !.blocked = Cooldown,
                                      !.blocked_for = session[w].rejected]
      /\ session' = [session EXCEPT ![w] = Off]
  BY DEF Block, At, Server, SetCooldown, End
<1>2. /\ \A v \in Clients : session'[v] = IF v = w THEN Off ELSE session[v]
      /\ session' \in [Clients -> SessionRecord]
  BY <1>1, OffIsRecord
<1>3. /\ envelope'.tokens = envelope.tokens /\ envelope'.blocked = Cooldown
      /\ envelope'.blocked_for = session[w].rejected
      /\ envelope' \in [tokens : TokenPair, blocked : 0..Cooldown, blocked_for : TokenOrNone]
  <2>1. Cooldown \in 0..Cooldown /\ session[w].rejected \in TokenOrNone
    BY DEF SessionRecord, ConstantsOK
  <2> QED BY <1>1, <2>1
<1>4. Off.step = "idle" /\ Off.tokens.refresh = NoToken BY DEF Off, NoTokens
<1>5. TokenTypeOK' BY <1>1, <1>2, <1>3 DEF TokenIInv, TokenTypeOK, SessionRecord
<1>6. StoringIsAlone' BY <1>1, <1>2, <1>3, <1>4 DEF TokenIInv, StoringIsAlone, At
<1>7. GrantKept' BY <1>1, <1>2, <1>3 DEF TokenIInv, GrantKept, Storing, At
<1>8. ASSUME RacesAreBenign, faults' = 0 PROVE RacesAreBenign'
  <2>1. /\ rejected = {} /\ \A v \in Clients : Informed(session[v])
        /\ envelope.tokens.access = envelope.tokens.refresh
        /\ envelope.tokens.refresh # NoToken
    BY <1>1, <1>8 DEF RacesAreBenign
  <2>2. /\ session[w].rejected # grant /\ session[w].rejected # NoToken
        /\ envelope.tokens.refresh = grant =>
              Lifetime <= envelope.tokens.left + session[w].age + Deadline
    BY <1>1, <2>1 DEF Informed, Doomed, Failing
  <2>3. /\ session[w].age \in 0..Deadline /\ envelope.tokens.left \in Nat
        /\ Lifetime \in Nat /\ Deadline \in Nat /\ Cooldown \in Nat
    BY DEF SessionRecord, TokenPair, ConstantsOK
  <2>4. BlockedIsOld' BY <1>1, <1>3, <2>2, <2>3 DEF BlockedIsOld
  <2>5. ASSUME NEW v \in Clients \ {w} PROVE Informed(session[v])'
    BY <1>1, <1>2, <1>3, <2>1 DEF Informed, Doomed, Failing
  <2>6. Informed(session[w])'
    BY <1>1, <1>2, <1>3, <1>4, OffIsInformed DEF Informed, Doomed, Failing, Off, NoTokens
  <2> QED BY <1>1, <1>3, <2>1, <2>4, <2>5, <2>6 DEF RacesAreBenign
<1> QED BY <1>1, <1>5, <1>6, <1>7, <1>8 DEF TokenIInv, RacesAreBenign

LEMMA RejectKeeps ==
    ASSUME ConstantsOK, TokenIInv, Reject PROVE TokenIInv' /\ RacesAreBenign'
<1> USE Sessions
<1>1. /\ faults < MaxFaults /\ faults' = faults + 1
      /\ envelope.tokens.access # NoToken /\ rejected' = rejected \cup {envelope.tokens.access}
      /\ UNCHANGED <<envelope, lock, session, grant, lost>>
  BY DEF Reject
<1>2. faults' \in 1..MaxFaults BY <1>1 DEF ConstantsOK
<1>3. envelope.tokens.access \in Tokens BY <1>1 DEF TokenPair, TokenOrNone
<1>4. TokenTypeOK' BY <1>1, <1>2, <1>3 DEF TokenIInv, TokenTypeOK, ConstantsOK
<1>5. StoringIsAlone' /\ GrantKept'
  BY <1>1 DEF TokenIInv, StoringIsAlone, GrantKept, Storing, At
<1>6. RacesAreBenign' BY <1>2 DEF RacesAreBenign
<1> QED BY <1>1, <1>4, <1>5, <1>6 DEF TokenIInv

\* Time makes all tokens older alike.
LEMMA OlderPair ==
    ASSUME ConstantsOK, NEW p \in TokenPair
    PROVE  /\ Older(p) \in TokenPair /\ Older(p).access = p.access
           /\ Older(p).refresh = p.refresh /\ Older(p).left + 1 >= p.left
           /\ p.left > 0 => Older(p).left + 1 = p.left
BY DEF Older, TokenPair, ConstantsOK

LEMMA ElapseKeeps ==
    ASSUME ConstantsOK, TokenIInv, Elapse
    PROVE  TokenIInv' /\ (RacesAreBenign => RacesAreBenign')
<1> USE Sessions
<1> DEFINE older(w) == [session[w] EXCEPT !.tokens = Older(session[w].tokens),
                                          !.age = session[w].age + 1]
<1>1. /\ \A w \in Clients : session[w].step = "idle" \/ session[w].age < Deadline
      /\ session' = [w \in Clients |-> IF session[w].step = "idle" THEN Off ELSE older(w)]
      /\ envelope' = [envelope EXCEPT
            !.tokens = Older(envelope.tokens),
            !.blocked = IF envelope.blocked = 0 THEN 0 ELSE envelope.blocked - 1]
      /\ UNCHANGED <<lock, grant, rejected, lost, faults>>
  BY DEF Elapse, At, Server
<1>2. envelope.tokens \in TokenPair /\ \A w \in Clients : session[w].tokens \in TokenPair
  BY DEF SessionRecord
<1>3. /\ envelope'.tokens = Older(envelope.tokens)
      /\ envelope'.tokens \in TokenPair
      /\ envelope'.tokens.access = envelope.tokens.access
      /\ envelope'.tokens.refresh = envelope.tokens.refresh
      /\ envelope'.tokens.left + 1 >= envelope.tokens.left
      /\ envelope'.blocked_for = envelope.blocked_for
      /\ envelope'.blocked \in 0..Cooldown
      /\ envelope'.blocked > 0 => envelope.blocked = envelope'.blocked + 1
      /\ envelope' \in [tokens : TokenPair, blocked : 0..Cooldown, blocked_for : TokenOrNone]
  <2> DEFINE left == IF envelope.blocked = 0 THEN 0 ELSE envelope.blocked - 1
  <2>1. left \in 0..Cooldown /\ (left > 0 => envelope.blocked = left + 1)
    BY DEF ConstantsOK
  <2>2. /\ envelope'.tokens = Older(envelope.tokens) /\ envelope'.blocked = left
        /\ envelope'.blocked_for = envelope.blocked_for
        /\ envelope' = [envelope EXCEPT !.tokens = Older(envelope.tokens), !.blocked = left]
    BY <1>1
  <2> HIDE DEF left
  <2>3. Older(envelope.tokens) \in TokenPair BY <1>2, OlderPair
  <2>4. envelope' \in [tokens : TokenPair, blocked : 0..Cooldown, blocked_for : TokenOrNone]
    BY <2>1, <2>2, <2>3
  <2> QED BY <1>2, <2>1, <2>2, <2>3, <2>4, OlderPair
<1>4. ASSUME NEW w \in Clients, session[w].step # "idle"
      PROVE  /\ session'[w] = older(w) /\ older(w) \in SessionRecord
             /\ older(w).step = session[w].step /\ older(w).rejected = session[w].rejected
             /\ older(w).latest = session[w].latest
             /\ older(w).tokens.access = session[w].tokens.access
             /\ older(w).tokens.refresh = session[w].tokens.refresh
             /\ older(w).tokens.left + 1 >= session[w].tokens.left
             /\ older(w).age = session[w].age + 1
  <2>1. session[w].age + 1 \in 0..Deadline
    <3>1. session[w].age \in 0..Deadline /\ Deadline \in Nat BY DEF SessionRecord, ConstantsOK
    <3>2. session[w].age < Deadline BY <1>1, <1>4
    <3> QED BY <3>1, <3>2
  <2>2. session[w] \in SessionRecord /\ Older(session[w].tokens) \in TokenPair
    BY <1>2, OlderPair
  <2>3. older(w) \in SessionRecord /\ older(w).tokens = Older(session[w].tokens)
        /\ older(w).age = session[w].age + 1
    BY <2>1, <2>2 DEF SessionRecord
  <2> QED BY <1>1, <1>2, <1>4, <2>2, <2>3, OlderPair DEF SessionRecord
<1>5. \A w \in Clients : session[w].step = "idle" => session'[w] = Off BY <1>1
<1> HIDE DEF older
<1>6. session' \in [Clients -> SessionRecord]
  <2>1. \A w \in Clients :
           (IF session[w].step = "idle" THEN Off ELSE older(w)) \in SessionRecord
    BY <1>4, OffIsRecord
  <2> QED BY <1>1, <2>1
<1>7. Off.step = "idle" /\ Off.tokens.refresh = NoToken BY DEF Off, NoTokens
<1>8. \A w \in Clients : /\ session'[w].step = session[w].step
                         /\ session'[w].tokens.refresh \in
                               {session[w].tokens.refresh, NoToken}
                         /\ session[w].step = "store" =>
                               session'[w].tokens.refresh = session[w].tokens.refresh
  BY <1>4, <1>5, <1>7
<1>9. TokenTypeOK' BY <1>1, <1>3, <1>6 DEF TokenIInv, TokenTypeOK, SessionRecord
<1>10. StoringIsAlone' BY <1>1, <1>3, <1>8 DEF TokenIInv, StoringIsAlone, At
<1>11. GrantKept' BY <1>1, <1>3, <1>8 DEF TokenIInv, GrantKept, Storing, At
<1>12. ASSUME RacesAreBenign, faults' = 0 PROVE RacesAreBenign'
  <2>1. /\ rejected = {} /\ \A w \in Clients : Informed(session[w])
        /\ BlockedIsOld /\ envelope.tokens.access = envelope.tokens.refresh
        /\ envelope.tokens.refresh # NoToken
    BY <1>1, <1>12 DEF RacesAreBenign
  <2>2. /\ Lifetime \in Nat /\ Deadline \in Nat /\ Cooldown \in Nat
        /\ envelope.tokens.left \in Nat /\ envelope'.tokens.left \in Nat
        /\ envelope.blocked \in Nat /\ envelope'.blocked \in Nat
    BY <1>3 DEF ConstantsOK, TokenPair
  <2>3. BlockedIsOld' BY <1>1, <1>3, <2>1, <2>2 DEF BlockedIsOld
  <2>4. ASSUME NEW w \in Clients PROVE Informed(session[w])'
    <3>1. CASE session[w].step = "idle"
      BY <1>1, <1>5, <1>7, <3>1 DEF Informed, Doomed, Failing, Off, NoTokens
    <3>2. CASE session[w].step # "idle"
      <4>1. session[w].age \in Nat /\ session[w].tokens.left \in Nat
            /\ older(w).tokens.left \in Nat
        BY <1>4, <3>2 DEF SessionRecord, TokenPair
      <4>2. Informed(session[w]) BY <2>1
      <4> QED BY <1>1, <1>3, <1>4, <2>1, <2>2, <3>2, <4>1, <4>2 DEF Informed, Doomed, Failing
    <3> QED BY <3>1, <3>2
  <2> QED BY <1>1, <1>3, <2>1, <2>3, <2>4 DEF RacesAreBenign
<1> QED BY <1>1, <1>9, <1>10, <1>11, <1>12 DEF TokenIInv, RacesAreBenign

-----------------------------------------------------------------------------
(* Theorems *)

LEMMA StepTokenIInv == ASSUME ConstantsOK PROVE TokenIInv /\ [TokenNext]_tokenVars => TokenIInv'
<1> SUFFICES ASSUME TokenIInv, [TokenNext]_tokenVars PROVE TokenIInv'
    OBVIOUS
<1>1. CASE UNCHANGED tokenVars
  BY <1>1 DEF tokenVars, TokenIInv, TokenTypeOK, StoringIsAlone, GrantKept, Storing, At
<1>2. ASSUME NEW w \in Clients, Operation(w) PROVE TokenIInv'
  <2>1. CASE Proceeding(w) \/ Recovering(w)
    BY <2>1, ProceedingMoves, RecoveringMoves, OwnMoveKeeps
  <2> QED BY <1>2, <2>1, RefreshKeeps, StoreKeeps, ExpireKeeps, BlockKeeps
          DEF Operation, Proceeding, Recovering
<1>3. ASSUME NEW w \in Clients, Break(w) PROVE TokenIInv' BY <1>3, BreakMoves, OwnMoveKeeps
<1> QED BY <1>1, <1>2, <1>3, ElapseKeeps, RejectKeeps DEF TokenNext

\* Without a cooldown nothing is ever blocked, and nothing needs to be shown.
LEMMA StepRaces ==
    ASSUME ConstantsOK, Timely, Cooldown > 0
    PROVE  TokenIInv /\ RacesAreBenign /\ [TokenNext]_tokenVars => RacesAreBenign'
<1> SUFFICES ASSUME TokenIInv, RacesAreBenign, [TokenNext]_tokenVars PROVE RacesAreBenign'
    OBVIOUS
<1>1. CASE UNCHANGED tokenVars
  BY <1>1 DEF tokenVars, RacesAreBenign, Informed, Doomed, BlockedIsOld
<1>2. ASSUME NEW w \in Clients, Operation(w) PROVE RacesAreBenign'
  <2>1. CASE Proceeding(w) BY <2>1, ProceedingMoves, ProceedingIsInformed, OwnMoveIsBenign
  <2>2. CASE Recovering(w) BY <2>2, RecoveringMoves, RecoveringIsInformed, OwnMoveIsBenign
  <2> QED BY <1>2, <2>1, <2>2, RefreshKeeps, StoreKeeps, ExpireKeeps, BlockKeeps
          DEF Operation, Proceeding, Recovering
<1>3. ASSUME NEW w \in Clients, Break(w) PROVE RacesAreBenign'
  <2>1. OwnMove(w) /\ session'[w] = Off BY <1>3, BreakMoves
  <2>2. Informed(session[w])' BY <2>1, Sessions, OffIsInformed, InformedNext
  <2> QED BY <2>1, <2>2, OwnMoveIsBenign
<1> QED BY <1>1, <1>2, <1>3, ElapseKeeps, RejectKeeps DEF TokenNext

\* The types, and with them that tokens about to be stored are in one hand only.
THEOREM TokenIInvHolds == ASSUME ConstantsOK PROVE TokenSpec => []TokenIInv
<1>1. TokenInit => TokenIInv BY InitTokenIInv
<1>2. TokenIInv /\ [TokenNext]_tokenVars => TokenIInv' BY StepTokenIInv
<1> QED BY <1>1, <1>2, PTL DEF TokenSpec

\* The refresh token that the server accepts is in the envelope, or in the hands of a
\* worker that is about to store it, or its worker was killed.
THEOREM GrantKeptHolds == ASSUME ConstantsOK PROVE TokenSpec => []GrantKept
<1>1. TokenIInv => GrantKept BY DEF TokenIInv
<1> QED BY <1>1, TokenIInvHolds, PTL

LEMMA RacesImply ==
    ASSUME ConstantsOK, Timely, Cooldown > 0, TokenIInv, RacesAreBenign PROVE NoFalseBlock
<1> USE Sessions
<1> SUFFICES ASSUME envelope.blocked > 0, faults = 0, ~lost, ~Storing
             PROVE  /\ Valid(envelope.tokens)
                    /\ envelope.blocked_for \notin {NoToken, envelope.tokens.access}
    BY DEF NoFalseBlock
<1>1. envelope.tokens.refresh = grant /\ envelope.tokens.access = grant
  BY DEF TokenIInv, GrantKept, RacesAreBenign
<1>2. /\ envelope.blocked_for # grant /\ envelope.blocked_for # NoToken
      /\ Lifetime + envelope.blocked <= envelope.tokens.left + 2 * Deadline + Cooldown
  BY <1>1 DEF RacesAreBenign, BlockedIsOld
<1>3. envelope.tokens.left \in Nat /\ envelope.blocked \in Nat BY DEF TokenPair, ConstantsOK
<1>4. envelope.tokens.left > Skew BY <1>2, <1>3 DEF ConstantsOK, Timely
<1> QED BY <1>1, <1>2, <1>4 DEF Valid

\* If tokens live long enough, a worker that lost the race for a refresh, and blocks
\* the connection, blocks nobody: the tokens in the envelope are valid, and are not
\* those that the cooldown is for.
THEOREM NoFalseBlockHolds ==
    ASSUME ConstantsOK, Timely PROVE TokenSpec => []NoFalseBlock
<1>1. CASE Cooldown > 0
  <2>1. TokenInit => TokenIInv /\ RacesAreBenign BY InitTokenIInv, InitRaces
  <2>2. TokenIInv /\ RacesAreBenign /\ [TokenNext]_tokenVars => (TokenIInv /\ RacesAreBenign)'
    BY <1>1, StepTokenIInv, StepRaces
  <2>3. TokenIInv /\ RacesAreBenign => NoFalseBlock BY <1>1, RacesImply
  <2> QED BY <2>1, <2>2, <2>3, PTL DEF TokenSpec
<1>2. CASE Cooldown = 0
  <2>1. TokenIInv => NoFalseBlock
    <3> SUFFICES ASSUME TokenIInv PROVE NoFalseBlock
        OBVIOUS
    <3>1. envelope.blocked \in 0..0 BY <1>2, Sessions
    <3> QED BY <3>1 DEF NoFalseBlock
  <2> QED BY <2>1, TokenIInvHolds, PTL
<1> QED BY <1>1, <1>2 DEF ConstantsOK

-----------------------------------------------------------------------------
(* What an analysis costs, and what its plan rests on *)

\* At most MaxRetries + 1 units for each agent that answered, and those of the call
\* that is under way.
Costs ==
    /\ call.tokens <= call.attempt
    /\ step \in {"idle", "input"} => call = NoCall
    /\ step \in {"input", "news"} => usage.records = 0 /\ usage.tokens = 0
    /\ step = "challenge" => usage.records = 1 /\ usage.tokens <= MaxRetries + 1
    /\ step = "decision" => usage.records = 2 /\ usage.tokens <= 2 * (MaxRetries + 1)
    /\ step # "idle" => ~usage.escaped

\* The evidence of an analysis is part of what the plan may rest on, but for a fresh
\* analysis of the allocator, which replaces the plan and its evidence at its end.
Replaces == team = "allocator" /\ stage \in Fresh
Evidence ==
    /\ team # "allocator" => stage = "none"
    /\ Replaces \/ supplied \subseteq known

TeamIInv == TeamTypeOK /\ Costs /\ Evidence /\ UsageRecorded /\ PlanIsSupported

UsageRecords ==
    [records : 0..3, tokens : TokenCounts, billed : TokenCounts, escaped : BOOLEAN]
Calls == [attempt : 0..MaxRetries, tokens : 0..MaxRetries]
HeardRecords == [news : News, challenge : Challenges]
Plans == Plan \cup {NoPlan}
Outcomes == {"none", "enter", "watch", "no_trade", "hard_veto", "escaped"}

LEMMA EmptyRecords ==
    ASSUME TeamConstantsOK
    PROVE  /\ Nothing \in HeardRecords /\ NoCall \in Calls /\ NoUsage \in UsageRecords
           /\ NoCall.attempt = 0 /\ NoCall.tokens = 0 /\ NoPlan.cites = {}
           /\ NoUsage.records = 0 /\ NoUsage.tokens = 0 /\ NoUsage.billed = 0
           /\ NoUsage.escaped = FALSE
<1>1. 0 \in TokenCounts /\ 0 \in 0..MaxRetries BY DEF TeamConstantsOK, TokenCounts
<1>2. NoCall \in Calls /\ NoCall.attempt = 0 /\ NoCall.tokens = 0
  BY <1>1 DEF Calls, NoCall
<1>3. NoUsage \in UsageRecords BY <1>1 DEF UsageRecords, NoUsage
<1>4. Nothing \in HeardRecords
  BY DEF Nothing, HeardRecords, News, Challenges
<1> QED BY <1>2, <1>3, <1>4 DEF NoUsage, NoPlan

LEMMA InitTeamIInv == ASSUME TeamConstantsOK, TeamInit PROVE TeamIInv
<1> USE EmptyRecords DEF TeamInit
<1>1. TeamTypeOK
  <2>1. 0 \in 0..MaxAnalyses BY DEF TeamConstantsOK
  <2> QED BY <2>1 DEF TeamTypeOK, UsageRecords, Calls, HeardRecords
<1>2. Costs BY DEF Costs
<1>3. Evidence BY DEF Evidence
<1>4. UsageRecorded BY DEF UsageRecorded
<1>5. PlanIsSupported BY DEF PlanIsSupported
<1> QED BY <1>1, <1>2, <1>3, <1>4, <1>5 DEF TeamIInv

\* The books of an analysis and its call.
LEMMA TeamNumbers ==
    ASSUME TeamConstantsOK, TeamIInv
    PROVE  /\ usage \in UsageRecords /\ call \in Calls /\ MaxRetries \in Nat
           /\ usage.records \in Nat /\ usage.tokens \in Nat /\ usage.billed \in Nat
           /\ call.attempt \in 0..MaxRetries /\ call.tokens \in Nat
           /\ call.tokens <= call.attempt
           /\ step # "idle" => usage.billed = usage.tokens + call.tokens /\ ~usage.escaped
<1>1. usage \in UsageRecords /\ call \in Calls
  BY DEF TeamIInv, TeamTypeOK, UsageRecords, Calls
<1>2. usage.records \in Nat /\ usage.tokens \in Nat /\ usage.billed \in Nat
  BY <1>1 DEF UsageRecords, TokenCounts, TeamConstantsOK
<1>3. call.attempt \in 0..MaxRetries /\ call.tokens \in 0..MaxRetries BY <1>1 DEF Calls
<1>4. call.tokens \in Nat /\ MaxRetries \in Nat BY <1>3 DEF TeamConstantsOK
<1> QED BY <1>1, <1>2, <1>3, <1>4 DEF TeamIInv, Costs, UsageRecorded

\* UsageTracker.record writes what the attempts of the call have cost, once.
LEMMA RecordBooks ==
    ASSUME TeamConstantsOK, TeamIInv, Asking, NEW tokens \in {0, 1}, Record(tokens)
    PROVE  /\ usage' \in UsageRecords /\ usage'.billed = usage'.tokens /\ ~usage'.escaped
           /\ usage'.records = usage.records + 1
           /\ usage'.tokens <= usage.tokens + MaxRetries + 1
<1> USE TeamNumbers
<1>1. step \in {"news", "challenge", "decision"} /\ step # "idle" BY DEF Asking
<1>2. /\ usage.records + 1 \in 0..3
      /\ usage.tokens + MaxRetries + 1 <= 3 * (MaxRetries + 1)
  <2>1. CASE step = "news" BY <2>1 DEF TeamIInv, Costs
  <2>2. CASE step = "challenge" BY <2>2 DEF TeamIInv, Costs
  <2>3. CASE step = "decision" BY <2>3 DEF TeamIInv, Costs
  <2> QED BY <1>1, <2>1, <2>2, <2>3
<1> DEFINE spent == usage.tokens + call.tokens + tokens
<1>3. spent \in Nat /\ spent <= usage.tokens + MaxRetries + 1 OBVIOUS
<1>4. spent \in TokenCounts BY <1>2, <1>3 DEF TokenCounts
<1>5. usage.billed + tokens = spent BY <1>1
<1>6. usage' = [usage EXCEPT !.records = usage.records + 1, !.tokens = spent,
                             !.billed = usage.billed + tokens]
  BY DEF Record
<1> HIDE DEF spent
<1>7. /\ usage'.records = usage.records + 1 /\ usage'.tokens = spent
      /\ usage'.billed = usage.billed + tokens /\ usage'.escaped = usage.escaped
      /\ usage' \in UsageRecords
  BY <1>2, <1>4, <1>5, <1>6 DEF UsageRecords
<1> QED BY <1>1, <1>3, <1>5, <1>7

-----------------------------------------------------------------------------
(* The end of an analysis *)

LEMMA EndKeeps ==
    ASSUME TeamConstantsOK, TeamIInv, UNCHANGED <<team, configured, stage, supplied, analyses>>,
           known' \in SUBSET Sources, Replaces \/ supplied \subseteq known',
           usage' \in UsageRecords, usage'.billed = usage'.tokens \/ usage'.escaped,
           NEW result \in Outcomes, NEW kept \in Plans, EndAnalysis(result, kept),
           kept.cites \subseteq known',
           result \in {"none", "enter", "escaped"} \/ kept = NoPlan
    PROVE  TeamIInv'
<1> USE EmptyRecords
<1>1. /\ step' = "idle" /\ call' = NoCall /\ heard' = Nothing
      /\ outcome' = result /\ plan' = kept
  BY DEF EndAnalysis
<1>2. TeamTypeOK'
  BY <1>1 DEF TeamIInv, TeamTypeOK, UsageRecords, Calls, HeardRecords, Plans, Outcomes
<1>3. Costs' BY <1>1 DEF Costs
<1>4. Evidence' BY DEF Evidence, TeamIInv, Replaces
<1>5. UsageRecorded'
  <2>1. usage'.tokens \in Nat BY DEF UsageRecords, TokenCounts, TeamConstantsOK
  <2> QED BY <1>1, <2>1 DEF UsageRecorded
<1>6. PlanIsSupported' BY <1>1 DEF PlanIsSupported
<1> QED BY <1>2, <1>3, <1>4, <1>5, <1>6 DEF TeamIInv

LEMMA VetoKeeps ==
    ASSUME TeamConstantsOK, TeamIInv, UNCHANGED <<team, configured, stage, supplied, analyses>>,
           known' \in SUBSET Sources, Replaces \/ supplied \subseteq known',
           usage' \in UsageRecords, usage'.billed = usage'.tokens \/ usage'.escaped,
           NEW result \in Outcomes, EndAnalysis(result, NoPlan)
    PROVE  TeamIInv'
<1>1. NoPlan \in Plans /\ NoPlan.cites \subseteq known' BY EmptyRecords DEF Plans
<1> QED BY <1>1, EndKeeps

LEMMA RaiseKeeps ==
    ASSUME TeamConstantsOK, TeamIInv, UNCHANGED Context, NEW exception, Raise(exception),
           usage' \in UsageRecords, usage'.billed = usage'.tokens \/ usage'.escaped
    PROVE  TeamIInv'
<1>1. /\ UNCHANGED <<team, configured, stage, supplied, known, analyses>>
      /\ known \subseteq Sources /\ plan \in Plans /\ plan.cites \subseteq known
      /\ Replaces \/ supplied \subseteq known
  BY DEF Context, TeamIInv, TeamTypeOK, Plans, PlanIsSupported, Evidence
<1>2. CASE EndAnalysis("hard_veto", NoPlan) BY <1>1, <1>2, VetoKeeps DEF Outcomes
<1>3. CASE EndAnalysis("escaped", NoPlan) BY <1>1, <1>3, VetoKeeps DEF Outcomes
<1>4. CASE EndAnalysis("escaped", plan) BY <1>1, <1>4, EndKeeps DEF Outcomes
<1> QED BY <1>2, <1>3, <1>4 DEF Raise, FailClosed

\* The next agent is asked.
LEMMA HeardKeeps ==
    ASSUME TeamConstantsOK, TeamIInv, UNCHANGED Context, usage' \in UsageRecords,
           usage'.billed = usage'.tokens, ~usage'.escaped,
           NEW next \in {"challenge", "decision"}, NEW answers \in HeardRecords,
           Heard(next, answers),
           next = "challenge" => usage'.records = 1 /\ usage'.tokens <= MaxRetries + 1,
           next = "decision" => usage'.records = 2 /\ usage'.tokens <= 2 * (MaxRetries + 1)
    PROVE  TeamIInv'
<1> USE EmptyRecords
<1>1. /\ UNCHANGED <<team, configured, stage, supplied, known, analyses, plan, outcome>>
      /\ step' = next /\ heard' = answers /\ call' = NoCall
  BY DEF Context, Heard
<1>2. TeamTypeOK'
  BY <1>1 DEF TeamIInv, TeamTypeOK, UsageRecords, Calls, HeardRecords
<1>3. Costs' BY <1>1 DEF Costs
<1>4. Evidence' BY <1>1 DEF Evidence, TeamIInv, Replaces
<1>5. UsageRecorded'
  <2>1. usage'.tokens \in Nat BY DEF UsageRecords, TokenCounts, TeamConstantsOK
  <2> QED BY <1>1, <2>1 DEF UsageRecorded
<1>6. PlanIsSupported' BY <1>1 DEF PlanIsSupported, TeamIInv
<1> QED BY <1>2, <1>3, <1>4, <1>5, <1>6 DEF TeamIInv

-----------------------------------------------------------------------------
(* The steps of a team *)

LEMMA StartKeeps ==
    ASSUME TeamConstantsOK, TeamIInv, NEW s \in Fresh \cup Refreshes \cup {"none"},
           NEW evidence \in SUBSET Sources, Start(s, evidence)
    PROVE  TeamIInv'
<1> USE EmptyRecords
<1>1. /\ stage' = s /\ supplied' = evidence /\ UNCHANGED <<team, configured>>
      /\ known' = IF s \in Refreshes THEN known \cup evidence ELSE
                  IF team = "allocator" THEN known ELSE evidence
      /\ plan' = IF team = "allocator" THEN plan ELSE NoPlan
      /\ step' = "input" /\ heard' = Nothing /\ call' = NoCall /\ usage' = NoUsage
      /\ outcome' = "none" /\ analyses' = analyses + 1 /\ analyses < MaxAnalyses
      /\ IF team = "allocator"
         THEN s \in Fresh \cup IF plan = NoPlan THEN {} ELSE Refreshes ELSE s = "none"
  BY DEF Start
<1>2. known' \subseteq Sources BY <1>1 DEF TeamIInv, TeamTypeOK
<1>3. TeamTypeOK'
  <2>1. analyses' \in 0..MaxAnalyses BY <1>1 DEF TeamIInv, TeamTypeOK, TeamConstantsOK
  <2>2. plan' \in Plan \cup {NoPlan} BY <1>1 DEF TeamIInv, TeamTypeOK
  <2>3. /\ team' \in Teams /\ configured' \in BOOLEAN
        /\ stage' \in Fresh \cup Refreshes \cup {"none"}
    BY <1>1 DEF TeamIInv, TeamTypeOK
  <2> QED BY <1>1, <1>2, <2>1, <2>2, <2>3 DEF TeamTypeOK, UsageRecords, Calls, HeardRecords
<1>4. Costs'
  <2>1. step' = "input" /\ usage'.records = 0 /\ usage'.tokens = 0 /\ ~usage'.escaped
    BY <1>1
  <2>2. call' = NoCall /\ call'.tokens <= call'.attempt BY <1>1
  <2> QED BY <2>1, <2>2 DEF Costs
<1>5. Evidence'
  <2>1. CASE team = "allocator" BY <2>1, <1>1 DEF Evidence, Replaces
  <2>2. CASE team # "allocator" BY <2>2, <1>1 DEF Evidence, Replaces
  <2> QED BY <2>1, <2>2
<1>6. UsageRecorded' BY <1>1 DEF UsageRecorded
<1>7. PlanIsSupported' BY <1>1 DEF PlanIsSupported, TeamIInv
<1> QED BY <1>3, <1>4, <1>5, <1>6, <1>7 DEF TeamIInv

\* Before the first call there is nothing to pay.
LEMMA InputBooks ==
    ASSUME TeamConstantsOK, TeamIInv, step = "input", UNCHANGED usage
    PROVE  usage' \in UsageRecords /\ usage'.billed = usage'.tokens /\ ~usage'.escaped
<1>1. call = NoCall BY DEF TeamIInv, Costs
<1> QED BY <1>1, TeamNumbers, EmptyRecords

LEMMA ValidateKeeps == ASSUME TeamConstantsOK, TeamIInv, ValidateInput PROVE TeamIInv'
<1>1. step = "input" /\ UNCHANGED Context /\ UNCHANGED usage BY DEF ValidateInput
<1>2. CASE step' = "news" /\ UNCHANGED <<heard, call, outcome, plan>>
  <2>1. UNCHANGED <<team, configured, stage, supplied, known, analyses>>
    BY <1>1 DEF Context
  <2>2. TeamTypeOK' BY <1>1, <1>2, <2>1 DEF TeamIInv, TeamTypeOK
  <2>3. Costs' BY <1>1, <1>2 DEF TeamIInv, Costs
  <2>4. Evidence' BY <2>1 DEF TeamIInv, Evidence, Replaces
  <2>5. UsageRecorded' BY <1>1, <1>2 DEF TeamIInv, UsageRecorded
  <2>6. PlanIsSupported' BY <1>2, <2>1 DEF TeamIInv, PlanIsSupported
  <2> QED BY <2>2, <2>3, <2>4, <2>5, <2>6 DEF TeamIInv
<1>3. CASE \E exception \in {"caught", "other"} : Raise(exception)
  BY <1>1, <1>3, InputBooks, RaiseKeeps
<1> QED BY <1>2, <1>3 DEF ValidateInput

\* What Context leaves alone.
LEMMA ContextKept ==
    ASSUME TeamIInv, UNCHANGED Context
    PROVE  /\ UNCHANGED <<team, configured, stage, supplied, known, analyses>>
           /\ known' \in SUBSET Sources
           /\ Replaces \/ supplied \subseteq known'
BY DEF Context, TeamIInv, TeamTypeOK, Evidence

LEMMA NotACandidateKeeps ==
    ASSUME TeamConstantsOK, TeamIInv, NotACandidate PROVE TeamIInv'
<1>1. /\ step = "input" /\ UNCHANGED Context /\ UNCHANGED usage
      /\ EndAnalysis("no_trade", NoPlan)
  BY DEF NotACandidate
<1> QED BY <1>1, ContextKept, InputBooks, VetoKeeps DEF Outcomes

\* Failed attempts move what they cost from the provider's bill to the call.
LEMMA RetryKeeps ==
    ASSUME TeamConstantsOK, TeamIInv, NEW tokens \in {0, 1}, RetryCall(tokens)
    PROVE  TeamIInv'
<1> USE TeamNumbers
<1>1. /\ UNCHANGED Context /\ UNCHANGED <<step, heard, plan, outcome>>
      /\ step \in {"news", "challenge", "decision"} /\ call.attempt < MaxRetries
      /\ call' = [attempt |-> call.attempt + 1, tokens |-> call.tokens + tokens]
      /\ usage' = [usage EXCEPT !.billed = usage.billed + tokens]
  BY DEF RetryCall, Asking
<1>2. UNCHANGED <<team, configured, stage, supplied, known, analyses>> BY <1>1, ContextKept
<1>3. /\ call.tokens + tokens \in 0..MaxRetries /\ call.attempt + 1 \in 0..MaxRetries
      /\ call.tokens + tokens <= call.attempt + 1
  BY <1>1
<1>4. usage.billed + tokens \in TokenCounts
  <2>1. usage.tokens <= 2 * (MaxRetries + 1) BY <1>1 DEF TeamIInv, Costs
  <2>2. usage.billed + tokens <= 3 * (MaxRetries + 1) BY <1>1, <1>3, <2>1
  <2> QED BY <2>2 DEF TokenCounts
<1>5. /\ usage' \in UsageRecords /\ usage'.records = usage.records
      /\ usage'.tokens = usage.tokens /\ usage'.billed = usage.billed + tokens
      /\ usage'.escaped = usage.escaped
  BY <1>1, <1>4 DEF UsageRecords
<1>6. call' \in Calls /\ call'.attempt = call.attempt + 1
      /\ call'.tokens = call.tokens + tokens
  BY <1>1, <1>3 DEF Calls
<1>7. TeamTypeOK' BY <1>1, <1>2, <1>5, <1>6 DEF TeamIInv, TeamTypeOK, UsageRecords, Calls
<1>8. Costs' BY <1>1, <1>3, <1>5, <1>6 DEF TeamIInv, Costs
<1>9. Evidence' BY <1>2 DEF TeamIInv, Evidence, Replaces
<1>10. UsageRecorded' BY <1>1, <1>5, <1>6 DEF UsageRecorded
<1>11. PlanIsSupported' BY <1>1, <1>2 DEF TeamIInv, PlanIsSupported
<1> QED BY <1>7, <1>8, <1>9, <1>10, <1>11 DEF TeamIInv

LEMMA FailedCallKeeps ==
    ASSUME TeamConstantsOK, TeamIInv,
           Unconfigured \/ \E tokens \in {0, 1} : GiveUp(tokens)
    PROVE  TeamIInv'
<1>1. PICK tokens \in {0, 1} : /\ Asking /\ Record(tokens) /\ Raise("caught")
                               /\ UNCHANGED Context
  BY DEF Unconfigured, GiveUp
<1> QED BY <1>1, RecordBooks, RaiseKeeps

LEMMA EscapeKeeps == ASSUME TeamConstantsOK, TeamIInv, Escape PROVE TeamIInv'
<1> USE TeamNumbers
<1>1. /\ UNCHANGED Context /\ Raise("other")
      /\ step \in {"news", "challenge", "decision"}
      /\ usage' = [usage EXCEPT !.billed = usage.billed + 1, !.escaped = TRUE]
  BY DEF Escape, Asking
<1>2. usage.billed + 1 \in TokenCounts
  <2>1. usage.tokens <= 2 * (MaxRetries + 1) BY <1>1 DEF TeamIInv, Costs
  <2>2. usage.billed + 1 <= 3 * (MaxRetries + 1) BY <1>1, <2>1
  <2> QED BY <2>2 DEF TokenCounts
<1>3. usage' \in UsageRecords /\ usage'.escaped BY <1>1, <1>2 DEF UsageRecords
<1> QED BY <1>1, <1>3, RaiseKeeps

LEMMA NewsKeeps ==
    ASSUME TeamConstantsOK, TeamIInv, NEW n \in News, HearNews(n) PROVE TeamIInv'
<1>1. step = "news" /\ Asking /\ Record(1) /\ UNCHANGED Context
  BY DEF HearNews, Answered, Asking
<1>2. /\ usage' \in UsageRecords /\ usage'.billed = usage'.tokens /\ ~usage'.escaped
      /\ usage'.records = usage.records + 1
      /\ usage'.tokens <= usage.tokens + MaxRetries + 1
  BY <1>1, RecordBooks
<1>3. CASE EndAnalysis("no_trade", NoPlan)
  BY <1>1, <1>2, <1>3, ContextKept, VetoKeeps DEF Outcomes
<1>4. CASE Heard("challenge", [heard EXCEPT !.news = n])
  <2>1. [heard EXCEPT !.news = n] \in HeardRecords
    BY DEF TeamIInv, TeamTypeOK, HeardRecords
  <2>2. usage.records = 0 /\ usage.tokens = 0 BY <1>1 DEF TeamIInv, Costs
  <2>3. usage'.records = 1 /\ usage'.tokens <= MaxRetries + 1
    BY <1>2, <2>2, TeamNumbers
  <2> QED BY <1>1, <1>2, <1>4, <2>1, <2>3, HeardKeeps
<1> QED BY <1>3, <1>4 DEF HearNews

LEMMA ChallengeKeeps ==
    ASSUME TeamConstantsOK, TeamIInv, NEW c \in Challenges, HearChallenge(c)
    PROVE  TeamIInv'
<1>1. step = "challenge" /\ Asking /\ Record(1) /\ UNCHANGED Context
  BY DEF HearChallenge, Answered, Asking
<1>2. /\ usage' \in UsageRecords /\ usage'.billed = usage'.tokens /\ ~usage'.escaped
      /\ usage'.records = usage.records + 1
      /\ usage'.tokens <= usage.tokens + MaxRetries + 1
  BY <1>1, RecordBooks
<1>3. CASE EndAnalysis("hard_veto", NoPlan)
  BY <1>1, <1>2, <1>3, ContextKept, VetoKeeps DEF Outcomes
<1>4. CASE EndAnalysis("enter", plan)
  <2>1. plan \in Plans /\ plan.cites \subseteq known'
    BY <1>1, ContextKept DEF TeamIInv, TeamTypeOK, Plans, PlanIsSupported
  <2> QED BY <1>1, <1>2, <1>4, <2>1, ContextKept, EndKeeps DEF Outcomes
<1>5. CASE Heard("decision", [heard EXCEPT !.challenge = c])
  <2>1. [heard EXCEPT !.challenge = c] \in HeardRecords
    BY DEF TeamIInv, TeamTypeOK, HeardRecords
  <2>2. usage.records = 1 /\ usage.tokens <= MaxRetries + 1
    BY <1>1 DEF TeamIInv, Costs
  <2>3. usage'.tokens \in Nat BY <1>2 DEF UsageRecords, TokenCounts, TeamConstantsOK
  <2>4. usage'.records = 2 /\ usage'.tokens <= 2 * (MaxRetries + 1)
    BY <1>2, <2>2, <2>3, TeamNumbers
  <2> QED BY <1>1, <1>2, <1>5, <2>1, <2>4, HeardKeeps
<1> QED BY <1>3, <1>4, <1>5 DEF HearChallenge, FailClosed, Revalidate

\* What a team decides: nothing, or an entry that cites what it may.
LEMMA Decided ==
    ASSUME TeamIInv, NEW d \in Decisions, HearDecision(d)
    PROVE  \/ \E result \in {"watch", "no_trade", "hard_veto"} : EndAnalysis(result, NoPlan)
           \/ \E kept \in Plan : EndAnalysis("enter", kept) /\ kept.cites \subseteq known'
<1>1. /\ known' = IF Replaces THEN supplied ELSE known
      /\ Replaces \/ supplied \subseteq known
      /\ supplied \subseteq Sources /\ heard \in HeardRecords
      /\ plan.cites \subseteq known
  BY DEF HearDecision, Replaces, TeamIInv, TeamTypeOK, Evidence, HeardRecords,
         PlanIsSupported
<1>2. supplied \subseteq known' BY <1>1
<1>3. d.horizon \in Horizons /\ d.cites \subseteq Sources BY DEF Decisions
<1>4. CASE team = "api" /\ ApiDecision(d)
  <2>1. CASE EndAnalysis("enter", [cites |-> {}, horizon |-> d.horizon])
    <3>1. [cites |-> {}, horizon |-> d.horizon] \in Plan BY <1>3 DEF Plan
    <3> QED BY <2>1, <3>1
  <2> QED BY <1>4, <2>1 DEF ApiDecision
<1>5. CASE CatalystDecision(d)
  <2>1. CASE /\ heard.news.cites \subseteq supplied
             /\ EndAnalysis("enter", [cites |-> heard.news.cites, horizon |-> d.horizon])
    <3>1. [cites |-> heard.news.cites, horizon |-> d.horizon] \in Plan
      BY <1>1, <1>3, <2>1 DEF Plan
    <3> QED BY <1>2, <2>1, <3>1
  <2> QED BY <1>5, <2>1 DEF CatalystDecision
<1>6. CASE team = "allocator" /\ AllocatorDecision(d)
  <2>1. CASE /\ Supported(d)
             /\ EndAnalysis("enter", [cites |-> d.cites, horizon |-> d.horizon])
    <3>1. [cites |-> d.cites, horizon |-> d.horizon] \in Plan BY <1>3 DEF Plan
    <3>2. d.cites \subseteq known'
      <4>1. CASE Incremental
        <5>1. ~Replaces BY <4>1 DEF Incremental, Replaces, Fresh, Refreshes
        <5> QED BY <1>1, <2>1, <4>1, <5>1 DEF Supported
      <4>2. CASE ~Incremental BY <1>2, <2>1, <4>2 DEF Supported
      <4> QED BY <4>1, <4>2
    <3> QED BY <2>1, <3>1, <3>2
  <2>2. CASE \E result \in {"watch", "no_trade", "hard_veto"} : EndAnalysis(result, NoPlan)
    BY <2>2
  <2> QED BY <1>6, <2>1, <2>2 DEF AllocatorDecision, FailClosed, Declines
<1> QED BY <1>4, <1>5, <1>6 DEF HearDecision, GatedDecision

LEMMA DecisionKeeps ==
    ASSUME TeamConstantsOK, TeamIInv, NEW d \in Decisions, HearDecision(d)
    PROVE  TeamIInv'
<1>1. /\ step = "decision" /\ Asking /\ Record(1)
      /\ UNCHANGED <<team, configured, stage, supplied, analyses>>
      /\ known' = IF Replaces THEN supplied ELSE known
  BY DEF HearDecision, Asking, Replaces
<1>2. usage' \in UsageRecords /\ usage'.billed = usage'.tokens BY <1>1, RecordBooks
<1>3. known' \in SUBSET Sources /\ (Replaces \/ supplied \subseteq known')
  BY <1>1 DEF TeamIInv, TeamTypeOK, Evidence
<1>4. CASE \E result \in {"watch", "no_trade", "hard_veto"} : EndAnalysis(result, NoPlan)
  BY <1>1, <1>2, <1>3, <1>4, VetoKeeps DEF Outcomes
<1>5. CASE \E kept \in Plan : EndAnalysis("enter", kept) /\ kept.cites \subseteq known'
  BY <1>1, <1>2, <1>3, <1>5, EndKeeps DEF Outcomes, Plans
<1> QED BY <1>4, <1>5, Decided

LEMMA StepTeamIInv ==
    ASSUME TeamConstantsOK PROVE TeamIInv /\ [TeamNext]_teamVars => TeamIInv'
<1> SUFFICES ASSUME TeamIInv, [TeamNext]_teamVars PROVE TeamIInv' OBVIOUS
<1>1. CASE \E s \in Fresh \cup Refreshes \cup {"none"}, evidence \in SUBSET Sources :
             Start(s, evidence)
  BY <1>1, StartKeeps
<1>2. CASE ValidateInput \/ NotACandidate BY <1>2, ValidateKeeps, NotACandidateKeeps
<1>3. CASE Unconfigured BY <1>3, FailedCallKeeps
<1>4. CASE Escape BY <1>4, EscapeKeeps
<1>5. CASE \E tokens \in {0, 1} : RetryCall(tokens) \/ GiveUp(tokens)
  BY <1>5, RetryKeeps, FailedCallKeeps
<1>6. CASE \E n \in News : HearNews(n) BY <1>6, NewsKeeps
<1>7. CASE \E c \in Challenges : HearChallenge(c) BY <1>7, ChallengeKeeps
<1>8. CASE \E d \in Decisions : HearDecision(d) BY <1>8, DecisionKeeps
<1>9. CASE UNCHANGED teamVars
  BY <1>9 DEF teamVars, TeamIInv, TeamTypeOK, Costs, Evidence, Replaces, UsageRecorded,
              PlanIsSupported
<1> QED BY <1>1, <1>2, <1>3, <1>4, <1>5, <1>6, <1>7, <1>8, <1>9 DEF TeamNext

\* The calls of an analysis keep their types: three records at most, and a bill of at
\* most three calls with all their attempts (InvestmentTeams).
THEOREM TeamTypeCorrect == ASSUME TeamConstantsOK PROVE TeamSpec => []TeamTypeOK
<1>1. TeamInit => TeamIInv BY InitTeamIInv
<1>2. TeamIInv /\ [TeamNext]_teamVars => TeamIInv' BY StepTeamIInv
<1>3. TeamIInv => TeamTypeOK BY DEF TeamIInv
<1> QED BY <1>1, <1>2, <1>3, PTL DEF TeamSpec

\* ApiProvider.generate puts every token that is billed on record, once, for any number
\* of retries, but for a response that does not match its schema: UsageRecorded.
THEOREM UsageRecordedHolds == ASSUME TeamConstantsOK PROVE TeamSpec => []UsageRecorded
<1>1. TeamInit => TeamIInv BY InitTeamIInv
<1>2. TeamIInv /\ [TeamNext]_teamVars => TeamIInv' BY StepTeamIInv
<1>3. TeamIInv => UsageRecorded BY DEF TeamIInv
<1> QED BY <1>1, <1>2, <1>3, PTL DEF TeamSpec

\* The guards of the four teams let no plan cite evidence that none of its stages was
\* given, and none survives an analysis that did not end in an entry: PlanIsSupported.
THEOREM PlanIsSupportedHolds == ASSUME TeamConstantsOK PROVE TeamSpec => []PlanIsSupported
<1>1. TeamInit => TeamIInv BY InitTeamIInv
<1>2. TeamIInv /\ [TeamNext]_teamVars => TeamIInv' BY StepTeamIInv
<1>3. TeamIInv => PlanIsSupported BY DEF TeamIInv
<1> QED BY <1>1, <1>2, <1>3, PTL DEF TeamSpec

-----------------------------------------------------------------------------
(* What the technical score learns *)

\* The minute of the cycle at work, or of the next.
CycleAt == IF cycle.step = "idle" THEN minute ELSE cycle.at

\* What resolve still has to label or to keep is pending.
Unsettled == cycle.todo \cup cycle.remaining
ResolvesPending ==
    cycle.step = "resolve" =>
        Unsettled \subseteq pending /\ cycle.todo \cap cycle.remaining = {}

\* What will be resolved again was learned from at most once for each kill.
Again(o) == o \in pending /\ (cycle.step = "resolve" => o \in Unsettled)
LearnedForKills == \A o \in made : Again(o) => learned[o] <= kills

\* Nothing is learned from before it is due.
LearnedWhenDue ==
    cycle.at <= minute /\ \A o \in made : learned[o] > 0 => Target(o) <= CycleAt

LabelIInv ==
    LabelTypeOK /\ LearnedOnce /\ ResolvesPending /\ LearnedForKills /\ LearnedWhenDue

CycleRecord ==
    [step : {"idle", "resolve", "score"}, at : 0..LastTime,
     todo : SUBSET Observations, remaining : SUBSET Observations]

LEMMA IdleIsCycle == ASSUME LabelConstantsOK PROVE IdleCycle \in CycleRecord
BY DEF LabelConstantsOK, IdleCycle, CycleRecord

LEMMA InitLabelIInv == ASSUME LabelConstantsOK, LabelInit PROVE LabelIInv
<1>1. /\ minute = 0 /\ pending = {} /\ made = {} /\ learned = [o \in {} |-> 0]
      /\ cycle = IdleCycle /\ kills = 0
  BY DEF LabelInit
<1>2. 0 \in 0..LastTime /\ 0 \in 0..MaxKills BY DEF LabelConstantsOK
<1>3. cycle \in CycleRecord BY <1>1, IdleIsCycle
<1>4. LabelTypeOK BY <1>1, <1>2, <1>3 DEF LabelTypeOK, CycleRecord
<1>5. cycle.step = "idle" /\ cycle.at = 0 BY <1>1 DEF IdleCycle
<1>6. ResolvesPending BY <1>5 DEF ResolvesPending
<1>7. LearnedOnce /\ LearnedForKills BY <1>1 DEF LearnedOnce, LearnedForKills
<1>8. LearnedWhenDue BY <1>1, <1>5 DEF LearnedWhenDue
<1> QED BY <1>4, <1>6, <1>7, <1>8 DEF LabelIInv

\* The numbers of the state, one by one.
LEMMA LabelNumbers ==
    ASSUME LabelConstantsOK, LabelIInv
    PROVE  /\ minute \in Nat /\ cycle.at \in Nat /\ kills \in Nat /\ Horizon \in Nat
           /\ cycle \in CycleRecord
           /\ \A o \in made : learned[o] \in Nat /\ o.at \in Nat /\ Target(o) \in Nat
<1>1. cycle \in CycleRecord BY DEF LabelIInv, LabelTypeOK, CycleRecord
<1>2. minute \in Nat /\ cycle.at \in Nat /\ kills \in Nat /\ Horizon \in Nat
  BY <1>1 DEF LabelIInv, LabelTypeOK, CycleRecord, LabelConstantsOK
<1>3. ASSUME NEW o \in made PROVE learned[o] \in Nat /\ o.at \in Nat /\ Target(o) \in Nat
  <2>1. learned[o] \in Nat BY DEF LabelIInv, LabelTypeOK, LabelConstantsOK
  <2>2. o.at \in Nat BY DEF LabelIInv, LabelTypeOK, LabelConstantsOK, Observations
  <2> QED BY <2>1, <2>2, <1>2 DEF Target
<1> QED BY <1>1, <1>2, <1>3

\* A step of the cycle that learns nothing: pending observations that will be resolved
\* again were to be resolved again before.
LEMMA NothingLearned ==
    ASSUME LabelConstantsOK, LabelIInv, UNCHANGED <<made, learned>>,
           minute' \in 0..LastTime, kills' \in 0..MaxKills, cycle' \in CycleRecord,
           pending' \subseteq pending, ResolvesPending',
           kills <= kills', cycle.at \in Nat, cycle'.at <= minute', CycleAt <= CycleAt',
           kills < kills' \/ \A o \in made : Again(o)' => Again(o)
    PROVE  LabelIInv'
<1> USE LabelNumbers
<1>1. LabelTypeOK' BY DEF LabelIInv, LabelTypeOK, CycleRecord
<1>2. kills' \in Nat /\ minute' \in Nat /\ CycleAt \in Nat /\ cycle'.at \in Nat
  BY DEF LabelConstantsOK, CycleAt, CycleRecord
<1>2a. CycleAt' \in Nat BY <1>2 DEF CycleAt
<1>3. LearnedOnce' BY <1>2 DEF LabelIInv, LearnedOnce
<1>4. LearnedForKills'
  <2> SUFFICES ASSUME NEW o \in made, Again(o)' PROVE learned[o] <= kills'
    BY DEF LearnedForKills
  <2>1. CASE kills < kills' BY <2>1, <1>2 DEF LabelIInv, LearnedOnce
  <2>2. CASE Again(o) BY <2>2, <1>2 DEF LabelIInv, LearnedForKills
  <2> QED BY <2>1, <2>2
<1>5. LearnedWhenDue'
  <2>1. ASSUME NEW o \in made, learned[o] > 0 PROVE Target(o) <= CycleAt'
    BY <2>1, <1>2, <1>2a DEF LabelIInv, LearnedWhenDue
  <2> QED BY <2>1 DEF LearnedWhenDue, Target
<1> QED BY <1>1, <1>3, <1>4, <1>5 DEF LabelIInv

LEMMA BeginKeeps == ASSUME LabelConstantsOK, LabelIInv, BeginCycle PROVE LabelIInv'
<1> USE LabelNumbers
<1>1. /\ cycle' = [step |-> "resolve", at |-> minute, todo |-> pending, remaining |-> {}]
      /\ UNCHANGED <<minute, pending, made, learned, kills>> /\ cycle.step = "idle"
  BY DEF BeginCycle
<1>2. minute \in 0..LastTime /\ kills \in 0..MaxKills /\ pending \subseteq Observations
  BY DEF LabelIInv, LabelTypeOK
<1>3. cycle' \in CycleRecord BY <1>1, <1>2 DEF CycleRecord
<1>4. /\ cycle'.step = "resolve" /\ cycle'.todo = pending /\ cycle'.remaining = {}
      /\ cycle'.at = minute
  BY <1>1
<1>5. ResolvesPending' BY <1>1, <1>4 DEF ResolvesPending, Unsettled
<1>6. CycleAt = minute /\ CycleAt' = minute BY <1>1, <1>4 DEF CycleAt
<1>7. \A o \in made : Again(o)' => Again(o) BY <1>1 DEF Again
<1> QED BY <1>1, <1>2, <1>3, <1>4, <1>5, <1>6, <1>7, NothingLearned

LEMMA SettledIsCycle ==
    ASSUME LabelConstantsOK, LabelIInv, NEW o, Settled(o)
    PROVE  /\ cycle' \in CycleRecord /\ cycle'.step = cycle.step /\ cycle'.at = cycle.at
           /\ cycle'.todo = cycle.todo \ {o} /\ cycle'.remaining = cycle.remaining
<1>1. cycle \in CycleRecord BY LabelNumbers
<1>2. cycle' = [cycle EXCEPT !.todo = cycle.todo \ {o}] BY DEF Settled
<1> QED BY <1>1, <1>2 DEF CycleRecord

LEMMA OutcomeExpiryKeeps ==
    ASSUME LabelConstantsOK, LabelIInv, NEW o, ExpireOutcome(o) PROVE LabelIInv'
<1> USE LabelNumbers
<1>1. /\ UNCHANGED <<minute, pending, made, learned, kills>> /\ cycle.step = "resolve"
      /\ Settled(o)
  BY DEF ExpireOutcome, Resolving
<1>2. minute \in 0..LastTime /\ kills \in 0..MaxKills /\ cycle.at <= minute
  BY DEF LabelIInv, LabelTypeOK, LearnedWhenDue
<1>3. /\ cycle' \in CycleRecord /\ cycle'.step = "resolve" /\ cycle'.at = cycle.at
      /\ cycle'.todo = cycle.todo \ {o} /\ cycle'.remaining = cycle.remaining
  BY <1>1, SettledIsCycle
<1>4. ResolvesPending' BY <1>1, <1>3 DEF ResolvesPending, Unsettled, LabelIInv
<1>5. CycleAt = cycle.at /\ CycleAt' = cycle.at BY <1>1, <1>3 DEF CycleAt
<1>6. \A x \in made : Again(x)' => Again(x) BY <1>1, <1>3 DEF Again, Unsettled
<1> QED BY <1>1, <1>2, <1>3, <1>4, <1>5, <1>6, NothingLearned

LEMMA WaitKeeps == ASSUME LabelConstantsOK, LabelIInv, NEW o, Wait(o) PROVE LabelIInv'
<1> USE LabelNumbers
<1>1. /\ UNCHANGED <<minute, pending, made, learned, kills>> /\ cycle.step = "resolve"
      /\ o \in cycle.todo
  BY DEF Wait, Resolving
<1>2. minute \in 0..LastTime /\ kills \in 0..MaxKills /\ cycle.at <= minute
  BY DEF LabelIInv, LabelTypeOK, LearnedWhenDue
<1>3. PICK kept \in {cycle.remaining, cycle.remaining \cup {o}} :
        cycle' = [cycle EXCEPT !.todo = cycle.todo \ {o}, !.remaining = kept]
  BY DEF Wait
<1>4. /\ cycle' \in CycleRecord /\ cycle'.step = "resolve" /\ cycle'.at = cycle.at
      /\ cycle'.todo = cycle.todo \ {o} /\ cycle'.remaining = kept
  BY <1>1, <1>3 DEF CycleRecord
<1>5. ResolvesPending' BY <1>1, <1>4 DEF ResolvesPending, Unsettled, LabelIInv
<1>6. CycleAt = cycle.at /\ CycleAt' = cycle.at BY <1>1, <1>4 DEF CycleAt
<1>7. \A x \in made : Again(x)' => Again(x) BY <1>1, <1>4 DEF Again, Unsettled
<1> QED BY <1>1, <1>2, <1>4, <1>5, <1>6, <1>7, NothingLearned

LEMMA WriteKeeps == ASSUME LabelConstantsOK, LabelIInv, WriteRemaining PROVE LabelIInv'
<1> USE LabelNumbers
<1>1. /\ UNCHANGED <<minute, made, learned, kills>> /\ cycle.step = "resolve"
      /\ cycle.todo = {} /\ pending' = cycle.remaining
      /\ cycle' = [cycle EXCEPT !.step = "score"]
  BY DEF WriteRemaining
<1>2. minute \in 0..LastTime /\ kills \in 0..MaxKills /\ cycle.at <= minute
  BY DEF LabelIInv, LabelTypeOK, LearnedWhenDue
<1>3. cycle' \in CycleRecord /\ cycle'.step = "score" /\ cycle'.at = cycle.at
  BY <1>1 DEF CycleRecord
<1>4. pending' \subseteq pending BY <1>1 DEF LabelIInv, ResolvesPending, Unsettled
<1>5. ResolvesPending' BY <1>3 DEF ResolvesPending
<1>6. CycleAt = cycle.at /\ CycleAt' = cycle.at BY <1>1, <1>3 DEF CycleAt
<1>7. \A x \in made : Again(x)' => Again(x) BY <1>1, <1>4 DEF Again, Unsettled
<1> QED BY <1>1, <1>2, <1>3, <1>4, <1>5, <1>6, <1>7, NothingLearned

\* The cycle is over, by itself or by a kill.
LEMMA OverKeeps ==
    ASSUME LabelConstantsOK, LabelIInv, CycleEnds \/ Kill PROVE LabelIInv'
<1> USE LabelNumbers
<1>1. UNCHANGED <<minute, pending, made, learned>> /\ cycle' = IdleCycle
  BY DEF CycleEnds, Kill
<1>2. minute \in 0..LastTime /\ cycle.at <= minute /\ cycle.step # "idle"
  BY DEF LabelIInv, LabelTypeOK, LearnedWhenDue, CycleEnds, Kill
<1>3. kills' \in 0..MaxKills /\ kills <= kills'
  BY DEF LabelIInv, LabelTypeOK, CycleEnds, Kill, LabelConstantsOK
<1>4. cycle' \in CycleRecord /\ cycle'.step = "idle" /\ cycle'.at = 0
  BY <1>1, IdleIsCycle DEF IdleCycle
<1>5. ResolvesPending' BY <1>4 DEF ResolvesPending
<1>6. CycleAt = cycle.at /\ CycleAt' = minute BY <1>1, <1>2, <1>4 DEF CycleAt
<1>7. kills < kills' \/ \A x \in made : Again(x)' => Again(x)
  <2>1. CASE CycleEnds BY <2>1, <1>1 DEF Again, CycleEnds
  <2>2. CASE Kill BY <2>2 DEF Kill
  <2> QED BY <2>1, <2>2
<1> QED BY <1>1, <1>2, <1>3, <1>4, <1>5, <1>6, <1>7, NothingLearned

LEMMA MinuteKeeps == ASSUME LabelConstantsOK, LabelIInv, MinutePasses PROVE LabelIInv'
<1> USE LabelNumbers
<1>1. UNCHANGED <<pending, made, learned, cycle, kills>> /\ minute' = minute + 1
      /\ minute < LastTime
  BY DEF MinutePasses
<1>2. minute' \in 0..LastTime /\ kills \in 0..MaxKills /\ cycle.at <= minute
  BY <1>1 DEF LabelIInv, LabelTypeOK, LearnedWhenDue, LabelConstantsOK
<1>3. ResolvesPending' BY <1>1 DEF ResolvesPending, Unsettled, LabelIInv
<1>4. CycleAt <= CycleAt' BY <1>1 DEF CycleAt
<1>5. \A x \in made : Again(x)' => Again(x) BY <1>1 DEF Again, Unsettled
<1> QED BY <1>1, <1>2, <1>3, <1>4, <1>5, NothingLearned

\* One more sample: the observation was to be labelled, and is settled.
LEMMA LearnKeeps == ASSUME LabelConstantsOK, LabelIInv, NEW o, Learn(o) PROVE LabelIInv'
<1> USE LabelNumbers
<1>1. /\ UNCHANGED <<minute, pending, made, kills>> /\ cycle.step = "resolve"
      /\ o \in cycle.todo /\ Settled(o) /\ cycle.at >= Target(o)
      /\ learned' = [learned EXCEPT ![o] = learned[o] + 1]
  BY DEF Learn, Resolving
<1>2. o \in made /\ Again(o)
  BY <1>1 DEF LabelIInv, LabelTypeOK, ResolvesPending, Again, Unsettled
<1>3. /\ cycle' \in CycleRecord /\ cycle'.step = "resolve" /\ cycle'.at = cycle.at
      /\ cycle'.todo = cycle.todo \ {o} /\ cycle'.remaining = cycle.remaining
  BY <1>1, SettledIsCycle
<1>4. learned[o] <= kills BY <1>2 DEF LabelIInv, LearnedForKills
<1>5. learned \in [made -> 0..MaxKills + 1] /\ kills \in 0..MaxKills
  BY DEF LabelIInv, LabelTypeOK
<1>6. learned[o] + 1 \in 0..MaxKills + 1 /\ learned[o] \in Nat
  BY <1>2, <1>4, <1>5 DEF LabelConstantsOK
<1>7. LabelTypeOK'
  <2>1. learned' \in [made -> 0..MaxKills + 1] BY <1>1, <1>5, <1>6
  <2> QED BY <1>1, <1>3, <2>1 DEF LabelIInv, LabelTypeOK, CycleRecord
<1>8. ASSUME NEW x \in made PROVE learned'[x] = IF x = o THEN learned[x] + 1 ELSE learned[x]
  BY <1>1, <1>5
<1>9. LearnedOnce' BY <1>1, <1>4, <1>8 DEF LearnedOnce, LabelIInv
<1>10. ResolvesPending' BY <1>1, <1>3 DEF ResolvesPending, Unsettled, LabelIInv
<1>11. LearnedForKills'
  <2> SUFFICES ASSUME NEW x \in made, Again(x)' PROVE learned'[x] <= kills
    BY <1>1 DEF LearnedForKills
  <2>1. Again(x) /\ x # o
    BY <1>1, <1>3 DEF Again, Unsettled, ResolvesPending, LabelIInv
  <2> QED BY <1>8, <2>1 DEF LabelIInv, LearnedForKills
<1>12. LearnedWhenDue'
  <2>1. CycleAt = cycle.at /\ CycleAt' = cycle.at BY <1>1, <1>3 DEF CycleAt
  <2>2. ASSUME NEW x \in made, learned'[x] > 0 PROVE Target(x) <= CycleAt'
    <3>1. CASE x = o BY <3>1, <2>1, <1>1
    <3>2. CASE x # o BY <3>2, <2>1, <2>2, <1>8 DEF LabelIInv, LearnedWhenDue
    <3> QED BY <3>1, <3>2
  <2>3. cycle'.at <= minute' BY <1>1, <1>3 DEF LabelIInv, LearnedWhenDue
  <2> QED BY <1>1, <2>2, <2>3 DEF LearnedWhenDue, Target
<1> QED BY <1>7, <1>9, <1>10, <1>11, <1>12 DEF LabelIInv

\* An observation that is registered again in its minute was not learned from yet.
LEMMA RegisterKeeps ==
    ASSUME LabelConstantsOK, LabelIInv, NEW ticker \in Tickers, Register(ticker)
    PROVE  LabelIInv'
<1> USE LabelNumbers
<1> DEFINE o == [ticker |-> ticker, at |-> cycle.at]
<1>1. /\ cycle.step = "score" /\ UNCHANGED <<minute, cycle, kills>>
      /\ pending' = pending \cup {o} /\ made' = made \cup {o}
      /\ learned' = [p \in made \cup {o} |-> IF p \in made THEN learned[p] ELSE 0]
  BY DEF Register
<1>2. o \in Observations /\ o.at = cycle.at BY DEF CycleRecord, Observations
<1>3. CycleAt = cycle.at /\ CycleAt' = cycle.at BY <1>1 DEF CycleAt
<1>4. o \in made => learned[o] = 0
  <2> SUFFICES ASSUME o \in made PROVE learned[o] = 0 OBVIOUS
  <2>1. Target(o) = cycle.at + Horizon BY <1>2 DEF Target
  <2>2. learned[o] > 0 => Target(o) <= cycle.at BY <1>3 DEF LabelIInv, LearnedWhenDue
  <2>3. Horizon > 0 /\ learned[o] \in Nat BY DEF LabelConstantsOK
  <2> QED BY <2>1, <2>2, <2>3
<1>5. ASSUME NEW x \in made'
      PROVE  learned'[x] = 0 \/ (x \in made /\ x # o /\ learned'[x] = learned[x])
  BY <1>1, <1>4
<1>6. LabelTypeOK'
  <2>1. learned \in [made -> 0..MaxKills + 1] /\ 0 \in 0..MaxKills + 1
    BY DEF LabelIInv, LabelTypeOK, LabelConstantsOK
  <2>2. learned' \in [made' -> 0..MaxKills + 1] BY <1>1, <2>1
  <2>3. pending' \subseteq made' /\ made' \subseteq Observations
    BY <1>1, <1>2 DEF LabelIInv, LabelTypeOK
  <2> QED BY <1>1, <2>2, <2>3 DEF LabelIInv, LabelTypeOK
<1>7. LearnedOnce'
  BY <1>1, <1>5 DEF LabelIInv, LearnedOnce
<1>8. ResolvesPending' BY <1>1 DEF ResolvesPending
<1>9. LearnedForKills'
  <2> SUFFICES ASSUME NEW x \in made', Again(x)' PROVE learned'[x] <= kills
    BY <1>1 DEF LearnedForKills
  <2>1. CASE learned'[x] = 0 BY <2>1
  <2>2. CASE x \in made /\ x # o /\ learned'[x] = learned[x]
    <3>1. Again(x) BY <2>2, <1>1 DEF Again
    <3> QED BY <2>2, <3>1 DEF LabelIInv, LearnedForKills
  <2> QED BY <1>5, <2>1, <2>2
<1>10. LearnedWhenDue'
  <2>1. ASSUME NEW x \in made', learned'[x] > 0 PROVE Target(x) <= CycleAt'
    <3>1. x \in made /\ learned[x] > 0 BY <1>5, <2>1
    <3> QED BY <3>1, <1>3 DEF LabelIInv, LearnedWhenDue
  <2>2. cycle'.at <= minute' BY <1>1 DEF LabelIInv, LearnedWhenDue
  <2> QED BY <2>1, <2>2 DEF LearnedWhenDue, Target
<1> QED BY <1>6, <1>7, <1>8, <1>9, <1>10 DEF LabelIInv

LEMMA StepLabelIInv ==
    ASSUME LabelConstantsOK PROVE LabelIInv /\ [LabelNext]_labelVars => LabelIInv'
<1> SUFFICES ASSUME LabelIInv, [LabelNext]_labelVars PROVE LabelIInv' OBVIOUS
<1>1. CASE BeginCycle BY <1>1, BeginKeeps
<1>2. CASE WriteRemaining BY <1>2, WriteKeeps
<1>3. CASE CycleEnds \/ Kill BY <1>3, OverKeeps
<1>4. CASE MinutePasses BY <1>4, MinuteKeeps
<1>5. CASE \E o \in cycle.todo : ExpireOutcome(o) \/ Wait(o) \/ Learn(o)
  BY <1>5, OutcomeExpiryKeeps, WaitKeeps, LearnKeeps
<1>6. CASE \E ticker \in Tickers : Register(ticker) BY <1>6, RegisterKeeps
<1>7. CASE UNCHANGED labelVars
  BY <1>7 DEF labelVars, LabelIInv, LabelTypeOK, LearnedOnce, ResolvesPending,
              LearnedForKills, LearnedWhenDue, CycleAt, Again, Unsettled, Target
<1> QED BY <1>1, <1>2, <1>3, <1>4, <1>5, <1>6, <1>7 DEF LabelNext

\* The observations, the weights and the cycle at work keep their types, whatever is
\* killed (OutcomeLearning).
THEOREM LabelTypeCorrect == ASSUME LabelConstantsOK PROVE LabelSpec => []LabelTypeOK
<1>1. LabelInit => LabelIInv BY InitLabelIInv
<1>2. LabelIInv /\ [LabelNext]_labelVars => LabelIInv' BY StepLabelIInv
<1>3. LabelIInv => LabelTypeOK BY DEF LabelIInv
<1> QED BY <1>1, <1>2, <1>3, PTL DEF LabelSpec

\* resolve labels an observation once, and once more at most for each cycle that was
\* killed between the weights and the rest of the pending file: LearnedOnce.
THEOREM LearnedOnceHolds == ASSUME LabelConstantsOK PROVE LabelSpec => []LearnedOnce
<1>1. LabelInit => LabelIInv BY InitLabelIInv
<1>2. LabelIInv /\ [LabelNext]_labelVars => LabelIInv' BY StepLabelIInv
<1>3. LabelIInv => LearnedOnce BY DEF LabelIInv
<1> QED BY <1>1, <1>2, <1>3, PTL DEF LabelSpec

-----------------------------------------------------------------------------
(* How much is bought, and at what price *)

Proposals == [ticker : Stocks, forecast : Forecast, reference : SharePrices]
SizingIInv == SizingTypeOK /\ (proposal = NoProposal \/ proposal \in Proposals)

LEMMA DivType == ASSUME NEW x \in Nat, NEW d \in Nat \ {0} PROVE x \div d \in Nat
BY DivMonotone

\* What is bought by the increment stays within the capacity.
LEMMA DivBound ==
    ASSUME NEW x \in Nat, NEW d \in Nat \ {0}, NEW q \in Nat, q <= x \div d
    PROVE  q * d <= x /\ q * d \in Nat
<1> DEFINE y == x \div d
<1>1. x = d * y + (x % d) /\ x % d \in 0..(d-1) /\ y \in Int OBVIOUS
<1>2. q <= y OBVIOUS
<1> HIDE DEF y
<1>3. d * q <= d * y BY <1>1, <1>2
<1>4. q * d = d * q /\ q * d \in Nat OBVIOUS
<1> QED BY <1>1, <1>3, <1>4

LEMMA ProductType == ASSUME NEW x \in Nat, NEW y \in Nat PROVE x * y \in Nat
OBVIOUS

LEMMA SumOfIs == ASSUME NEW S, NEW f, DOMAIN f = S PROVE SumOf(f) = Total(f, S)
BY Zenon DEF SumOf, Total

LEMMA SumOfType ==
    ASSUME SizingConstantsOK, NEW f \in [Stocks -> Nat] PROVE SumOf(f) \in Nat
<1>1. IsFiniteSet(Stocks) /\ DOMAIN f = Stocks BY DEF SizingConstantsOK
<1> QED BY <1>1, SumOfIs, TotalType

Lots == Lot \cup {NoLot}

LEMMA LotType ==
    /\ \A l \in Lots : l.quantity \in Nat /\ l.paid \in Nat
                       /\ l.kind \in Kinds /\ l.quantity * l.paid \in Nat
    /\ NoLot.quantity = 0 /\ NoLot.paid = 0 /\ NoLot.status = "none"
<1>1. ASSUME NEW l \in Lots PROVE l.quantity \in Nat /\ l.paid \in Nat /\ l.kind \in Kinds
  BY DEF Lots, Lot, NoLot, Kinds
<1>2. ASSUME NEW l \in Lots PROVE l.quantity * l.paid \in Nat
  BY <1>1, ProductType
<1> QED BY <1>1, <1>2 DEF NoLot

CostOf(lines, kind) ==
    [t \in Stocks |-> IF lines[t].kind = kind THEN lines[t].quantity * lines[t].paid ELSE 0]

LEMMA CostType ==
    ASSUME NEW lines \in [Stocks -> Lots], NEW kind
    PROVE  CostOf(lines, kind) \in [Stocks -> Nat]
<1>1. ASSUME NEW t \in Stocks
      PROVE  (IF lines[t].kind = kind THEN lines[t].quantity * lines[t].paid ELSE 0) \in Nat
  <2>1. lines[t].quantity * lines[t].paid \in Nat BY LotType
  <2> QED BY <2>1
<1> QED BY <1>1 DEF CostOf

LEMMA ClaimIs ==
    ASSUME NEW lines, NEW kind
    PROVE  Claim(lines, kind) = Total(CostOf(lines, kind), Stocks)
<1>1. Claim(lines, kind) = SumOf(CostOf(lines, kind)) BY DEF Claim, CostOf
<1>2. DOMAIN CostOf(lines, kind) = Stocks BY DEF CostOf
<1> QED BY <1>1, <1>2, SumOfIs

LEMMA ClaimType ==
    ASSUME SizingConstantsOK, NEW lines \in [Stocks -> Lots], NEW kind
    PROVE  Claim(lines, kind) \in Nat
<1>1. IsFiniteSet(Stocks) BY DEF SizingConstantsOK
<1>2. \A t \in Stocks : CostOf(lines, kind)[t] \in Nat BY CostType
<1> QED BY <1>1, <1>2, ClaimIs, TotalType

\* A new order adds what it will cost to the claim of its kind.
LEMMA ClaimOfNew ==
    ASSUME SizingConstantsOK, NEW lines \in [Stocks -> Lots], NEW kind,
           NEW t \in Stocks, lines[t] = NoLot, NEW new \in Lot
    PROVE  Claim([lines EXCEPT ![t] = new], kind)
               = Claim(lines, kind)
                     + IF new.kind = kind THEN new.quantity * new.paid ELSE 0
<1> DEFINE after == [lines EXCEPT ![t] = new]
           f == CostOf(lines, kind)
           g == CostOf(after, kind)
           R == Stocks \ {t}
<1>1. after \in [Stocks -> Lots] /\ after[t] = new /\ \A u \in R : after[u] = lines[u]
  BY DEF Lots
<1>2. f \in [Stocks -> Nat] /\ g \in [Stocks -> Nat]
  <2> HIDE DEF after
  <2> QED BY <1>1, CostType
<1>3. f[t] = 0 BY LotType DEF CostOf
<1>4. g[t] = IF new.kind = kind THEN new.quantity * new.paid ELSE 0 BY <1>1 DEF CostOf
<1>5. \A u \in R : g[u] = f[u] BY <1>1 DEF CostOf
<1>6. IsFiniteSet(Stocks) /\ IsFiniteSet(R) BY FS_Subset DEF SizingConstantsOK
<1>7. Claim(lines, kind) = Total(f, Stocks) /\ Claim(after, kind) = Total(g, Stocks)
  BY ClaimIs
<1> HIDE DEF after, f, g
<1>8. Total(f, Stocks) = f[t] + Total(f, R) BY <1>2, <1>6, TotalWith
<1>9. Total(g, Stocks) = g[t] + Total(g, R) BY <1>2, <1>6, TotalWith
<1>10. Total(g, R) = Total(f, R) BY <1>5, <1>6, TotalSame
<1>11. Total(f, R) \in Nat BY <1>2, <1>6, TotalType
<1>12. g[t] \in Nat BY <1>2
<1>13. Claim(after, kind) = Claim(lines, kind) + g[t]
  BY <1>3, <1>7, <1>8, <1>9, <1>10, <1>11, <1>12
<1> QED BY <1>4, <1>13 DEF after

-----------------------------------------------------------------------------
(* The account *)

LEMMA PriceTypes ==
    ASSUME SizingConstantsOK, SizingIInv, NEW t \in Stocks
    PROVE  /\ price[t] \in SharePrices /\ price[t] \in Nat
           /\ Ask(t) \in Nat \ {0} /\ Bid(t) \in Nat
           /\ Premium - HalfSpread \in Nat
<1>1. price[t] \in SharePrices BY DEF SizingIInv, SizingTypeOK
<1>2. price[t] \in Nat /\ price[t] > HalfSpread + ShareSlippage
      /\ HalfSpread \in Nat /\ ShareSlippage \in Nat /\ Premium \in Nat
      /\ Premium > HalfSpread
  BY <1>1 DEF SizingConstantsOK
<1> QED BY <1>1, <1>2 DEF Ask, Bid

LEMMA LotsTyped ==
    ASSUME SizingIInv PROVE lots \in [Stocks -> Lots] /\ funds \in Nat
BY DEF SizingIInv, SizingTypeOK, Lots

LEMMA WorthType ==
    ASSUME SizingConstantsOK, SizingIInv, NEW t \in Stocks PROVE Worth(t) \in Nat
<1>1. lots[t].quantity \in Nat BY LotsTyped, LotType
<1>2. lots[t].quantity * Bid(t) \in Nat BY <1>1, PriceTypes, ProductType
<1>3. lots[t].quantity * (Premium - HalfSpread) \in Nat BY <1>1, PriceTypes, ProductType
<1> QED BY <1>2, <1>3 DEF Worth

LEMMA NetValueType == ASSUME SizingConstantsOK, SizingIInv PROVE NetValue \in Nat
<1>1. [t \in Stocks |-> Worth(t)] \in [Stocks -> Nat] BY WorthType
<1>2. SumOf([t \in Stocks |-> Worth(t)]) \in Nat BY <1>1, SumOfType
<1> QED BY <1>2, LotsTyped DEF NetValue

LEMMA DeployedInType ==
    ASSUME SizingConstantsOK, SizingIInv
    PROVE  DeployedIn("equity") \in Nat /\ DeployedIn("option") \in Nat
BY LotsTyped, ClaimType DEF DeployedIn

\* What is free under a percentage of the account, if anything is.
LEMMA FreeIs ==
    ASSUME NEW nav \in Nat, NEW pct \in Nat, NEW used \in Nat
    PROVE  /\ AtLeast0((nav * pct) \div 100 - used) \in Nat
           /\ \A c \in Nat \ {0} :
                 c <= AtLeast0((nav * pct) \div 100 - used) => (used + c) * 100 <= pct * nav
<1> DEFINE n == nav * pct
           d == n \div 100
<1>1. n \in Nat /\ pct * nav = n BY ProductType
<1>2. d \in Nat /\ d * 100 <= n
  <2> HIDE DEF n
  <2>1. d \in Nat BY <1>1, DivType
  <2> HIDE DEF d
  <2> QED BY <1>1, <2>1, DivBound DEF d
<1> HIDE DEF n, d
<1>3. AtLeast0(d - used) \in Nat BY <1>2 DEF AtLeast0
<1>4. ASSUME NEW c \in Nat \ {0}, c <= AtLeast0(d - used) PROVE (used + c) * 100 <= n
  <2>1. c <= d - used BY <1>2, <1>4 DEF AtLeast0
  <2>2. (used + c) * 100 <= d * 100 BY <1>2, <2>1
  <2> QED BY <1>1, <1>2, <2>2
<1> QED BY <1>1, <1>3, <1>4 DEF n, d

\* What may be bought leaves the line and the account within their caps.
LEMMA CapacityIs ==
    ASSUME SizingConstantsOK, SizingIInv, NEW nav \in Nat, NEW entry \in Nat,
           NEW pct \in Nat, NEW kind \in Kinds
    PROVE  /\ Capacity(nav, entry, pct, kind) \in Nat
           /\ \A c \in Nat \ {0} : c <= Capacity(nav, entry, pct, kind) =>
                 /\ (DeployedIn(kind) + c) * 100 <= pct * nav
                 /\ (TotalDeployed + c) * 100 <= BothPct * nav
<1> DEFINE used == DeployedIn(kind)
           a == AtLeast0((nav * entry) \div 100 - 0)
           b == AtLeast0((nav * pct) \div 100 - used)
           e == AtLeast0((nav * BothPct) \div 100 - TotalDeployed)
<1>1. used \in Nat /\ TotalDeployed \in Nat BY DeployedInType DEF Kinds, TotalDeployed
<1>2. BothPct \in Nat /\ 0 \in Nat BY DEF SizingConstantsOK
<1>3. a \in Nat /\ b \in Nat /\ e \in Nat
  <2> HIDE DEF used
  <2> QED BY <1>1, <1>2, FreeIs
<1>4. \A c \in Nat \ {0} : c <= b => (used + c) * 100 <= pct * nav
  <2> HIDE DEF used
  <2> QED BY <1>1, FreeIs
<1>5. \A c \in Nat \ {0} : c <= e => (TotalDeployed + c) * 100 <= BothPct * nav
  BY <1>1, <1>2, FreeIs
<1>6. Capacity(nav, entry, pct, kind) = Least(Least(funds, a), Least(b, e))
  BY Zenon DEF Capacity
<1> HIDE DEF a, b, e, used
<1>7. /\ Least(Least(funds, a), Least(b, e)) \in Nat
      /\ Least(Least(funds, a), Least(b, e)) <= b
      /\ Least(Least(funds, a), Least(b, e)) <= e
  BY <1>3, LotsTyped DEF Least
<1>8. ASSUME NEW c \in Nat \ {0}, c <= Capacity(nav, entry, pct, kind)
      PROVE  c <= b /\ c <= e
  BY <1>3, <1>6, <1>7, <1>8
<1> QED BY <1>4, <1>5, <1>6, <1>7, <1>8 DEF used

-----------------------------------------------------------------------------
(* The new order *)

\* What an allocation decided: shares that fit the capacity, at the price of now, or
\* one option that does.
NewShares(t) ==
    \E q \in Nat \ {0} :
        /\ lots' = [lots EXCEPT ![t] = [status |-> "resting", kind |-> "equity",
                                        quantity |-> q, paid |-> Ask(t)]]
        /\ q <= Capacity(NetValue, EntryPct, SharePct, "equity") \div Ask(t)
        /\ ShareEligible(t, NetValue)
NewOption(t) ==
    /\ lots' = [lots EXCEPT ![t] = [status |-> "resting", kind |-> "option",
                                    quantity |-> 1, paid |-> Premium]]
    /\ Premium <= Capacity(NetValue, OptionEntryPct, OptionPct, "option")

LEMMA Percentages ==
    ASSUME SizingConstantsOK
    PROVE  /\ EntryPct \in Nat /\ OptionEntryPct \in Nat /\ SharePct \in Nat
           /\ OptionPct \in Nat /\ BothPct \in Nat /\ RiskPct \in Nat
           /\ StopPct \in Nat \ {0} /\ Premium \in Nat \ {0}
           /\ HalfSpread \in Nat /\ ShareSlippage \in Nat
BY DEF SizingConstantsOK

LEMMA SharesType ==
    ASSUME SizingConstantsOK, SizingIInv, NEW t \in Stocks
    PROVE  /\ Shares(t, NetValue) \in Nat
           /\ Shares(t, NetValue)
                <= Capacity(NetValue, EntryPct, SharePct, "equity") \div Ask(t)
<1> DEFINE c == Capacity(NetValue, EntryPct, SharePct, "equity")
           x == c \div Ask(t)
           n == RiskPct * NetValue
           d == Ask(t) * StopPct
           y == n \div d
<1>1. NetValue \in Nat /\ Ask(t) \in Nat \ {0} BY NetValueType, PriceTypes
<1>2. c \in Nat BY <1>1, Percentages, CapacityIs DEF Kinds
<1>3. n \in Nat BY <1>1, Percentages, ProductType
<1>4. d \in Nat \ {0}
  <2>1. ASSUME NEW a \in Nat \ {0}, NEW b \in Nat \ {0} PROVE a * b \in Nat \ {0} OBVIOUS
  <2> QED BY <1>1, <2>1, Percentages
<1> HIDE DEF c, n, d
<1>5. x \in Nat BY <1>1, <1>2, DivType
<1>6. y \in Nat BY <1>3, <1>4, DivType
<1> HIDE DEF x, y
<1>7. Least(x, y) \in Nat /\ Least(x, y) <= x BY <1>5, <1>6 DEF Least
<1>8. Shares(t, NetValue) = Least(x, y) BY Zenon DEF Shares, x, y, n, d, c
<1> QED BY <1>7, <1>8 DEF x, c

LEMMA AllocateIs ==
    ASSUME SizingConstantsOK, SizingIInv, Allocate
    PROVE  /\ proposal \in Proposals /\ Dominant(proposal.forecast)
           /\ NewShares(proposal.ticker) \/ NewOption(proposal.ticker)
           /\ proposal' = NoProposal /\ placed' = placed + 1 /\ placed < MaxAllocations
           /\ UNCHANGED <<funds, price>>
<1> DEFINE t == proposal.ticker
<1>1. /\ proposal # NoProposal /\ placed < MaxAllocations /\ Dominant(proposal.forecast)
      /\ proposal' = NoProposal /\ placed' = placed + 1 /\ UNCHANGED <<funds, price>>
  BY DEF Allocate
<1>2. proposal \in Proposals /\ t \in Stocks BY <1>1 DEF SizingIInv, Proposals
<1>3. PICK exit \in OptionExits : \E kind \in Selected(t, exit, NetValue) :
        lots' = [lots EXCEPT ![t] = NewLot(t, kind, NetValue)]
  BY DEF Allocate
<1>3a. PICK kind \in Selected(t, exit, NetValue) :
        lots' = [lots EXCEPT ![t] = NewLot(t, kind, NetValue)]
  BY <1>3
<1>4. kind \in Kinds BY DEF Selected
<1>5. ASSUME kind = "equity" PROVE NewShares(t)
  <2>1. ShareEligible(t, NetValue) BY <1>5 DEF Selected
  <2>2. Shares(t, NetValue) \in Nat \ {0}
    BY <1>2, <2>1, SharesType DEF ShareEligible
  <2>3. NewLot(t, kind, NetValue)
          = [status |-> "resting", kind |-> "equity", quantity |-> Shares(t, NetValue),
             paid |-> Ask(t)]
    BY <1>5, Zenon DEF NewLot
  <2> QED BY <1>2, <1>3a, <2>1, <2>2, <2>3, SharesType DEF NewShares
<1>6. ASSUME kind = "option" PROVE NewOption(t)
  <2>1. \E e \in OptionExits : OptionEligible(e, NetValue) BY <1>6 DEF Selected
  <2>2. NewLot(t, kind, NetValue)
          = [status |-> "resting", kind |-> "option", quantity |-> 1, paid |-> Premium]
    BY <1>6, Zenon DEF NewLot
  <2> QED BY <1>3a, <2>1, <2>2 DEF NewOption, OptionEligible
<1> QED BY <1>1, <1>2, <1>4, <1>5, <1>6 DEF Kinds

LEMMA NewSharesFit ==
    ASSUME SizingConstantsOK, SizingIInv, NEW t \in Stocks, lots[t] = NoLot, NewShares(t)
    PROVE  /\ lots' \in [Stocks -> Lots] /\ lots'[t].kind = "equity"
           /\ \A u \in Stocks \ {t} : lots'[u] = lots[u]
           /\ Within(Claim(lots', "equity"), SharePct)
           /\ Within(Claim(lots', "equity") + Claim(lots', "option"), BothPct)
<1>1. PICK q \in Nat \ {0} :
        /\ lots' = [lots EXCEPT ![t] = [status |-> "resting", kind |-> "equity",
                                        quantity |-> q, paid |-> Ask(t)]]
        /\ q <= Capacity(NetValue, EntryPct, SharePct, "equity") \div Ask(t)
  BY DEF NewShares
<1> DEFINE new == [status |-> "resting", kind |-> "equity", quantity |-> q, paid |-> Ask(t)]
           c == Capacity(NetValue, EntryPct, SharePct, "equity")
           spent == q * Ask(t)
<1>2. Ask(t) \in Nat \ {0} /\ NetValue \in Nat BY PriceTypes, NetValueType
<1>3. new \in Lot /\ new.kind = "equity" /\ new.quantity = q /\ new.paid = Ask(t)
  BY <1>2 DEF Lot, Kinds
<1>4. lots' = [lots EXCEPT ![t] = new] BY <1>1
<1>5. c \in Nat BY <1>2, Percentages, CapacityIs DEF Kinds
<1>6. spent \in Nat \ {0} /\ spent <= c
  <2> HIDE DEF c
  <2>1. spent <= c /\ spent \in Nat BY <1>1, <1>2, <1>5, DivBound DEF c
  <2>2. ASSUME NEW a \in Nat \ {0}, NEW b \in Nat \ {0} PROVE a * b # 0 OBVIOUS
  <2> QED BY <1>1, <1>2, <2>1, <2>2
<1>7. /\ (DeployedIn("equity") + spent) * 100 <= SharePct * NetValue
      /\ (TotalDeployed + spent) * 100 <= BothPct * NetValue
  <2> HIDE DEF spent
  <2> QED BY <1>2, <1>6, Percentages, CapacityIs DEF Kinds
<1> HIDE DEF new, c, spent
<1>8. /\ lots \in [Stocks -> Lots] /\ lots' \in [Stocks -> Lots] /\ lots'[t] = new
      /\ \A u \in Stocks \ {t} : lots'[u] = lots[u]
  BY <1>3, <1>4, LotsTyped DEF Lots
<1>9. Claim(lots', "equity") = DeployedIn("equity") + spent
  <2>1. (IF new.kind = "equity" THEN new.quantity * new.paid ELSE 0) = spent
    BY <1>3 DEF spent
  <2>2. Claim([lots EXCEPT ![t] = new], "equity") = Claim(lots, "equity")
            + IF new.kind = "equity" THEN new.quantity * new.paid ELSE 0
    BY <1>3, <1>8, ClaimOfNew
  <2> QED BY <1>4, <2>1, <2>2, Zenon DEF DeployedIn
<1>10. Claim(lots', "option") = DeployedIn("option")
  <2>1. Claim(lots', "option") = Claim(lots, "option") + 0
    BY <1>3, <1>4, <1>8, ClaimOfNew
  <2> QED BY <2>1, DeployedInType DEF DeployedIn
<1>11. Claim(lots', "equity") + Claim(lots', "option") = TotalDeployed + spent
  BY <1>6, <1>9, <1>10, DeployedInType DEF TotalDeployed
<1> QED BY <1>3, <1>7, <1>8, <1>9, <1>11 DEF Within

LEMMA NewOptionFits ==
    ASSUME SizingConstantsOK, SizingIInv, NEW t \in Stocks, lots[t] = NoLot, NewOption(t)
    PROVE  /\ lots' \in [Stocks -> Lots] /\ lots'[t].kind = "option"
           /\ \A u \in Stocks \ {t} : lots'[u] = lots[u]
           /\ Within(Claim(lots', "option"), OptionPct)
           /\ Within(Claim(lots', "equity") + Claim(lots', "option"), BothPct)
<1> DEFINE new == [status |-> "resting", kind |-> "option", quantity |-> 1, paid |-> Premium]
<1>1. lots' = [lots EXCEPT ![t] = new] BY DEF NewOption
<1>2. Premium \in Nat \ {0} /\ NetValue \in Nat BY Percentages, NetValueType
<1>3. new \in Lot /\ new.kind = "option" /\ new.quantity = 1 /\ new.paid = Premium
  BY <1>2 DEF Lot, Kinds
<1>4. /\ (DeployedIn("option") + Premium) * 100 <= OptionPct * NetValue
      /\ (TotalDeployed + Premium) * 100 <= BothPct * NetValue
  BY <1>2, Percentages, CapacityIs DEF Kinds, NewOption
<1> HIDE DEF new
<1>5. /\ lots \in [Stocks -> Lots] /\ lots' \in [Stocks -> Lots] /\ lots'[t] = new
      /\ \A u \in Stocks \ {t} : lots'[u] = lots[u]
  BY <1>1, <1>3, LotsTyped DEF Lots
<1>6. Claim(lots', "option") = DeployedIn("option") + Premium
  <2>1. (IF new.kind = "option" THEN new.quantity * new.paid ELSE 0) = Premium
    BY <1>2, <1>3
  <2>2. ASSUME NEW kind
        PROVE  Claim([lots EXCEPT ![t] = new], kind) = Claim(lots, kind)
                   + IF new.kind = kind THEN new.quantity * new.paid ELSE 0
    BY <1>3, <1>5, ClaimOfNew
  <2> QED BY <1>1, <2>1, <2>2, Zenon DEF DeployedIn
<1>7. Claim(lots', "equity") = DeployedIn("equity")
  <2>1. Claim(lots', "equity") = Claim(lots, "equity") + 0
    BY <1>1, <1>3, <1>5, ClaimOfNew
  <2> QED BY <2>1, DeployedInType DEF DeployedIn
<1>8. Claim(lots', "equity") + Claim(lots', "option") = TotalDeployed + Premium
  BY <1>2, <1>6, <1>7, DeployedInType DEF TotalDeployed
<1> QED BY <1>3, <1>4, <1>5, <1>6, <1>8 DEF Within

-----------------------------------------------------------------------------
(* The forecast and the price *)

\* Half of the mass, filled from the bucket of the smallest move, expects no more than
\* all of it.
LEMMA LowerHalf ==
    ASSUME NEW b \in [near : Nat, middle : Nat, far : Nat, sign : {1, -1},
                      neutral : Nat, against : Nat]
    PROVE  /\ WeightedMove(b) \in Int /\ MassOf(b) \in Nat
           /\ WeightedMove(b) <= b.near + 4 * b.middle + 10 * b.far
<1>1. b.near \in Nat /\ b.middle \in Nat /\ b.far \in Nat OBVIOUS
<1> DEFINE m == MassOf(b)
           first == Least(2 * b.near, m)
           second == Least(2 * b.middle, m - first)
<1>2. m = b.near + b.middle + b.far BY DEF MassOf
<1>3. first = IF 2 * b.near < m THEN 2 * b.near ELSE m BY DEF Least
<1>4. second = IF 2 * b.middle < m - first THEN 2 * b.middle ELSE m - first BY DEF Least
<1>5. WeightedMove(b) = first * 1 + second * 4 + (m - first - second) * 10
  BY Zenon DEF WeightedMove
<1> HIDE DEF m, first, second
<1> DEFINE all == b.near + 4 * b.middle + 10 * b.far
<1>6. ASSUME 2 * b.near >= m PROVE WeightedMove(b) <= all
  <2>1. first = m /\ m \in Nat BY <1>1, <1>2, <1>3, <1>6
  <2>2. second = 0 BY <1>1, <1>4, <2>1
  <2>3. WeightedMove(b) = m BY <1>5, <2>1, <2>2
  <2> QED BY <1>1, <1>2, <2>3
<1>7. ASSUME 2 * b.near < m, 2 * b.middle >= m - 2 * b.near PROVE WeightedMove(b) <= all
  <2>1. first = 2 * b.near /\ m \in Nat BY <1>1, <1>2, <1>3, <1>7
  <2>2. second = m - 2 * b.near BY <1>1, <1>4, <1>7, <2>1
  <2>3. m - first - second = 0 BY <1>1, <2>1, <2>2
  <2>4. WeightedMove(b) = 2 * b.near + 4 * (m - 2 * b.near)
    BY <1>1, <1>5, <2>1, <2>2, <2>3
  <2>5. WeightedMove(b) = 4 * b.middle + 4 * b.far - 2 * b.near BY <1>1, <1>2, <2>4
  <2> QED BY <1>1, <2>5
<1>8. ASSUME 2 * b.near < m, 2 * b.middle < m - 2 * b.near PROVE WeightedMove(b) <= all
  <2>1. first = 2 * b.near /\ m \in Nat BY <1>1, <1>2, <1>3, <1>8
  <2>2. second = 2 * b.middle BY <1>1, <1>4, <1>8, <2>1
  <2> QED BY <1>1, <1>2, <1>5, <2>1, <2>2
<1>9. m \in Nat /\ WeightedMove(b) \in Int BY <1>1, <1>2, <1>3, <1>4, <1>5
<1>10. WeightedMove(b) <= all BY <1>1, <1>2, <1>6, <1>7, <1>8
<1> QED BY <1>9, <1>10 DEF m

LEMMA SharesWithProfit ==
    ASSUME SizingConstantsOK, SizingIInv, NEW t \in Stocks, proposal \in Proposals,
           Dominant(proposal.forecast), ShareEligible(t, NetValue)
    PROVE  LET b == proposal.forecast IN
           proposal.reference * (200 * MassOf(b) + b.near + 4 * b.middle + 10 * b.far)
               >= (Ask(t) + HalfSpread + ShareSlippage) * 200 * MassOf(b)
<1> DEFINE b == proposal.forecast
           r == proposal.reference
           m == MassOf(b)
           w == WeightedMove(b)
           mean == b.near + 4 * b.middle + 10 * b.far
           exit == HalfSpread + ShareSlippage
           scale == 200 * m
<1>1. b \in Forecast /\ r \in Nat BY DEF Proposals, SizingConstantsOK
<1>2. b \in [near : Nat, middle : Nat, far : Nat, sign : {1, -1},
             neutral : Nat, against : Nat]
  BY <1>1 DEF Forecast, SizingConstantsOK
<1>3. w \in Int /\ m \in Nat /\ w <= mean /\ mean \in Nat /\ b.neutral \in Nat
  BY <1>2, LowerHalf
<1>4. m > 0 BY <1>3 DEF Dominant
<1>5. Ask(t) \in Nat \ {0} /\ exit \in Nat BY PriceTypes, Percentages
<1>6. b.sign = 1 /\ ShareProfit(t) >= 0 BY DEF ShareEligible
<1> DEFINE target == r * (scale + w)
           paid == Ask(t) * scale
           out == exit * scale
<1>7. ShareProfit(t) = AtLeast0(target - out) - paid
  <2>1. scale = Scale(proposal) BY DEF Scale
  <2>2. TargetPrice(proposal) = r * (scale + b.sign * w) BY <2>1, Zenon DEF TargetPrice
  <2>3. b.sign * w = w BY <1>3, <1>6
  <2>4. TargetPrice(proposal) = target BY <2>2, <2>3
  <2>5. ShareProfit(t) = AtLeast0(TargetPrice(proposal) - exit * scale) - Ask(t) * scale
    BY <2>1, Zenon DEF ShareProfit
  <2> QED BY <2>4, <2>5
<1> HIDE DEF m, w, mean, exit, b, r
<1>8. scale \in Nat /\ scale > 0 BY <1>3, <1>4
<1> HIDE DEF scale
<1>9. paid \in Nat /\ paid > 0 /\ out \in Nat /\ target \in Int
  <2>1. ASSUME NEW x \in Nat \ {0}, NEW y \in Nat \ {0} PROVE x * y \in Nat /\ x * y > 0
    OBVIOUS
  <2>2. scale \in Nat \ {0} BY <1>8
  <2>3. paid \in Nat /\ paid > 0 BY <1>5, <2>1, <2>2
  <2>4. out \in Nat BY <1>5, <1>8, ProductType
  <2>5. ASSUME NEW x \in Int, NEW y \in Int PROVE x * y \in Int OBVIOUS
  <2>6. target \in Int BY <1>1, <1>3, <1>8, <2>5
  <2> QED BY <2>3, <2>4, <2>6
<1>10. target - out >= paid
  <2> HIDE DEF target, out, paid
  <2> QED BY <1>6, <1>7, <1>9 DEF AtLeast0
<1>11. target <= r * (scale + mean)
  <2>1. ASSUME NEW x \in Nat, NEW y \in Int, NEW z \in Int, y <= z PROVE x * y <= x * z
    <3>1. z - y \in Nat BY <2>1
    <3>2. x * (z - y) \in Nat BY <3>1, ProductType
    <3>3. x * (z - y) = x * z - x * y OBVIOUS
    <3> QED BY <3>2, <3>3
  <2>2. scale + w <= scale + mean BY <1>3, <1>8
  <2> QED BY <1>1, <1>3, <1>8, <2>1, <2>2
<1>12. (Ask(t) + exit) * scale = paid + out BY <1>5, <1>8
<1>13. r * (scale + mean) \in Int
  BY <1>1, <1>3, <1>8, ProductType
<1>14. r * (scale + mean) >= (Ask(t) + exit) * scale
  <2> HIDE DEF target, out, paid
  <2> QED BY <1>9, <1>10, <1>11, <1>12, <1>13
<1>15. scale + mean = 200 * m + b.near + 4 * b.middle + 10 * b.far
  BY <1>2, <1>3 DEF scale, mean
<1>16. (Ask(t) + exit) * scale = (Ask(t) + HalfSpread + ShareSlippage) * 200 * m
  BY <1>3, <1>5, Percentages DEF exit, scale
<1> QED BY <1>14, <1>15, <1>16 DEF b, r, m

-----------------------------------------------------------------------------
(* The steps *)

LEMMA InitSizingIInv == ASSUME SizingConstantsOK, SizingInit PROVE SizingIInv
BY DEF SizingConstantsOK, SizingInit, SizingIInv, SizingTypeOK

\* An order is created by Allocate only, for the ticker of the proposal.
LEMMA OnlyAllocateOrders ==
    ASSUME SizingConstantsOK, SizingIInv, [SizingNext]_sizingVars, NEW t \in Stocks,
           IsOrdered(t)
    PROVE  Allocate /\ t = proposal.ticker
<1>1. /\ lots \in [Stocks -> Lots] /\ lots[t] = NoLot /\ lots'[t] # NoLot
  BY LotsTyped DEF IsOrdered
<1>2. CASE Allocate
  <2>1. proposal.ticker \in Stocks BY <1>2, AllocateIs DEF Proposals
  <2>2. \A u \in Stocks \ {proposal.ticker} : lots'[u] = lots[u]
    BY <1>1, <1>2, <2>1 DEF Allocate
  <2> QED BY <1>1, <1>2, <2>2
<1>3. CASE NoTrade BY <1>1, <1>3 DEF NoTrade
<1>4. CASE AnyResearch BY <1>1, <1>4 DEF AnyResearch, Research
<1>5. CASE \E u \in Stocks, p \in SharePrices : Quote(u, p) BY <1>1, <1>5 DEF Quote
<1>6. ASSUME NEW u \in Stocks, FillLot(u) PROVE FALSE
  <2>1. u # t BY <1>1, <1>6, LotType DEF FillLot
  <2>2. lots'[t] = lots[t] BY <1>1, <1>6, <2>1 DEF FillLot
  <2> QED BY <1>1, <2>2
<1>7. ASSUME NEW u \in Stocks, Close(u) PROVE FALSE BY <1>1, <1>7 DEF Close
<1>8. CASE UNCHANGED sizingVars BY <1>1, <1>8 DEF sizingVars
<1> QED BY <1>2, <1>3, <1>4, <1>5, <1>6, <1>7, <1>8 DEF SizingNext

LEMMA StepSizingIInv ==
    ASSUME SizingConstantsOK PROVE SizingIInv /\ [SizingNext]_sizingVars => SizingIInv'
<1> SUFFICES ASSUME SizingIInv, [SizingNext]_sizingVars PROVE SizingIInv' OBVIOUS
<1>0. /\ lots \in [Stocks -> Lots] /\ funds \in Nat /\ price \in [Stocks -> SharePrices]
      /\ placed \in 0..MaxAllocations
  BY LotsTyped DEF SizingIInv, SizingTypeOK
<1>t. ASSUME /\ lots' \in [Stocks -> Lots] /\ funds' \in Nat
             /\ price' \in [Stocks -> SharePrices] /\ placed' \in 0..MaxAllocations
             /\ proposal' = NoProposal \/ proposal' \in Proposals
      PROVE  SizingIInv'
  BY <1>t DEF SizingIInv, SizingTypeOK, Lots, Proposals
<1>p. proposal = NoProposal \/ proposal \in Proposals BY DEF SizingIInv
<1>1. CASE Allocate
  <2> DEFINE t == proposal.ticker
  <2>1. /\ t \in Stocks
        /\ NewShares(t) \/ NewOption(t)
        /\ proposal' = NoProposal /\ placed' = placed + 1 /\ placed < MaxAllocations
        /\ UNCHANGED <<funds, price>>
    BY <1>1, AllocateIs DEF Proposals
  <2>2. placed' \in 0..MaxAllocations BY <1>0, <2>1 DEF SizingConstantsOK
  <2>3. lots' \in [Stocks -> Lots]
    <3>1. CASE NewShares(t)
      <4>1. PICK q \in Nat \ {0} :
              lots' = [lots EXCEPT ![t] = [status |-> "resting", kind |-> "equity",
                                           quantity |-> q, paid |-> Ask(t)]]
        BY <3>1 DEF NewShares
      <4>2. [status |-> "resting", kind |-> "equity", quantity |-> q, paid |-> Ask(t)] \in Lots
        BY <2>1, PriceTypes DEF Lots, Lot, Kinds
      <4> QED BY <1>0, <4>1, <4>2
    <3>2. CASE NewOption(t)
      <4>1. [status |-> "resting", kind |-> "option", quantity |-> 1, paid |-> Premium] \in Lots
        BY Percentages DEF Lots, Lot, Kinds
      <4> QED BY <1>0, <3>2, <4>1 DEF NewOption
    <3> QED BY <2>1, <3>1, <3>2
  <2> QED BY <1>0, <1>t, <2>1, <2>2, <2>3
<1>2. CASE NoTrade BY <1>0, <1>t, <1>2 DEF NoTrade
<1>3. CASE AnyResearch
  <2>1. PICK t \in Stocks, sign \in {1, -1}, near \in 0..Mass, middle \in 0..Mass :
             \E far \in 0..(Mass - near - middle) :
             \E neutral \in 0..(Mass - near - middle - far) :
               Research(t, [sign |-> sign, near |-> near, middle |-> middle, far |-> far,
                            neutral |-> neutral,
                            against |-> Mass - near - middle - far - neutral])
    BY <1>3 DEF AnyResearch
  <2>1a. PICK far \in 0..(Mass - near - middle) :
             \E neutral \in 0..(Mass - near - middle - far) :
               Research(t, [sign |-> sign, near |-> near, middle |-> middle, far |-> far,
                            neutral |-> neutral,
                            against |-> Mass - near - middle - far - neutral])
    BY <2>1
  <2>2. PICK neutral \in 0..(Mass - near - middle - far) :
               Research(t, [sign |-> sign, near |-> near, middle |-> middle, far |-> far,
                            neutral |-> neutral,
                            against |-> Mass - near - middle - far - neutral])
    BY <2>1a
  <2> DEFINE b == [sign |-> sign, near |-> near, middle |-> middle, far |-> far,
                   neutral |-> neutral,
                   against |-> Mass - near - middle - far - neutral]
  <2>3. far \in 0..Mass /\ neutral \in 0..Mass
        /\ Mass - near - middle - far - neutral \in 0..Mass
    BY DEF SizingConstantsOK
  <2>4. b \in Forecast BY <2>3 DEF Forecast
  <2> HIDE DEF b
  <2>5. Research(t, b) BY <2>2 DEF b
  <2>6. [ticker |-> t, forecast |-> b, reference |-> price[t]] \in Proposals
    BY <1>0, <2>4 DEF Proposals
  <2> QED BY <1>0, <1>t, <2>5, <2>6 DEF Research
<1>4. CASE \E t \in Stocks, p \in SharePrices : Quote(t, p)
  BY <1>0, <1>t, <1>p, <1>4 DEF Quote
<1>5. ASSUME NEW t \in Stocks, FillLot(t) PROVE SizingIInv'
  <2> DEFINE paid == IF lots[t].kind = "equity" THEN Ask(t) ELSE Premium
             new == [lots[t] EXCEPT !.status = "held", !.paid = paid]
  <2>1. paid \in Nat BY PriceTypes, Percentages
  <2>2. /\ lots[t].status = "resting" /\ paid * lots[t].quantity <= funds
        /\ lots' = [lots EXCEPT ![t] = new] /\ funds' = funds - paid * lots[t].quantity
        /\ UNCHANGED <<price, proposal, placed>>
    BY <1>0, <1>5 DEF FillLot
  <2>3. lots[t] \in Lot BY <1>0, <2>2, LotType DEF Lots
  <2>4. new \in Lots BY <2>1, <2>3 DEF Lots, Lot
  <2>5. paid * lots[t].quantity \in Nat BY <1>0, <2>1, LotType, ProductType
  <2> HIDE DEF paid, new
  <2> DEFINE cost == paid * lots[t].quantity
  <2>6. funds' \in Nat
    <3>1. cost \in Nat /\ cost <= funds /\ funds' = funds - cost BY <2>2, <2>5
    <3> HIDE DEF cost
    <3> QED BY <1>0, <3>1
  <2>7. lots' \in [Stocks -> Lots] BY <1>0, <2>2, <2>4
  <2> QED BY <1>0, <1>t, <1>p, <2>2, <2>6, <2>7
<1>6. ASSUME NEW t \in Stocks, Close(t) PROVE SizingIInv'
  <2>1. /\ funds' = funds + Worth(t) /\ lots' = [lots EXCEPT ![t] = NoLot]
        /\ UNCHANGED <<price, proposal, placed>>
    BY <1>6 DEF Close
  <2>2. lots' \in [Stocks -> Lots] BY <1>0, <2>1 DEF Lots
  <2>3. funds' \in Nat BY <1>0, <2>1, WorthType
  <2> QED BY <1>0, <1>t, <1>p, <2>1, <2>2, <2>3
<1>7. CASE UNCHANGED sizingVars BY <1>0, <1>t, <1>p, <1>7 DEF sizingVars
<1> QED BY <1>1, <1>2, <1>3, <1>4, <1>5, <1>6, <1>7 DEF SizingNext

LEMMA SizingIInvHolds == ASSUME SizingConstantsOK PROVE SizingSpec => []SizingIInv
<1>1. SizingInit => SizingIInv BY InitSizingIInv
<1>2. SizingIInv /\ [SizingNext]_sizingVars => SizingIInv' BY StepSizingIInv
<1> QED BY <1>1, <1>2, PTL DEF SizingSpec

\* The money, the prices and the lots keep their types: no fill and no sale takes the
\* cash below zero (InstrumentAllocation).
THEOREM SizingTypeCorrect == ASSUME SizingConstantsOK PROVE SizingSpec => []SizingTypeOK
<1>1. SizingIInv => SizingTypeOK BY DEF SizingIInv
<1> QED BY <1>1, SizingIInvHolds, PTL

\* allocate_instrument never orders beyond the cap of a line or of the account, for
\* any percentages, prices and numbers of positions: CapsHold.
THEOREM CapsHoldHolds == ASSUME SizingConstantsOK PROVE SizingSpec => CapsHold
<1>1. SizingIInv /\ [SizingNext]_sizingVars =>
        [\A t \in Stocks : IsOrdered(t) =>
            /\ Within(Claim(lots', "equity") + Claim(lots', "option"), BothPct)
            /\ lots'[t].kind = "equity" => Within(Claim(lots', "equity"), SharePct)
            /\ lots'[t].kind = "option" => Within(Claim(lots', "option"), OptionPct)]_sizingVars
  <2> SUFFICES ASSUME SizingIInv, [SizingNext]_sizingVars, NEW t \in Stocks, IsOrdered(t)
               PROVE  /\ Within(Claim(lots', "equity") + Claim(lots', "option"), BothPct)
                      /\ lots'[t].kind = "equity" => Within(Claim(lots', "equity"), SharePct)
                      /\ lots'[t].kind = "option" => Within(Claim(lots', "option"), OptionPct)
    OBVIOUS
  <2>1. Allocate /\ t = proposal.ticker BY OnlyAllocateOrders
  <2>2. NewShares(t) \/ NewOption(t) BY <2>1, AllocateIs
  <2>3. lots[t] = NoLot BY DEF IsOrdered
  <2>4. CASE NewShares(t) BY <2>3, <2>4, NewSharesFit
  <2>5. CASE NewOption(t) BY <2>3, <2>5, NewOptionFits
  <2> QED BY <2>2, <2>4, <2>5
<1> QED BY <1>1, SizingIInvHolds, PTL DEF SizingSpec, CapsHold

\* allocate_instrument buys no share that the forecast, measured from its own
\* reference price, no longer covers, whatever the price did since: NoChase.
THEOREM NoChaseHolds == ASSUME SizingConstantsOK PROVE SizingSpec => NoChase
<1>1. SizingIInv /\ [SizingNext]_sizingVars =>
        [\A t \in Stocks : IsOrdered(t) /\ lots'[t].kind = "equity" =>
            LET b == proposal.forecast IN
            proposal.reference * (200 * MassOf(b) + b.near + 4 * b.middle + 10 * b.far)
                >= (Ask(t) + HalfSpread + ShareSlippage) * 200 * MassOf(b)]_sizingVars
  <2> SUFFICES ASSUME SizingIInv, [SizingNext]_sizingVars, NEW t \in Stocks, IsOrdered(t),
                      lots'[t].kind = "equity"
               PROVE  LET b == proposal.forecast IN
                      proposal.reference
                              * (200 * MassOf(b) + b.near + 4 * b.middle + 10 * b.far)
                          >= (Ask(t) + HalfSpread + ShareSlippage) * 200 * MassOf(b)
    OBVIOUS
  <2>1. Allocate /\ t = proposal.ticker BY OnlyAllocateOrders
  <2>2. /\ NewShares(t) \/ NewOption(t)
        /\ proposal \in Proposals /\ Dominant(proposal.forecast)
    BY <2>1, AllocateIs
  <2>3. ~NewOption(t) BY NewOptionFits DEF IsOrdered
  <2>4. ShareEligible(t, NetValue) BY <2>2, <2>3 DEF NewShares
  <2> QED BY <2>2, <2>4, SharesWithProfit
<1> QED BY <1>1, SizingIInvHolds, PTL DEF SizingSpec, NoChase

-----------------------------------------------------------------------------
(* A sorted enumeration *)

RankIn(S, key, i) == Cardinality({j \in S : Before(key, j, i)})

\* An element of a finite set has as many before it as its place says: each place but
\* the last has somebody.
LEMMA Ranks ==
    ASSUME NEW S \in SUBSET Nat, IsFiniteSet(S), NEW key \in [S -> Nat]
    PROVE  /\ Cardinality(S) \in Nat
           /\ \A i \in S : RankIn(S, key, i) \in 0..(Cardinality(S) - 1)
           /\ \A i, j \in S : Before(key, i, j) => RankIn(S, key, i) < RankIn(S, key, j)
           /\ \A i, j \in S : i # j => RankIn(S, key, i) # RankIn(S, key, j)
           /\ \A n \in 0..(Cardinality(S) - 1) : \E i \in S : RankIn(S, key, i) = n
<1> DEFINE below(i) == {j \in S : Before(key, j, i)}
           N == Cardinality(S)
           r == [i \in S |-> RankIn(S, key, i)]
<1>1. N \in Nat BY FS_CardinalityType
<1>2. \A i, j, k \in S : Before(key, i, j) /\ Before(key, j, k) => Before(key, i, k)
  BY DEF Before
<1>3. \A i \in S : ~Before(key, i, i) BY DEF Before
<1>4. \A i, j \in S : i # j => Before(key, i, j) \/ Before(key, j, i) BY DEF Before
<1>5. \A i \in S : below(i) \in SUBSET S /\ i \notin below(i) /\ IsFiniteSet(below(i))
                   /\ Cardinality(below(i)) \in Nat
  <2> SUFFICES ASSUME NEW i \in S
               PROVE  below(i) \in SUBSET S /\ i \notin below(i) /\ IsFiniteSet(below(i))
                      /\ Cardinality(below(i)) \in Nat
    OBVIOUS
  <2>1. below(i) \in SUBSET S /\ i \notin below(i) BY <1>3
  <2> HIDE DEF below
  <2>2. IsFiniteSet(below(i)) BY <2>1, FS_Subset
  <2> QED BY <2>1, <2>2, FS_CardinalityType
<1>6. \A i \in S : RankIn(S, key, i) = Cardinality(below(i)) BY DEF RankIn
<1>7. ASSUME NEW i \in S PROVE RankIn(S, key, i) \in 0..(N - 1)
  <2>1. below(i) \in SUBSET (S \ {i}) BY <1>5
  <2>2. IsFiniteSet(S \ {i}) /\ Cardinality(S \ {i}) = N - 1 BY FS_RemoveElement
  <2> HIDE DEF below
  <2>3. Cardinality(below(i)) <= N - 1 BY <2>1, <2>2, FS_Subset
  <2> QED BY <1>1, <1>5, <1>6, <2>3
<1>8. ASSUME NEW i \in S, NEW j \in S, Before(key, i, j)
      PROVE  RankIn(S, key, i) < RankIn(S, key, j)
  <2>1. below(i) \in SUBSET (below(j) \ {i}) BY <1>2, <1>3, <1>8
  <2>2. i \in below(j) BY <1>8
  <2> HIDE DEF below
  <2>3. IsFiniteSet(below(j) \ {i}) /\ Cardinality(below(j) \ {i}) = Cardinality(below(j)) - 1
    BY <1>5, <2>2, FS_RemoveElement
  <2>4. Cardinality(below(i)) <= Cardinality(below(j)) - 1 BY <2>1, <2>3, FS_Subset
  <2> QED BY <1>5, <1>6, <2>4
<1>9. \A i, j \in S : i # j => RankIn(S, key, i) # RankIn(S, key, j)
  <2> SUFFICES ASSUME NEW i \in S, NEW j \in S, i # j
               PROVE  RankIn(S, key, i) # RankIn(S, key, j)
    OBVIOUS
  <2>1. RankIn(S, key, i) \in Int /\ RankIn(S, key, j) \in Int BY <1>7
  <2>2. CASE Before(key, i, j) BY <1>8, <2>1, <2>2
  <2>3. CASE Before(key, j, i) BY <1>8, <2>1, <2>3
  <2> QED BY <1>4, <2>2, <2>3
<1> DEFINE T == 0..(N - 1)
<1>10. IsFiniteSet(T) /\ Cardinality(T) = N
  <2>1. 0 \in Int /\ N - 1 \in Int BY <1>1
  <2>2. IsFiniteSet(T) /\ Cardinality(T) = IF 0 > N - 1 THEN 0 ELSE N - 1 - 0 + 1
    BY <2>1, FS_Interval
  <2> QED BY <1>1, <2>2
<1>11. r \in Injection(S, T)
  <2>1. r \in [S -> T] BY <1>7
  <2>2. IsInjective(r) BY <1>9 DEF IsInjective
  <2> HIDE DEF r, T
  <2> QED BY <2>1, <2>2 DEF Injection
<1>12. r \in Surjection(S, T)
  <2> HIDE DEF r, T
  <2> QED BY <1>10, <1>11, FS_Injection
<1>13. ASSUME NEW n \in T PROVE \E i \in S : RankIn(S, key, i) = n
  <2>1. \E i \in S : r[i] = n
    <3> HIDE DEF r, T
    <3> QED BY <1>12, <1>13 DEF Surjection
  <2> QED BY <2>1
<1> QED BY <1>1, <1>7, <1>8, <1>9, <1>13

LEMMA DescendingRank ==
    ASSUME NEW S \in SUBSET Nat, IsFiniteSet(S), NEW key \in [S -> Nat]
    PROVE  \A n \in 1..Cardinality(S) : /\ Descending(S, key)[n] \in S
                                        /\ RankIn(S, key, Descending(S, key)[n]) = n - 1
<1> DEFINE N == Cardinality(S)
           d == Descending(S, key)
           r(i) == RankIn(S, key, i)
<1>1. N \in Nat BY FS_CardinalityType
<1>2. SUFFICES ASSUME NEW n \in 1..N PROVE d[n] \in S /\ r(d[n]) = n - 1 OBVIOUS
<1>3. d[n] = CHOOSE i \in S : r(i) = n - 1 BY DEF Descending, RankIn
<1>4. \E i \in S : r(i) = n - 1
  <2>1. n - 1 \in 0..(N - 1) BY <1>1
  <2> QED BY <2>1, Ranks
<1> HIDE DEF r
<1> QED BY <1>3, <1>4, Zenon

\* Descending lists each element once, and none before one that comes before it.
LEMMA DescendingIs ==
    ASSUME NEW S \in SUBSET Nat, IsFiniteSet(S), NEW key \in [S -> Nat]
    PROVE  LET d == Descending(S, key) IN
           /\ d \in Seq(S) /\ Len(d) = Cardinality(S) /\ Cardinality(S) \in Nat
           /\ \A i, j \in 1..Len(d) : i # j => d[i] # d[j]
           /\ \A x \in S : \E i \in 1..Len(d) : d[i] = x
           /\ \A i, j \in 1..Len(d) : i < j => Before(key, d[i], d[j])
<1> DEFINE N == Cardinality(S)
           d == Descending(S, key)
           r(i) == RankIn(S, key, i)
<1>1. N \in Nat BY FS_CardinalityType
<1>2. \A n \in 1..N : d[n] \in S /\ r(d[n]) = n - 1 BY DescendingRank
<1>3. d = [n \in 1..N |-> d[n]] BY DEF Descending
<1> HIDE DEF d, r
<1>4. d \in [1..N -> S] BY <1>2, <1>3
<1>5. d \in Seq(S) /\ Len(d) = N BY <1>1, <1>4
<1>6. \A i, j \in 1..N : i # j => d[i] # d[j] BY <1>1, <1>2
<1>7. ASSUME NEW x \in S PROVE \E i \in 1..N : d[i] = x
  <2>1. r(x) \in 0..(N - 1) BY Ranks DEF r
  <2> DEFINE i == r(x) + 1
  <2>2. i \in 1..N /\ i - 1 = r(x) BY <1>1, <2>1
  <2> HIDE DEF i
  <2>3. d[i] \in S /\ r(d[i]) = r(x) BY <1>2, <2>2
  <2>4. d[i] = x BY <2>3, Ranks DEF r
  <2> QED BY <2>2, <2>4
<1>8. ASSUME NEW i \in 1..N, NEW j \in 1..N, i < j PROVE Before(key, d[i], d[j])
  <2>1. /\ d[i] \in S /\ d[j] \in S /\ r(d[i]) = i - 1 /\ r(d[j]) = j - 1
    BY <1>2
  <2>2. ~Before(key, d[j], d[i])
    <3>1. Before(key, d[j], d[i]) => r(d[j]) < r(d[i]) BY <2>1, Ranks DEF r
    <3> QED BY <1>1, <1>8, <2>1, <3>1
  <2>3. d[i] # d[j] BY <1>1, <1>6, <1>8
  <2>4. \A x, y \in S : x # y => Before(key, x, y) \/ Before(key, y, x) BY DEF Before
  <2> QED BY <2>1, <2>2, <2>3, <2>4
<1> QED BY <1>1, <1>5, <1>6, <1>7, <1>8 DEF d

-----------------------------------------------------------------------------
(* A loop over a list *)

\* What holds at the start and after each step holds at every step.
LEMMA EachStep ==
    ASSUME NEW N \in Nat, NEW G, 0 \in G, \A n \in 0..(N - 1) : n \in G => n + 1 \in G
    PROVE  \A n \in 0..N : n \in G
<1> DEFINE Bad == {s \in SUBSET (0..N) : \E n \in 0..N : n \notin G /\ s = 0..n}
<1>1. SUFFICES ASSUME NEW b \in 0..N, b \notin G PROVE FALSE OBVIOUS
<1>2. 0..b \in Bad
  <2>1. 0..b \in SUBSET (0..N) OBVIOUS
  <2> QED BY <1>1, <2>1
<1>3. IsFiniteSet(0..N)
  <2>1. 0 \in Int /\ N \in Int OBVIOUS
  <2> QED BY <2>1, FS_Interval
<1>4. PICK m \in Bad : \A s \in Bad : s \subseteq m => s = m
  <2> DEFINE R == 0..N
  <2>1. Bad \in SUBSET SUBSET R /\ IsFiniteSet(R) BY <1>3
  <2>2. Bad # {} BY <1>2
  <2> HIDE DEF Bad, R
  <2> QED BY <2>1, <2>2, MinimalSubset
<1>5. PICK n \in 0..N : n \notin G /\ m = 0..n BY <1>4
<1>6. n # 0 BY <1>5
<1>7. n - 1 \notin G
  <2>1. n - 1 \in 0..(N - 1) /\ n - 1 + 1 = n BY <1>5, <1>6
  <2> QED BY <1>5, <2>1
<1>8. n - 1 \in 0..N /\ 0..(n - 1) \in SUBSET (0..N) BY <1>5, <1>6
<1>9. 0..(n - 1) \in Bad BY <1>7, <1>8
<1>10. 0..(n - 1) \subseteq m /\ n \in m /\ n \notin 0..(n - 1) BY <1>5, <1>6
<1> QED BY <1>4, <1>9, <1>10

Stepped(c, t, group, quota) == IF Takes(c, t, group, quota) THEN Append(c, t) ELSE c
RunsTo(h, n, chosen, list, group, quota) ==
    h = [i \in 0..n |-> IF i = 0 THEN chosen
                        ELSE IF Takes(h[i - 1], list[i], group, quota)
                             THEN Append(h[i - 1], list[i]) ELSE h[i - 1]]

LEMMA RunExists ==
    ASSUME NEW list, Len(list) \in Nat, NEW chosen, NEW group, NEW quota
    PROVE  \E h : RunsTo(h, Len(list), chosen, list, group, quota)
<1> DEFINE G == {n \in Nat : \E h : RunsTo(h, n, chosen, list, group, quota)}
           N == Len(list)
<1>1. 0 \in G
  <2> DEFINE h == [i \in 0..0 |-> chosen]
  <2>1. RunsTo(h, 0, chosen, list, group, quota) BY DEF RunsTo
  <2> HIDE DEF h
  <2> QED BY <2>1
<1>2. ASSUME NEW n \in 0..(N - 1), n \in G PROVE n + 1 \in G
  <2>1. PICK h : RunsTo(h, n, chosen, list, group, quota) BY <1>2
  <2> DEFINE g == [i \in 0..(n + 1) |->
                      IF i = n + 1 THEN Stepped(h[n], list[n + 1], group, quota) ELSE h[i]]
  <2>2. n \in Nat /\ n + 1 \in Nat BY <1>2
  <2>3. \A i \in 0..n : g[i] = h[i] BY <2>2
  <2>4. g[n + 1] = Stepped(h[n], list[n + 1], group, quota) BY <2>2
  <2>5. \A i \in 0..n : h[i] = IF i = 0 THEN chosen
                               ELSE Stepped(h[i - 1], list[i], group, quota)
    BY <2>1 DEF RunsTo, Stepped
  <2>6. \A i \in 0..(n + 1) : g[i] = IF i = 0 THEN chosen
                                     ELSE Stepped(g[i - 1], list[i], group, quota)
    <3> HIDE DEF g
    <3> SUFFICES ASSUME NEW i \in 0..(n + 1)
                 PROVE  g[i] = IF i = 0 THEN chosen
                               ELSE Stepped(g[i - 1], list[i], group, quota)
      OBVIOUS
    <3>1. CASE i = n + 1
      <4>1. i # 0 /\ i - 1 = n /\ n \in 0..n BY <2>2, <3>1
      <4> QED BY <2>3, <2>4, <3>1, <4>1
    <3>2. CASE i \in 0..n
      <4>1. i # 0 => i - 1 \in 0..n BY <2>2, <3>2
      <4> QED BY <2>3, <2>5, <3>2, <4>1
    <3> QED BY <2>2, <3>1, <3>2
  <2>7. g = [i \in 0..(n + 1) |-> g[i]] OBVIOUS
  <2> HIDE DEF g
  <2>8. g = [i \in 0..(n + 1) |-> IF i = 0 THEN chosen
                                  ELSE Stepped(g[i - 1], list[i], group, quota)]
    BY <2>6, <2>7, Zenon
  <2>9. RunsTo(g, n + 1, chosen, list, group, quota) BY <2>8, Zenon DEF RunsTo, Stepped
  <2> QED BY <2>2, <2>9
<1>3. N \in 0..N OBVIOUS
<1> HIDE DEF G, N
<1>4. \A n \in 0..N : n \in G
  <2>1. N \in Nat BY DEF N
  <2> QED BY <1>1, <1>2, <2>1, EachStep
<1>5. N \in G BY <1>3, <1>4
<1> QED BY <1>5 DEF G, N

\* The loop, step by step.
LEMMA FillIs ==
    ASSUME NEW list, Len(list) \in Nat, NEW chosen, NEW group, NEW quota
    PROVE  \E h : /\ h[0] = chosen
                  /\ \A i \in 1..Len(list) :
                        h[i] = Stepped(h[i - 1], list[i], group, quota)
                  /\ FillPlaces(chosen, list, group, quota) = h[Len(list)]
<1> DEFINE h == CHOOSE f : RunsTo(f, Len(list), chosen, list, group, quota)
<1>1. FillPlaces(chosen, list, group, quota) = h[Len(list)]
  BY Zenon DEF FillPlaces, RunsTo
<1>2. RunsTo(h, Len(list), chosen, list, group, quota) BY RunExists, Zenon
<1> HIDE DEF h
<1>3. h[0] = chosen BY <1>2 DEF RunsTo
<1>4. ASSUME NEW i \in 1..Len(list)
      PROVE  h[i] = Stepped(h[i - 1], list[i], group, quota)
  <2>1. i \in 0..Len(list) /\ i # 0 OBVIOUS
  <2> QED BY <1>2, <2>1 DEF RunsTo, Stepped
<1> QED BY <1>1, <1>3, <1>4

Distinct(c) == \A i, j \in 1..Len(c) : i # j => c[i] # c[j]

\* The places of a list without repetitions.
LEMMA Places ==
    ASSUME NEW c \in Seq(Symbols), Distinct(c)
    PROVE  /\ Len(c) \in Nat /\ Range(c) \in SUBSET Symbols /\ IsFiniteSet(Range(c))
           /\ Cardinality(Range(c)) = Len(c)
           /\ \A x \in Range(c) : \E i \in 1..Len(c) : c[i] = x
           /\ \A i \in 1..Len(c) : c[i] \in Range(c)
<1> DEFINE D == 1..Len(c)
           R == Range(c)
<1>1. Len(c) \in Nat /\ DOMAIN c = D /\ c \in [D -> Symbols] OBVIOUS
<1>2. R = {c[i] : i \in D} BY <1>1 DEF Range
<1>3. IsFiniteSet(D) /\ Cardinality(D) = Len(c)
  <2>1. 1 \in Int /\ Len(c) \in Int BY <1>1
  <2>2. IsFiniteSet(D) /\ Cardinality(D) = IF 1 > Len(c) THEN 0 ELSE Len(c) - 1 + 1
    BY <2>1, FS_Interval
  <2> QED BY <1>1, <2>2
<1> HIDE DEF R
<1>4. c \in Surjection(D, R) /\ c \in Injection(D, R)
  <2>1. c \in [D -> R] BY <1>1, <1>2
  <2>2. IsInjective(c) BY <1>1 DEF IsInjective, Distinct
  <2>3. \A x \in R : \E i \in D : c[i] = x BY <1>2
  <2> HIDE DEF D
  <2> QED BY <2>1, <2>2, <2>3 DEF Surjection, Injection
<1>5. IsFiniteSet(R) /\ Cardinality(R) = Cardinality(D)
  <2> HIDE DEF D
  <2> QED BY <1>3, <1>4, FS_Surjection
<1> QED BY <1>1, <1>2, <1>3, <1>5 DEF R

LEMMA Appended ==
    ASSUME NEW c \in Seq(Symbols), Distinct(c), NEW t \in Symbols, t \notin Range(c)
    PROVE  /\ Append(c, t) \in Seq(Symbols) /\ Distinct(Append(c, t))
           /\ Len(Append(c, t)) = Len(c) + 1
           /\ Range(Append(c, t)) = Range(c) \cup {t}
<1> DEFINE a == Append(c, t)
<1>1. /\ a \in Seq(Symbols) /\ Len(c) \in Nat /\ Len(a) = Len(c) + 1
      /\ \A i \in 1..Len(c) : a[i] = c[i]
      /\ a[Len(c) + 1] = t /\ DOMAIN a = 1..(Len(c) + 1) /\ DOMAIN c = 1..Len(c)
  OBVIOUS
<1> HIDE DEF a
<1>2. \A i \in 1..Len(c) : c[i] # t BY <1>1 DEF Range
<1>3. Distinct(a) BY <1>1, <1>2 DEF Distinct
<1>4. Range(a) = Range(c) \cup {t} BY <1>1 DEF Range
<1> QED BY <1>1, <1>3, <1>4 DEF a

\* Where a loop stands that has looked at n elements of its list.
Full(c, group, quota) == Len(c) >= Top \/ Cardinality(group \cap Range(c)) >= quota
Loop(c, n, chosen, list, group, quota) ==
    /\ c \in Seq(Symbols) /\ Distinct(c) /\ Len(c) <= Top
    /\ Range(chosen) \subseteq Range(c)
    /\ \A y \in Range(c) \ Range(chosen) : \E m \in 1..n : list[m] = y
    /\ \A k \in 1..n : list[k] \notin Range(c) =>
            /\ Full(c, group, quota)
            /\ \A y \in Range(c) \ Range(chosen) : \E m \in 1..(k - 1) : list[m] = y
    /\ (\A k \in 1..n : list[k] \in group) =>
            Cardinality(Range(c) \ Range(chosen)) <= quota

LEMMA LoopStep ==
    ASSUME ChoiceConstantsOK, NEW chosen \in Seq(Symbols), NEW list \in Seq(Symbols),
           NEW group \in SUBSET Symbols, NEW quota \in Nat,
           NEW c, NEW n \in 1..Len(list), Loop(c, n - 1, chosen, list, group, quota)
    PROVE  Loop(Stepped(c, list[n], group, quota), n, chosen, list, group, quota)
<1> DEFINE t == list[n]
           R == Range(c)
           Q == Range(chosen)
           N == Len(list)
<1>1. /\ c \in Seq(Symbols) /\ Distinct(c) /\ Len(c) <= Top /\ Q \subseteq R
      /\ \A y \in R \ Q : \E m \in 1..(n - 1) : list[m] = y
      /\ \A k \in 1..(n - 1) : list[k] \notin R =>
            /\ Full(c, group, quota)
            /\ \A y \in R \ Q : \E m \in 1..(k - 1) : list[m] = y
      /\ (\A k \in 1..(n - 1) : list[k] \in group) => Cardinality(R \ Q) <= quota
  BY DEF Loop
<1>2. /\ n \in Nat /\ n >= 1 /\ n <= N /\ N \in Nat /\ t \in Symbols /\ n \in 1..n
      /\ 1..(n - 1) \subseteq 1..n /\ Top \in Nat
  BY DEF ChoiceConstantsOK
<1>3. /\ Len(c) \in Nat /\ R \in SUBSET Symbols /\ IsFiniteSet(R)
  BY <1>1, Places
<1>4. /\ IsFiniteSet(group \cap R) /\ Cardinality(group \cap R) \in Nat
      /\ IsFiniteSet(R \ Q) /\ Cardinality(R \ Q) \in Nat
  BY <1>3, FS_Subset, FS_CardinalityType
<1>5. \A k \in 1..n : k = n \/ k \in 1..(n - 1) BY <1>2
<1> HIDE DEF t, R, Q, N
<1>6. CASE ~Takes(c, t, group, quota)
  <2>1. Stepped(c, t, group, quota) = c BY <1>6 DEF Stepped
  <2>2. t \in R \/ Full(c, group, quota)
    BY <1>2, <1>3, <1>4, <1>6 DEF Takes, Full, R
  <2>3. \A y \in R \ Q : \E m \in 1..n : list[m] = y BY <1>1, <1>2
  <2>4. \A k \in 1..n : list[k] \notin R =>
            /\ Full(c, group, quota)
            /\ \A y \in R \ Q : \E m \in 1..(k - 1) : list[m] = y
    BY <1>1, <1>5, <2>2 DEF t
  <2>5. (\A k \in 1..n : list[k] \in group) => Cardinality(R \ Q) <= quota
    BY <1>1, <1>2
  <2> QED BY <1>1, <2>1, <2>3, <2>4, <2>5 DEF Loop, R, Q, t
<1>7. CASE Takes(c, t, group, quota)
  <2> DEFINE a == Append(c, t)
             A == Range(a)
  <2>1. Stepped(c, t, group, quota) = a BY <1>7 DEF Stepped
  <2>2. t \notin R /\ Len(c) < Top /\ Cardinality(group \cap R) < quota
    BY <1>7 DEF Takes, R
  <2>3. a \in Seq(Symbols) /\ Distinct(a) /\ Len(a) = Len(c) + 1 /\ A = R \cup {t}
    BY <1>1, <1>2, <2>2, Appended DEF R
  <2>4. Len(a) <= Top BY <1>2, <1>3, <2>2, <2>3
  <2> HIDE DEF a, A
  <2>5. ~Full(c, group, quota) BY <1>2, <1>3, <1>4, <2>2 DEF Full, R
  <2>6. \A k \in 1..n : list[k] \in A
    BY <1>1, <1>5, <2>3, <2>5 DEF t
  <2>7. \A y \in A \ Q : \E m \in 1..n : list[m] = y
    <3>1. list[n] = t BY DEF t
    <3> QED BY <1>1, <1>2, <2>3, <3>1
  <2>8. ASSUME \A k \in 1..n : list[k] \in group PROVE Cardinality(A \ Q) <= quota
    <3>1. R \ Q \in SUBSET (group \cap R) BY <1>1, <1>2, <2>8
    <3>2. Cardinality(R \ Q) <= Cardinality(group \cap R) BY <1>4, <3>1, FS_Subset
    <3>3. A \ Q = (R \ Q) \cup {t} BY <1>1, <2>2, <2>3
    <3> DEFINE X == R \ Q
               n1 == Cardinality(X)
               g1 == Cardinality(group \cap R)
    <3>4. IsFiniteSet(X) /\ n1 \in Nat /\ g1 \in Nat /\ n1 <= g1 /\ g1 < quota
      BY <1>4, <2>2, <3>2
    <3>5. A \ Q = X \cup {t} BY <3>3
    <3>6. t \notin X BY <2>2
    <3> HIDE DEF X
    <3>7. Cardinality(X \cup {t}) = n1 + 1
      BY <3>4, <3>6, FS_AddElement
    <3> HIDE DEF n1, g1
    <3>8. n1 + 1 <= quota BY <3>4
    <3>9. Cardinality(A \ Q) = n1 + 1 BY <3>5, <3>7, Zenon
    <3> QED BY <3>8, <3>9
  <2> QED BY <1>1, <2>1, <2>3, <2>4, <2>6, <2>7, <2>8 DEF Loop, R, Q, A, t
<1> QED BY <1>6, <1>7 DEF t

LEMMA FillLoops ==
    ASSUME ChoiceConstantsOK, NEW chosen \in Seq(Symbols), Distinct(chosen),
           Len(chosen) <= Top, NEW list \in Seq(Symbols),
           NEW group \in SUBSET Symbols, NEW quota \in Nat
    PROVE  Loop(FillPlaces(chosen, list, group, quota), Len(list),
                chosen, list, group, quota)
<1> DEFINE N == Len(list)
<1>1. N \in Nat OBVIOUS
<1>2. PICK h : /\ h[0] = chosen
               /\ \A i \in 1..N : h[i] = Stepped(h[i - 1], list[i], group, quota)
               /\ FillPlaces(chosen, list, group, quota) = h[N]
  BY <1>1, FillIs
<1> DEFINE G == {n \in Nat : Loop(h[n], n, chosen, list, group, quota)}
<1>3. 0 \in G
  <2> DEFINE none == Range(chosen) \ Range(chosen)
  <2>1. none = {} OBVIOUS
  <2>2. Cardinality(none) = 0
    <3> HIDE DEF none
    <3> QED BY <2>1, FS_EmptySet
  <2>3. Loop(chosen, 0, chosen, list, group, quota)
    <3>1. \A y \in Range(chosen) \ Range(chosen) : \E m \in 1..0 : list[m] = y OBVIOUS
    <3>2. \A k \in 1..0 : FALSE OBVIOUS
    <3>3. Cardinality(Range(chosen) \ Range(chosen)) <= quota
      <4>1. Cardinality(none) <= quota
        <5> HIDE DEF none
        <5> QED BY <2>2
      <4> QED BY <4>1
    <3> QED BY <3>1, <3>2, <3>3 DEF Loop
  <2> QED BY <1>2, <2>3
<1>4. ASSUME NEW n \in 0..(N - 1), n \in G PROVE n + 1 \in G
  <2>1. n + 1 \in 1..N /\ n + 1 - 1 = n /\ n + 1 \in Nat BY <1>1
  <2>2. Loop(h[n], n, chosen, list, group, quota) BY <1>4
  <2>3. h[n + 1] = Stepped(h[n], list[n + 1], group, quota) BY <1>2, <2>1
  <2>4. Loop(h[n + 1], n + 1, chosen, list, group, quota)
    BY <2>1, <2>2, <2>3, LoopStep
  <2> QED BY <2>1, <2>4
<1>5. N \in 0..N BY <1>1
<1> HIDE DEF G, N
<1>6. N \in G BY <1>1, <1>3, <1>4, <1>5, EachStep
<1> QED BY <1>2, <1>6 DEF G, N

-----------------------------------------------------------------------------
(* _select_technical_candidates *)

LEMMA Symbolic ==
    ASSUME ChoiceConstantsOK, ChoiceTypeOK
    PROVE  /\ Symbols \in SUBSET Nat
           /\ Screened \in SUBSET Symbols /\ IsFiniteSet(Screened)
           /\ Cardinality(Screened) \in Nat
           /\ \A d \in Directions :
                 /\ Toward(d) \in SUBSET Screened /\ IsFiniteSet(Toward(d))
                 /\ Cardinality(Toward(d)) \in Nat
           /\ \A t \in Symbols : seeds[t].score \in Nat /\ seeds[t].reported \in Nat
<1>1. Symbols \in SUBSET Nat /\ IsFiniteSet(Symbols) BY DEF ChoiceConstantsOK
<1>2. Screened \in SUBSET Symbols BY DEF Screened
<1>3. IsFiniteSet(Screened) BY <1>1, <1>2, FS_Subset
<1>4. \A d \in Directions : Toward(d) \in SUBSET Screened BY DEF Toward
<1>5. \A d \in Directions : IsFiniteSet(Toward(d)) BY <1>3, <1>4, FS_Subset
<1>6. \A t \in Symbols : seeds[t].score \in Nat /\ seeds[t].reported \in Nat
  BY DEF ChoiceTypeOK, ChoiceConstantsOK, Seed
<1> QED BY <1>1, <1>2, <1>3, <1>4, <1>5, <1>6, FS_CardinalityType

LEMMA SeqWithin ==
    ASSUME NEW U, NEW S \in SUBSET U, NEW s \in Seq(S) PROVE s \in Seq(U)
<1>1. Len(s) \in Nat /\ s \in [1..Len(s) -> S] OBVIOUS
<1>2. s \in [1..Len(s) -> U] BY <1>1
<1> QED BY <1>1, <1>2

\* A list of candidates, the best first.
LEMMA CandidatesAre ==
    ASSUME ChoiceConstantsOK, ChoiceTypeOK, NEW S \in SUBSET Screened
    PROVE  LET l == Candidates(S) IN
           /\ l \in Seq(Symbols) /\ \A i \in 1..Len(l) : l[i] \in S
           /\ \A x \in S : \E i \in 1..Len(l) : l[i] = x
           /\ \A i, j \in 1..Len(l) : i < j => seeds[l[i]].score >= seeds[l[j]].score
<1> DEFINE l == Candidates(S)
           key == [t \in S |-> seeds[t].score]
<1>1. /\ S \in SUBSET Symbols /\ S \in SUBSET Nat /\ IsFiniteSet(S)
      /\ \A t \in S : seeds[t].score \in Nat
  BY Symbolic, FS_Subset
<1>2. key \in [S -> Nat] /\ \A t \in S : key[t] = seeds[t].score BY <1>1
<1>3. l = Descending(S, key) BY DEF Candidates
<1> HIDE DEF key, l
<1>4. /\ l \in Seq(S) /\ \A x \in S : \E i \in 1..Len(l) : l[i] = x
      /\ \A i, j \in 1..Len(l) : i < j => Before(key, l[i], l[j])
  BY <1>1, <1>2, <1>3, DescendingIs
<1>5. l \in Seq(Symbols) BY <1>1, <1>4, SeqWithin
<1>6. \A i \in 1..Len(l) : l[i] \in S BY <1>4
<1>7. ASSUME NEW i \in 1..Len(l), NEW j \in 1..Len(l), i < j
      PROVE  seeds[l[i]].score >= seeds[l[j]].score
  <2>1. /\ Before(key, l[i], l[j]) /\ l[i] \in S /\ l[j] \in S
    BY <1>4, <1>6, <1>7
  <2>2. /\ key[l[i]] = seeds[l[i]].score /\ key[l[j]] = seeds[l[j]].score
        /\ seeds[l[i]].score \in Nat /\ seeds[l[j]].score \in Nat
    BY <1>1, <1>2, <2>1
  <2> QED BY <2>1, <2>2 DEF Before
<1> QED BY <1>4, <1>5, <1>6, <1>7 DEF l

LEMMA FirstIs ==
    ASSUME NEW U, NEW s \in Seq(U), NEW n \in Nat
    PROVE  /\ First(s, n) \in Seq(U) /\ Len(First(s, n)) \in Nat
           /\ Len(First(s, n)) = (IF n < Len(s) THEN n ELSE Len(s))
           /\ \A i \in 1..Len(First(s, n)) : i \in 1..Len(s) /\ First(s, n)[i] = s[i]
<1> DEFINE m == IF n < Len(s) THEN n ELSE Len(s)
<1>1. Len(s) \in Nat /\ m \in Nat /\ m <= Len(s) OBVIOUS
<1>2. First(s, n) = SubSeq(s, 1, m) BY DEF First
<1> HIDE DEF m
<1>3. First(s, n) \in Seq(U) /\ Len(First(s, n)) = m BY <1>1, <1>2
<1>4. \A i \in 1..m : i \in 1..Len(s) /\ First(s, n)[i] = s[i] BY <1>1, <1>2
<1> QED BY <1>1, <1>3, <1>4 DEF m

\* The reported tickers take the places of their priority at most.
LEMMA EarningsFit ==
    ASSUME ChoiceConstantsOK, ChoiceTypeOK
    PROVE  /\ Earnings \in Seq(Symbols) /\ Distinct(Earnings)
           /\ Range(Earnings) \in SUBSET Screened
           /\ Len(Earnings) \in Nat /\ Len(Earnings) <= Priority
<1> DEFINE S == {t \in Screened : Reported(t)}
           key == [t \in S |-> seeds[t].reported * (MaxScore + 1) + seeds[t].score]
           d == Descending(S, key)
           l == First(d, Priority)
           none == <<>>
           e == FillPlaces(none, l, Screened, Top)
           L == {l[i] : i \in 1..Len(l)}
<1>1. Earnings = e BY DEF Earnings
<1>2. /\ S \in SUBSET Screened /\ S \in SUBSET Symbols /\ S \in SUBSET Nat
      /\ IsFiniteSet(S) /\ IsFiniteSet(Screened) /\ Screened \in SUBSET Symbols
  BY Symbolic, FS_Subset
<1>3. key \in [S -> Nat]
  <2>1. \A t \in S : seeds[t].reported * (MaxScore + 1) + seeds[t].score \in Nat
    BY <1>2, Symbolic DEF ChoiceConstantsOK
  <2> QED BY <2>1
<1>4. Top \in Nat /\ Priority \in Nat BY DEF ChoiceConstantsOK
<1> HIDE DEF S, key
<1>5. d \in Seq(S) /\ \A i, j \in 1..Len(d) : i # j => d[i] # d[j]
  BY <1>2, <1>3, DescendingIs
<1> HIDE DEF d
<1>6. /\ l \in Seq(S) /\ Len(l) \in Nat /\ Len(l) <= Priority
      /\ \A i \in 1..Len(l) : i \in 1..Len(d) /\ l[i] = d[i]
  <2>1. Len(d) \in Nat BY <1>5
  <2> QED BY <1>4, <1>5, <2>1, FirstIs
<1> HIDE DEF l
<1>7. l \in Seq(Symbols) /\ Distinct(l) /\ L \in SUBSET S
  <2>1. l \in Seq(Symbols) BY <1>2, <1>6, SeqWithin
  <2>2. Distinct(l) BY <1>5, <1>6 DEF Distinct
  <2>3. L \in SUBSET S BY <1>6
  <2> QED BY <2>1, <2>2, <2>3
<1>8. IsFiniteSet(L) /\ Cardinality(L) = Len(l)
  <2>1. Range(l) = L BY <1>6 DEF Range
  <2> QED BY <1>7, <2>1, Places
<1>9. none \in Seq(Symbols) /\ Distinct(none) /\ Len(none) <= Top /\ Range(none) = {}
  BY <1>4 DEF Distinct, Range
<1> HIDE DEF none
<1>10. Loop(e, Len(l), none, l, Screened, Top)
  BY <1>2, <1>4, <1>7, <1>9, FillLoops
<1> HIDE DEF e
<1>11. /\ e \in Seq(Symbols) /\ Distinct(e)
       /\ \A y \in Range(e) \ Range(none) : \E m \in 1..Len(l) : l[m] = y
  BY <1>10 DEF Loop
<1>12. Range(e) \in SUBSET L BY <1>9, <1>11
<1> HIDE DEF L
<1>13. Cardinality(Range(e)) <= Cardinality(L) BY <1>8, <1>12, FS_Subset
<1>14. Len(e) \in Nat /\ Cardinality(Range(e)) = Len(e) BY <1>11, Places
<1>15. Len(e) <= Priority BY <1>4, <1>6, <1>8, <1>13, <1>14
<1> QED BY <1>1, <1>2, <1>7, <1>11, <1>12, <1>14, <1>15

\* A reservation takes no more than its places, and has them taken if there are the
\* candidates.
LEMMA ReserveIs ==
    ASSUME ChoiceConstantsOK, ChoiceTypeOK, NEW d \in Directions,
           NEW chosen \in Seq(Symbols), Distinct(chosen),
           Range(chosen) \in SUBSET Screened, Len(chosen) + PerDirection <= Top
    PROVE  LET c == Reserve(d, chosen) IN
           /\ c \in Seq(Symbols) /\ Distinct(c) /\ Range(c) \in SUBSET Screened
           /\ Range(chosen) \in SUBSET Range(c)
           /\ Len(c) \in Nat /\ Len(c) <= Len(chosen) + PerDirection
           /\ Cardinality(Range(c) \cap Toward(d))
                 >= AtMost(PerDirection, Cardinality(Toward(d)))
<1> DEFINE c == Reserve(d, chosen)
           W == Toward(d)
           l == Candidates(W)
           R == Range(c)
           Q == Range(chosen)
           X == R \ Q
           Y == R \cap W
<1>1. /\ W \in SUBSET Screened /\ W \in SUBSET Symbols /\ IsFiniteSet(W)
      /\ Cardinality(W) \in Nat
  BY Symbolic
<1>2. Top \in Nat /\ PerDirection \in Nat BY DEF ChoiceConstantsOK
<1>3. Len(chosen) \in Nat /\ Cardinality(Q) = Len(chosen) /\ IsFiniteSet(Q)
  BY Places
<1>4. c = FillPlaces(chosen, l, W, PerDirection) BY DEF Reserve
<1> HIDE DEF W, c
<1>5. /\ l \in Seq(Symbols) /\ \A i \in 1..Len(l) : l[i] \in W
      /\ \A x \in W : \E i \in 1..Len(l) : l[i] = x
  BY <1>1, CandidatesAre
<1> HIDE DEF l
<1>6. Loop(c, Len(l), chosen, l, W, PerDirection)
  BY <1>1, <1>2, <1>3, <1>4, <1>5, FillLoops
<1>7. /\ c \in Seq(Symbols) /\ Distinct(c) /\ Q \subseteq R
      /\ \A y \in X : \E m \in 1..Len(l) : l[m] = y
      /\ \A k \in 1..Len(l) : l[k] \notin R => Full(c, W, PerDirection)
      /\ Cardinality(X) <= PerDirection
  BY <1>5, <1>6 DEF Loop
<1>8. /\ Len(c) \in Nat /\ Cardinality(R) = Len(c) /\ IsFiniteSet(R)
  BY <1>7, Places
<1>9. X \in SUBSET W /\ X \in SUBSET Y /\ R \in SUBSET Screened BY <1>1, <1>5, <1>7
<1> HIDE DEF R, Q
<1>10. /\ IsFiniteSet(X) /\ IsFiniteSet(Y) /\ Cardinality(X) \in Nat /\ Cardinality(Y) \in Nat
  BY <1>8, FS_Subset, FS_CardinalityType
<1>11. Len(c) = Len(chosen) + Cardinality(X)
  <2>1. R = Q \cup X /\ Q \cap X = {} BY <1>7
  <2> HIDE DEF X
  <2>2. Cardinality(Q \cup X) = Cardinality(Q) + Cardinality(X) - Cardinality(Q \cap X)
    BY <1>3, <1>10, FS_Union
  <2>3. Cardinality(Q \cap X) = 0 BY <2>1, FS_EmptySet
  <2>4. Cardinality(R) = Cardinality(Q) + Cardinality(X) - 0
    BY <2>1, <2>2, <2>3, Zenon
  <2> QED BY <1>3, <1>8, <1>10, <2>4
<1>12. Cardinality(X) <= Cardinality(Y)
  <2> HIDE DEF X, Y
  <2> QED BY <1>9, <1>10, FS_Subset
<1>13. Cardinality(Y) >= AtMost(PerDirection, Cardinality(W))
  <2>1. CASE \E k \in 1..Len(l) : l[k] \notin R
    <3>1. Full(c, W, PerDirection) BY <1>7, <2>1
    <3>2. W \cap R = Y OBVIOUS
    <3>3. Len(c) >= Top \/ Cardinality(Y) >= PerDirection
      BY <3>1, <3>2 DEF Full, R
    <3> HIDE DEF X, Y
    <3>4. Cardinality(Y) >= PerDirection
      BY <1>2, <1>3, <1>8, <1>10, <1>11, <1>12, <3>3
    <3> QED BY <1>1, <1>2, <1>10, <3>4 DEF AtMost
  <2>2. CASE \A k \in 1..Len(l) : l[k] \in R
    <3>1. Y = W BY <1>5, <2>2
    <3>2. Cardinality(Y) = Cardinality(W) BY <3>1
    <3> HIDE DEF Y
    <3> QED BY <1>1, <1>2, <1>10, <3>2 DEF AtMost
  <2> QED BY <2>1, <2>2
<1>14. Len(c) <= Len(chosen) + PerDirection
  <2> HIDE DEF X
  <2> QED BY <1>2, <1>3, <1>7, <1>10, <1>11
<1> QED BY <1>7, <1>8, <1>9, <1>13, <1>14 DEF c, R, Q, W

\* What the technical lines select.
LEMMA SelectionIs ==
    ASSUME ChoiceConstantsOK, ChoiceTypeOK
    PROVE  LET R == Range(Selection) IN
           /\ Selection \in Seq(Symbols)
           /\ Len(Selection) = AtMost(Top, Cardinality(Screened))
           /\ Cardinality(R) = Len(Selection)
           /\ \A d \in Directions :
                 Cardinality(R \cap Toward(d))
                     >= AtMost(PerDirection, Cardinality(Toward(d)))
           /\ \A out \in Screened \ R :
                 Cardinality({t \in R : seeds[t].score < seeds[out].score})
                     <= Priority + 2 * PerDirection
<1> DEFINE up == Reserve("bullish", Earnings)
           both == Reserve("bearish", up)
           l == Candidates(Screened)
           c == Selection
           R == Range(c)
           Q == Range(both)
           N == Cardinality(Screened)
<1>1. /\ IsFiniteSet(Screened) /\ Screened \in SUBSET Symbols /\ N \in Nat
      /\ \A t \in Symbols : seeds[t].score \in Nat
  BY Symbolic
<1>2. /\ Top \in Nat /\ PerDirection \in Nat /\ Priority \in Nat
      /\ Priority + 2 * PerDirection <= Top
  BY DEF ChoiceConstantsOK
<1>3. /\ Earnings \in Seq(Symbols) /\ Distinct(Earnings)
      /\ Range(Earnings) \in SUBSET Screened
      /\ Len(Earnings) \in Nat /\ Len(Earnings) <= Priority
  BY EarningsFit
<1>4. /\ up \in Seq(Symbols) /\ Distinct(up) /\ Range(up) \in SUBSET Screened
      /\ Len(up) \in Nat /\ Len(up) <= Len(Earnings) + PerDirection
      /\ Cardinality(Range(up) \cap Toward("bullish"))
             >= AtMost(PerDirection, Cardinality(Toward("bullish")))
  <2>1. "bullish" \in Directions /\ Len(Earnings) + PerDirection <= Top
    BY <1>2, <1>3 DEF Directions
  <2> QED BY <1>3, <2>1, ReserveIs
<1> HIDE DEF up
<1>5. /\ both \in Seq(Symbols) /\ Distinct(both) /\ Q \in SUBSET Screened
      /\ Range(up) \in SUBSET Q
      /\ Len(both) \in Nat /\ Len(both) <= Len(up) + PerDirection
      /\ Cardinality(Q \cap Toward("bearish"))
             >= AtMost(PerDirection, Cardinality(Toward("bearish")))
  <2>1. "bearish" \in Directions /\ Len(up) + PerDirection <= Top
    BY <1>2, <1>3, <1>4 DEF Directions
  <2> QED BY <1>4, <2>1, ReserveIs
<1>6. Len(both) <= Priority + 2 * PerDirection BY <1>2, <1>3, <1>4, <1>5
<1>7. c = FillPlaces(both, l, Screened, Top) BY DEF Selection, up
<1> HIDE DEF both, c
<1>8. /\ l \in Seq(Symbols) /\ \A i \in 1..Len(l) : l[i] \in Screened
      /\ \A x \in Screened : \E i \in 1..Len(l) : l[i] = x
      /\ \A i, j \in 1..Len(l) : i < j => seeds[l[i]].score >= seeds[l[j]].score
  BY <1>1, CandidatesAre
<1> HIDE DEF l
<1>9. Loop(c, Len(l), both, l, Screened, Top)
  BY <1>1, <1>2, <1>5, <1>6, <1>7, <1>8, FillLoops
<1>10. /\ c \in Seq(Symbols) /\ Distinct(c) /\ Len(c) <= Top /\ Q \subseteq R
       /\ \A y \in R \ Q : \E m \in 1..Len(l) : l[m] = y
       /\ \A k \in 1..Len(l) : l[k] \notin R =>
             /\ Full(c, Screened, Top)
             /\ \A y \in R \ Q : \E m \in 1..(k - 1) : l[m] = y
  BY <1>9 DEF Loop
<1>11. /\ Len(c) \in Nat /\ Cardinality(R) = Len(c) /\ IsFiniteSet(R)
       /\ Cardinality(Q) = Len(both) /\ IsFiniteSet(Q)
  BY <1>5, <1>10, Places
<1>12. R \in SUBSET Screened BY <1>5, <1>8, <1>10
<1>13. Len(c) <= N /\ Len(c) <= Top BY <1>1, <1>10, <1>11, <1>12, FS_Subset
<1>14. Len(c) = AtMost(Top, N)
  <2>1. CASE \E k \in 1..Len(l) : l[k] \notin R
    <3>1. Full(c, Screened, Top) BY <1>10, <2>1
    <3>2. Screened \cap R = R BY <1>12
    <3>3. Len(c) >= Top BY <1>11, <3>1, <3>2 DEF Full
    <3> HIDE DEF N
    <3> QED BY <1>1, <1>2, <1>11, <1>13, <3>3 DEF AtMost
  <2>2. CASE \A k \in 1..Len(l) : l[k] \in R
    <3>1. R = Screened BY <1>8, <1>12, <2>2
    <3>2. Len(c) = N BY <1>11, <3>1
    <3> HIDE DEF N
    <3> QED BY <1>1, <1>2, <1>11, <1>13, <3>2 DEF AtMost
  <2> QED BY <2>1, <2>2
<1>15. ASSUME NEW d \in Directions, NEW P \in SUBSET R,
              Cardinality(P \cap Toward(d)) >= AtMost(PerDirection, Cardinality(Toward(d)))
       PROVE  Cardinality(R \cap Toward(d)) >= AtMost(PerDirection, Cardinality(Toward(d)))
  <2> DEFINE A == P \cap Toward(d)
             B == R \cap Toward(d)
             n == AtMost(PerDirection, Cardinality(Toward(d)))
  <2>1. A \in SUBSET B /\ A \in SUBSET R /\ B \in SUBSET R OBVIOUS
  <2>2. n \in Nat BY <1>2, Symbolic DEF AtMost
  <2>3. Cardinality(A) >= n BY <1>15
  <2> HIDE DEF A, B, R, n
  <2>4. /\ IsFiniteSet(A) /\ IsFiniteSet(B) /\ Cardinality(A) \in Nat
        /\ Cardinality(B) \in Nat
    BY <1>11, <2>1, FS_Subset, FS_CardinalityType
  <2>5. Cardinality(A) <= Cardinality(B) BY <2>1, <2>4, FS_Subset
  <2>6. Cardinality(B) >= n BY <2>2, <2>3, <2>4, <2>5
  <2> QED BY <2>6 DEF B, n
<1>16. ASSUME NEW d \in Directions
       PROVE  Cardinality(R \cap Toward(d)) >= AtMost(PerDirection, Cardinality(Toward(d)))
  <2>1. Q \in SUBSET R /\ Range(up) \in SUBSET R BY <1>5, <1>10
  <2> HIDE DEF R, Q
  <2>2. CASE d = "bullish" BY <1>4, <1>15, <2>1, <2>2
  <2>3. CASE d = "bearish" BY <1>5, <1>15, <2>1, <2>3
  <2> QED BY <2>2, <2>3 DEF Directions
<1>17. ASSUME NEW out \in Screened \ R
       PROVE  Cardinality({t \in R : seeds[t].score < seeds[out].score})
                  <= Priority + 2 * PerDirection
  <2> DEFINE worse == {t \in R : seeds[t].score < seeds[out].score}
  <2>1. PICK k \in 1..Len(l) : l[k] = out BY <1>8
  <2>2. \A y \in R \ Q : seeds[y].score >= seeds[out].score
    <3> SUFFICES ASSUME NEW y \in R \ Q PROVE seeds[y].score >= seeds[out].score OBVIOUS
    <3>1. PICK m \in 1..(k - 1) : l[m] = y BY <1>10, <1>17, <2>1
    <3>2. m \in 1..Len(l) /\ m < k BY <2>1, <3>1
    <3> QED BY <1>8, <2>1, <3>1, <3>2
  <2>3. worse \in SUBSET Q
    <3>1. \A t \in R : seeds[t].score \in Nat BY <1>1, <1>12
    <3>2. seeds[out].score \in Nat BY <1>1
    <3> QED BY <2>2, <3>1, <3>2
  <2> HIDE DEF worse, Q
  <2>4. Cardinality(worse) <= Cardinality(Q) /\ Cardinality(worse) \in Nat
    BY <1>11, <2>3, FS_Subset, FS_CardinalityType
  <2>5. Cardinality(worse) <= Priority + 2 * PerDirection
    BY <1>2, <1>5, <1>6, <1>11, <2>4
  <2> QED BY <2>5 DEF worse
<1> QED BY <1>10, <1>11, <1>14, <1>16, <1>17 DEF c

-----------------------------------------------------------------------------
(* Types *)

LEMMA MergedIs ==
    ASSUME ChoiceConstantsOK, ChoiceTypeOK,
           NEW given \in SUBSET Symbols, NEW found \in SUBSET Symbols
    PROVE  Merged(given, found) \in Seq(Symbols)
<1> DEFINE S == given \cup found
           key == [t \in S |-> IF t \in found THEN seeds[t].score ELSE SeedScore]
           d == Descending(S, key)
<1>1. S \in SUBSET Symbols /\ S \in SUBSET Nat /\ IsFiniteSet(S) /\ Limit \in Nat
  <2>1. S \in SUBSET Symbols OBVIOUS
  <2> HIDE DEF S
  <2> QED BY <2>1, FS_Subset DEF ChoiceConstantsOK
<1>2. key \in [S -> Nat]
  <2>1. \A t \in S : (IF t \in found THEN seeds[t].score ELSE SeedScore) \in Nat
    BY Symbolic DEF SeedScore
  <2> QED BY <2>1
<1>3. Merged(given, found) = First(d, Limit) BY DEF Merged
<1> HIDE DEF S, key
<1>4. d \in Seq(S) BY <1>1, <1>2, DescendingIs
<1>5. d \in Seq(Symbols) BY <1>1, <1>4, SeqWithin
<1> HIDE DEF d
<1> QED BY <1>1, <1>3, <1>5, FirstIs

\* What the validation keeps of an answer: of each ticker one item, and only of the
\* tickers that are valid.
LEMMA RankingIs ==
    ASSUME ChoiceConstantsOK, NEW n \in Nat, NEW answer \in [1..n -> Item],
           NEW valid \in SUBSET (1..n)
    PROVE  LET r == Ranking(answer, valid) IN
           /\ r \in Seq(Item)
           /\ \A i \in 1..Len(r) : \E k \in valid : r[i] = answer[k]
           /\ \A i, j \in 1..Len(r) : r[i].ticker = r[j].ticker => i = j
<1> DEFINE kept == {i \in valid : \A j \in valid :
                                     j < i => answer[j].ticker # answer[i].ticker}
           key == [i \in kept |-> answer[i].score]
           order == Descending(kept, key)
           r == Ranking(answer, valid)
<1>1. /\ kept \in SUBSET valid /\ kept \in SUBSET Nat /\ IsFiniteSet(kept)
      /\ kept \in SUBSET (1..n)
  <2>0. kept \in SUBSET valid OBVIOUS
  <2> HIDE DEF kept
  <2>1. kept \in SUBSET valid /\ kept \in SUBSET Nat /\ kept \in SUBSET (1..n) BY <2>0
  <2>2. 1 \in Int /\ n \in Int OBVIOUS
  <2> DEFINE D == 1..n
  <2>3. IsFiniteSet(D) BY <2>2, FS_Interval
  <2>4. kept \in SUBSET D BY <2>1
  <2> HIDE DEF D
  <2> QED BY <2>1, <2>3, <2>4, FS_Subset
<1>2. key \in [kept -> Nat]
  <2>1. \A i \in kept : answer[i].score \in Nat
    BY <1>1 DEF Item, ChoiceConstantsOK
  <2> QED BY <2>1
<1>3. \A i, j \in kept : i # j => answer[i].ticker # answer[j].ticker BY <1>1
<1>4. r = [m \in DOMAIN order |-> answer[order[m]]] BY DEF Ranking
<1> HIDE DEF key, r, kept
<1>5. order \in Seq(kept) /\ \A i, j \in 1..Len(order) : i # j => order[i] # order[j]
  BY <1>1, <1>2, DescendingIs
<1> HIDE DEF order
<1>6. Len(order) \in Nat /\ DOMAIN order = 1..Len(order)
      /\ \A i \in 1..Len(order) : order[i] \in kept
  BY <1>5
<1>7. r \in [1..Len(order) -> Item] BY <1>1, <1>4, <1>6
<1>8. r \in Seq(Item) /\ Len(r) = Len(order) BY <1>6, <1>7
<1>9. \A i \in 1..Len(r) : r[i] = answer[order[i]] BY <1>4, <1>6, <1>8
<1>10. \A i \in 1..Len(r) : \E k \in valid : r[i] = answer[k]
  BY <1>1, <1>6, <1>8, <1>9
<1>11. \A i, j \in 1..Len(r) : r[i].ticker = r[j].ticker => i = j
  BY <1>3, <1>5, <1>6, <1>8, <1>9
<1> QED BY <1>8, <1>10, <1>11 DEF r

\* A place among the first k of a set of numbers: as many are reserved as there are.
LEMMA LeadersAre ==
    ASSUME NEW S \in SUBSET Nat, IsFiniteSet(S), NEW k \in Nat
    PROVE  LET F == {i \in S : Cardinality({j \in S : j < i}) < k} IN
           /\ IsFiniteSet(F) /\ Cardinality(F) \in Nat
           /\ Cardinality(F) >= AtMost(k, Cardinality(S))
<1> DEFINE F == {i \in S : Cardinality({j \in S : j < i}) < k}
           key == [i \in S |-> 0]
           N == Cardinality(S)
           m == AtMost(k, N)
           d == Descending(S, key)
           D == 1..m
           f == [n \in D |-> d[n]]
<1>1. F \in SUBSET S OBVIOUS
<1>2. key \in [S -> Nat] /\ N \in Nat BY FS_CardinalityType
<1>3. \A i \in S : {j \in S : j < i} = {j \in S : Before(key, j, i)} BY DEF Before
<1>4. \A i \in S : Cardinality({j \in S : j < i}) = RankIn(S, key, i)
  BY <1>3 DEF RankIn
<1>5. F = {i \in S : RankIn(S, key, i) < k} BY <1>4
<1> HIDE DEF F, key, d
<1>6. IsFiniteSet(F) /\ Cardinality(F) \in Nat BY <1>1, FS_Subset, FS_CardinalityType
<1>7. /\ d \in Seq(S) /\ Len(d) = N
      /\ \A i, j \in 1..Len(d) : i # j => d[i] # d[j]
      /\ \A i, j \in 1..Len(d) : i < j => Before(key, d[i], d[j])
  BY <1>2, DescendingIs DEF d
<1>8. m \in Nat /\ m <= N /\ m <= k BY <1>2 DEF AtMost
<1>9. \A n \in 1..N : d[n] \in S /\ RankIn(S, key, d[n]) = n - 1
  BY <1>2, <1>7, DescendingRank DEF d
<1>10. \A n \in D : n \in 1..N /\ n - 1 < k BY <1>2, <1>8
<1>11. \A n \in D : d[n] \in F BY <1>5, <1>9, <1>10
<1>12. f \in Injection(D, F)
  <2>1. f \in [D -> F] BY <1>11
  <2>2. \A a, b \in D : f[a] = f[b] => a = b BY <1>7, <1>10
  <2> HIDE DEF D, f
  <2>3. IsInjective(f) BY <2>1, <2>2 DEF IsInjective
  <2> QED BY <2>1, <2>3 DEF Injection
<1>13. IsFiniteSet(D) /\ Cardinality(D) = m
  <2> HIDE DEF m
  <2>1. 1 \in Int /\ m \in Int BY <1>8
  <2>2. IsFiniteSet(D) /\ Cardinality(D) = IF 1 > m THEN 0 ELSE m - 1 + 1
    BY <2>1, FS_Interval
  <2> QED BY <1>8, <2>2
<1>14. m <= Cardinality(F)
  <2> HIDE DEF D, f, m
  <2>1. Cardinality(D) <= Cardinality(F) BY <1>6, <1>12, <1>13, FS_Injection
  <2> QED BY <1>13, <2>1
<1>15. Cardinality(F) >= m
  <2> HIDE DEF m
  <2> QED BY <1>6, <1>8, <1>14
<1> QED BY <1>6, <1>15 DEF F

Bearish(s) == {i \in DOMAIN s : s[i].direction = "bearish"}

\* Deep research takes items of the ranking, each once, and the reserved first.
LEMMA DeepIs ==
    ASSUME ChoiceConstantsOK, ranked \in Seq(Item),
           \A i, j \in 1..Len(ranked) : ranked[i].ticker = ranked[j].ticker => i = j
    PROVE  LET r == DeepResearch IN
           /\ r \in Seq(Item) /\ Len(r) <= DeepLimit
           /\ \A i \in 1..Len(r) : \E k \in 1..Len(ranked) : r[i] = ranked[k]
           /\ \A i, j \in 1..Len(r) : r[i].ticker = r[j].ticker => i = j
           /\ Cardinality(Bearish(r))
                  >= AtMost(AtMost(BearReserve, DeepLimit), Cardinality(Bearish(ranked)))
<1> DEFINE D == DOMAIN ranked
           N == Len(ranked)
           B == Bearish(ranked)
           F == {i \in B : Cardinality({j \in B : j < i}) < BearReserve}
           key == [i \in D |-> IF i \in F THEN 1 ELSE 0]
           order == Descending(D, key)
           all == [n \in DOMAIN order |-> ranked[order[n]]]
           r == First(all, DeepLimit)
           M == Len(r)
           fc == Cardinality(F)
           m == AtMost(fc, DeepLimit)
           P == 1..m
<1>1. N \in Nat /\ D = 1..N /\ D \in SUBSET Nat BY DEF ChoiceConstantsOK
<1>2. IsFiniteSet(D) /\ Cardinality(D) = N
  <2>1. 1 \in Int /\ N \in Int BY <1>1
  <2> DEFINE E == 1..N
  <2>2. IsFiniteSet(E) /\ Cardinality(E) = IF 1 > N THEN 0 ELSE N - 1 + 1
    BY <2>1, FS_Interval
  <2>3. E = D BY <1>1
  <2> HIDE DEF E, D
  <2> QED BY <1>1, <2>2, <2>3
<1>3. DeepResearch = r BY DEF DeepResearch, Bearish
<1>4. B \in SUBSET D BY DEF Bearish
<1> HIDE DEF D, B
<1>5. B \in SUBSET Nat /\ IsFiniteSet(B) /\ Cardinality(B) \in Nat
  BY <1>1, <1>2, <1>4, FS_Subset, FS_CardinalityType
<1>6. DeepLimit \in Nat /\ BearReserve \in Nat BY DEF ChoiceConstantsOK
<1>7. /\ IsFiniteSet(F) /\ fc \in Nat /\ fc >= AtMost(BearReserve, Cardinality(B))
  BY <1>5, <1>6, LeadersAre
<1>8. F \in SUBSET B /\ F \in SUBSET D BY <1>4
<1> HIDE DEF F
<1>9. key \in [D -> Nat] /\ \A i \in D : key[i] = IF i \in F THEN 1 ELSE 0 OBVIOUS
<1> HIDE DEF key
<1>10. /\ order \in Seq(D) /\ Len(order) = N
       /\ \A i, j \in 1..N : i # j => order[i] # order[j]
       /\ \A x \in D : \E i \in 1..N : order[i] = x
       /\ \A i, j \in 1..N : i < j => Before(key, order[i], order[j])
  <2>1. /\ order \in Seq(D) /\ Len(order) = Cardinality(D)
        /\ \A i, j \in 1..Len(order) : i # j => order[i] # order[j]
        /\ \A x \in D : \E i \in 1..Len(order) : order[i] = x
        /\ \A i, j \in 1..Len(order) : i < j => Before(key, order[i], order[j])
    <3>1. D \in SUBSET Nat /\ IsFiniteSet(D) /\ key \in [D -> Nat] BY <1>1, <1>2, <1>9
    <3> QED BY <3>1, DescendingIs
  <2>2. Len(order) = N BY <1>2, <2>1
  <2> HIDE DEF order, N
  <2> QED BY <2>1, <2>2
<1> HIDE DEF order
<1>11. DOMAIN order = 1..N /\ \A i \in 1..N : order[i] \in D
  <2> HIDE DEF N
  <2>1. order \in [1..N -> D] BY <1>10
  <2> QED BY <2>1
<1>12. all \in Seq(Item) /\ Len(all) = N /\ \A i \in 1..N : all[i] = ranked[order[i]]
  <2>1. \A i \in D : ranked[i] \in Item BY <1>1
  <2>2. all \in [1..N -> Item] BY <1>11, <2>1
  <2>3. all \in Seq(Item) /\ Len(all) = N BY <1>1, <2>2
  <2> QED BY <1>11, <2>3
<1> HIDE DEF all
<1>13. /\ r \in Seq(Item) /\ M \in Nat
       /\ M = IF DeepLimit < N THEN DeepLimit ELSE N
       /\ \A i \in 1..M : i \in 1..N /\ r[i] = ranked[order[i]]
  BY <1>1, <1>6, <1>12, FirstIs
<1> HIDE DEF r
<1>14. M <= DeepLimit BY <1>1, <1>6, <1>13
<1>15. \A i \in 1..M : \E k \in 1..N : r[i] = ranked[k] BY <1>1, <1>11, <1>13
<1>16. \A i, j \in 1..M : r[i].ticker = r[j].ticker => i = j
  <2> SUFFICES ASSUME NEW i \in 1..M, NEW j \in 1..M, r[i].ticker = r[j].ticker
               PROVE  i = j
    OBVIOUS
  <2>1. i \in 1..N /\ j \in 1..N BY <1>13
  <2>2. order[i] \in 1..N /\ order[j] \in 1..N BY <1>1, <1>11, <2>1
  <2>3. ranked[order[i]].ticker = ranked[order[j]].ticker BY <1>13
  <2>4. order[i] = order[j] BY <2>2, <2>3
  <2> QED BY <1>10, <2>1, <2>4
<1>17. fc <= N
  <2>1. Cardinality(F) <= Cardinality(D) BY <1>2, <1>8, FS_Subset
  <2> QED BY <1>2, <2>1
<1>18. m \in Nat /\ m <= M /\ m <= fc
  <2> HIDE DEF fc
  <2> QED BY <1>1, <1>6, <1>7, <1>13, <1>17 DEF AtMost
<1>19. \A p \in P : order[p] \in F
  <2> SUFFICES ASSUME NEW p \in P, order[p] \notin F PROVE FALSE OBVIOUS
  <2> DEFINE V == 1..(p - 1)
             g == [i \in V |-> order[i]]
             I == {order[i] : i \in V}
  <2>1. p \in Nat /\ 1 <= p /\ p <= fc /\ p \in 1..N
    <3> HIDE DEF fc, m
    <3> QED BY <1>1, <1>7, <1>17, <1>18
  <2>2. F \in SUBSET I
    <3> SUFFICES ASSUME NEW x \in F PROVE x \in I OBVIOUS
    <3>1. PICK i \in 1..N : order[i] = x BY <1>8, <1>10
    <3>2. i # p BY <3>1
    <3>3. ~(p < i)
      <4>1. p < i => Before(key, order[p], order[i]) BY <1>10, <2>1
      <4>2. key[order[p]] = 0 /\ key[order[i]] = 1 BY <1>8, <1>9, <1>11, <2>1, <3>1
      <4> QED BY <4>1, <4>2 DEF Before
    <3>4. i \in V BY <1>1, <2>1, <3>2, <3>3
    <3> QED BY <3>1, <3>4
  <2>3. IsFiniteSet(V) /\ Cardinality(V) = p - 1
    <3>1. 1 \in Int /\ p - 1 \in Int BY <2>1
    <3>2. IsFiniteSet(V) /\ Cardinality(V) = IF 1 > p - 1 THEN 0 ELSE p - 1 - 1 + 1
      BY <3>1, FS_Interval
    <3> QED BY <2>1, <3>2
  <2>4. g \in Surjection(V, I)
    <3>1. g \in [V -> I] OBVIOUS
    <3>2. \A x \in I : \E i \in V : g[i] = x OBVIOUS
    <3> HIDE DEF V, g, I
    <3> QED BY <3>1, <3>2 DEF Surjection
  <2> HIDE DEF V, g, I
  <2>5. IsFiniteSet(I) /\ Cardinality(I) <= Cardinality(V) BY <2>3, <2>4, FS_Surjection
  <2>6. Cardinality(F) <= Cardinality(I) BY <2>2, <2>5, FS_Subset
  <2>7. Cardinality(I) \in Nat BY <2>5, FS_CardinalityType
  <2>8. Cardinality(F) <= p - 1 BY <1>7, <2>1, <2>3, <2>5, <2>6, <2>7
  <2> QED BY <1>7, <2>1, <2>8
<1>20. P \in SUBSET Bearish(r)
  <2> SUFFICES ASSUME NEW p \in P PROVE p \in Bearish(r) OBVIOUS
  <2>1. p \in 1..M
    <3> HIDE DEF m
    <3> QED BY <1>13, <1>18
  <2>2. order[p] \in B BY <1>8, <1>19
  <2>3. r[p].direction = "bearish" BY <1>13, <2>1, <2>2 DEF B, Bearish
  <2>4. p \in DOMAIN r BY <1>13, <2>1
  <2> QED BY <2>3, <2>4 DEF Bearish
<1>21. Cardinality(Bearish(r)) >= m
  <2> DEFINE A == Bearish(r)
             E == 1..M
  <2>1. A \in SUBSET E BY <1>13 DEF Bearish
  <2>2. IsFiniteSet(E)
    <3>1. 1 \in Int /\ M \in Int BY <1>13
    <3> QED BY <3>1, FS_Interval
  <2>3. IsFiniteSet(P) /\ Cardinality(P) = m
    <3> HIDE DEF m
    <3>1. 1 \in Int /\ m \in Int BY <1>18
    <3>2. IsFiniteSet(P) /\ Cardinality(P) = IF 1 > m THEN 0 ELSE m - 1 + 1
      BY <3>1, FS_Interval
    <3> QED BY <1>18, <3>2
  <2> HIDE DEF E, A, P, m
  <2>4. IsFiniteSet(A) BY <2>1, <2>2, FS_Subset
  <2>5. Cardinality(A) \in Nat BY <2>4, FS_CardinalityType
  <2>6. P \in SUBSET A BY <1>20 DEF A
  <2>7. Cardinality(P) <= Cardinality(A) BY <2>4, <2>6, FS_Subset
  <2>8. Cardinality(A) >= m BY <1>18, <2>3, <2>5, <2>7
  <2> QED BY <2>8 DEF A
<1>22. m >= AtMost(AtMost(BearReserve, DeepLimit), Cardinality(B))
  <2> HIDE DEF fc
  <2> QED BY <1>5, <1>6, <1>7 DEF AtMost
<1>23. Cardinality(Bearish(r)) >= AtMost(AtMost(BearReserve, DeepLimit), Cardinality(B))
  <2> DEFINE a == Cardinality(Bearish(r))
             b == AtMost(AtMost(BearReserve, DeepLimit), Cardinality(B))
  <2>1. b \in Nat BY <1>5, <1>6 DEF AtMost
  <2>2. a \in Nat
    <3> DEFINE E == 1..M
               A == Bearish(r)
    <3>1. A \in SUBSET E BY <1>13 DEF Bearish
    <3>2. 1 \in Int /\ M \in Int BY <1>13
    <3>3. IsFiniteSet(E) BY <3>2, FS_Interval
    <3>4. IsFiniteSet(A)
      <4> HIDE DEF E, A
      <4> QED BY <3>1, <3>3, FS_Subset
    <3> QED BY <3>4, FS_CardinalityType
  <2>3. a >= m /\ m >= b BY <1>21, <1>22
  <2> HIDE DEF a, b, m
  <2>4. a >= b BY <1>18, <2>1, <2>2, <2>3
  <2> QED BY <2>4 DEF a, b
<1> QED BY <1>3, <1>13, <1>14, <1>15, <1>16, <1>23 DEF r, B

-----------------------------------------------------------------------------
(* The choice of a line *)

\* A validated ranking is about researched tickers, each once; of the catalyst line it is
\* within the limit.
RankedIsGrounded ==
    level = "ranked" =>
        /\ \A i, j \in DOMAIN ranked :
              /\ ranked[i].ticker \in researched
              /\ ranked[i].ticker = ranked[j].ticker => i = j
        /\ line = "catalyst" => Len(ranked) <= DeepLimit

\* The inductive invariant: what is selected is settled at once by the seeds, and what is
\* researched deeply by the ranking.
ChoiceIInv == ChoiceTypeOK /\ PlacesAreFair /\ RankedIsGrounded /\ DeepIsGrounded

LEMMA ChoiceInitIInv ==
    ASSUME ChoiceConstantsOK, ChoiceInit PROVE ChoiceIInv
<1>1. ChoiceTypeOK
  <2>1. <<>> \in Seq(Symbols) /\ <<>> \in Seq(Item) OBVIOUS
  <2> QED BY <2>1 DEF ChoiceInit, ChoiceTypeOK
<1> QED BY <1>1 DEF ChoiceInit, ChoiceIInv, PlacesAreFair, RankedIsGrounded, DeepIsGrounded

LEMMA ScreenIInv ==
    ASSUME ChoiceConstantsOK, ChoiceIInv, Screen PROVE ChoiceIInv'
<1>1. ChoiceTypeOK BY DEF ChoiceIInv
<1>2. /\ selected' = Selection /\ level' = "selected" /\ seeds' = seeds
      /\ line' = line /\ researched' = researched /\ ranked' = ranked /\ deep' = deep
  BY DEF Screen
<1>3. ChoiceTypeOK' BY <1>1, <1>2, SelectionIs DEF ChoiceTypeOK
<1>4. Screened' = Screened /\ \A d \in Directions : Toward(d)' = Toward(d)
  BY <1>2 DEF Screened, Toward, Reported
<1>5. PlacesAreFair' BY <1>1, <1>2, <1>4, SelectionIs DEF PlacesAreFair
<1> QED BY <1>2, <1>3, <1>5 DEF ChoiceIInv, RankedIsGrounded, DeepIsGrounded

LEMMA MergeIInv ==
    ASSUME ChoiceConstantsOK, ChoiceIInv, NEW deterministic \in SUBSET Symbols,
           NEW extracted \in SUBSET Symbols, Merge(deterministic, extracted)
    PROVE  ChoiceIInv'
<1>1. ChoiceTypeOK BY DEF ChoiceIInv
<1>2. ChoiceTypeOK' BY <1>1, MergedIs DEF Merge, ChoiceTypeOK
<1> QED BY <1>2 DEF Merge, ChoiceIInv, PlacesAreFair, RankedIsGrounded, DeepIsGrounded

LEMMA ResearchKeptIInv ==
    ASSUME ChoiceConstantsOK, ChoiceIInv, NEW kept \in SUBSET Range(selected),
           ResearchKept(kept)
    PROVE  ChoiceIInv'
<1>1. ChoiceTypeOK BY DEF ChoiceIInv
<1>2. kept \in SUBSET Symbols BY <1>1 DEF ChoiceTypeOK, Range
<1>3. NoSeeds \in [Symbols -> Seed]
  <2>1. NoSeed \in Seed BY DEF NoSeed, Seed, Directions, ChoiceConstantsOK
  <2> QED BY <2>1 DEF NoSeeds
<1>4. ChoiceTypeOK'
  <2>1. <<>> \in Seq(Symbols) OBVIOUS
  <2> QED BY <1>1, <1>2, <1>3, <2>1 DEF ResearchKept, ChoiceTypeOK
<1> QED BY <1>4 DEF ResearchKept, ChoiceIInv, PlacesAreFair, RankedIsGrounded, DeepIsGrounded

LEMMA RankIInv ==
    ASSUME ChoiceConstantsOK, ChoiceIInv, NEW n \in Nat, NEW answer \in [1..n -> Item],
           Rank(answer)
    PROVE  ChoiceIInv'
<1> DEFINE good == {i \in DOMAIN answer :
                        answer[i].ticker \in researched /\ answer[i].score >= MinRank}
           shown == {i \in DOMAIN answer : answer[i].ticker \in researched}
           valid == IF line = "technical" THEN good ELSE shown
           r == Ranking(answer, valid)
<1>1. ChoiceTypeOK /\ level = "researched" BY DEF ChoiceIInv, Rank
<1>2. DOMAIN answer = 1..n /\ DeepLimit \in Nat BY DEF ChoiceConstantsOK
<1>3. valid \in SUBSET (1..n) /\ \A k \in valid : answer[k].ticker \in researched
  BY <1>2
<1>4. ranked' = IF line = "technical" THEN r ELSE First(r, DeepLimit)
  BY DEF Rank, ValidatedRanking, CatalystRanking
<1> HIDE DEF valid, r
<1>5. /\ r \in Seq(Item)
      /\ \A i \in 1..Len(r) : \E k \in valid : r[i] = answer[k]
      /\ \A i, j \in 1..Len(r) : r[i].ticker = r[j].ticker => i = j
  BY <1>3, RankingIs DEF r
<1>6. \A i \in 1..Len(r) : r[i].ticker \in researched BY <1>3, <1>5
<1>7. /\ ranked' \in Seq(Item)
      /\ \A i \in 1..Len(ranked') : i \in 1..Len(r) /\ ranked'[i] = r[i]
      /\ line = "catalyst" => Len(ranked') <= DeepLimit
  <2>1. CASE line = "technical" BY <1>4, <1>5, <2>1
  <2>2. CASE line # "technical"
    <3> DEFINE f == First(r, DeepLimit)
    <3>1. Len(r) \in Nat BY <1>5
    <3>2. /\ f \in Seq(Item) /\ Len(f) = (IF DeepLimit < Len(r) THEN DeepLimit ELSE Len(r))
          /\ \A i \in 1..Len(f) : i \in 1..Len(r) /\ f[i] = r[i]
      BY <1>2, <1>5, FirstIs
    <3>3. Len(f) <= DeepLimit BY <1>2, <3>1, <3>2
    <3>4. ranked' = f BY <1>4, <2>2
    <3> HIDE DEF f
    <3> QED BY <3>2, <3>3, <3>4
  <2> QED BY <2>1, <2>2
<1>8. DOMAIN ranked' = 1..Len(ranked') BY <1>7
<1>9. /\ level' = "ranked" /\ line' = line /\ seeds' = seeds /\ selected' = selected
      /\ researched' = researched /\ deep' = deep
  BY DEF Rank
<1>10. ChoiceTypeOK' BY <1>1, <1>7, <1>9 DEF ChoiceTypeOK
<1>11. RankedIsGrounded' BY <1>5, <1>6, <1>7, <1>8, <1>9 DEF RankedIsGrounded
<1> QED BY <1>9, <1>10, <1>11 DEF ChoiceIInv, PlacesAreFair, DeepIsGrounded

LEMMA DeepIInv ==
    ASSUME ChoiceConstantsOK, ChoiceIInv, Deep PROVE ChoiceIInv'
<1>1. /\ ChoiceTypeOK /\ RankedIsGrounded /\ level = "ranked"
      /\ deep' = (IF line = "technical" THEN DeepResearch ELSE ranked)
      /\ level' = "deep" /\ line' = line /\ seeds' = seeds /\ selected' = selected
      /\ researched' = researched /\ ranked' = ranked
  BY DEF ChoiceIInv, Deep
<1>2. ranked \in Seq(Item) /\ DOMAIN ranked = 1..Len(ranked)
  BY <1>1 DEF ChoiceTypeOK
<1>3. /\ \A i \in 1..Len(ranked) : ranked[i].ticker \in researched
      /\ \A i, j \in 1..Len(ranked) : ranked[i].ticker = ranked[j].ticker => i = j
      /\ line = "catalyst" => Len(ranked) <= DeepLimit
  BY <1>1, <1>2 DEF RankedIsGrounded
<1>4. /\ deep' \in Seq(Item) /\ Len(deep') <= DeepLimit
      /\ \A i \in 1..Len(deep') : \E k \in 1..Len(ranked) : deep'[i] = ranked[k]
      /\ \A i, j \in 1..Len(deep') : deep'[i].ticker = deep'[j].ticker => i = j
      /\ line = "technical" =>
            Cardinality(Bearish(deep'))
                >= AtMost(AtMost(BearReserve, DeepLimit), Cardinality(Bearish(ranked)))
  <2>1. CASE line = "technical"
    <3>1. deep' = DeepResearch BY <1>1, <2>1
    <3> QED BY <1>2, <1>3, <3>1, DeepIs
  <2>2. CASE line # "technical"
    <3>1. deep' = ranked /\ line = "catalyst" BY <1>1, <2>2 DEF ChoiceTypeOK
    <3> QED BY <1>2, <1>3, <3>1
  <2> QED BY <2>1, <2>2
<1>5. DOMAIN deep' = 1..Len(deep') BY <1>4
<1>6. \A i \in DOMAIN deep' : deep'[i].ticker \in researched BY <1>3, <1>4, <1>5
<1>7. ChoiceTypeOK' BY <1>1, <1>4 DEF ChoiceTypeOK
<1>8. DeepIsGrounded'
  <2>1. /\ \A i, j \in DOMAIN deep' :
              deep'[i].ticker \in researched'
              /\ (deep'[i].ticker = deep'[j].ticker => i = j)
        /\ Len(deep') <= DeepLimit
    BY <1>1, <1>4, <1>5, <1>6
  <2>2. line' = "technical" =>
            Cardinality(Bearish(deep'))
                >= AtMost(AtMost(BearReserve, DeepLimit), Cardinality(Bearish(ranked')))
    BY <1>1, <1>4
  <2> QED BY <2>1, <2>2 DEF DeepIsGrounded, Bearish
<1> QED BY <1>1, <1>7, <1>8 DEF ChoiceIInv, PlacesAreFair, RankedIsGrounded

\* The inductive invariant of the choice.
LEMMA ChoiceInvariant ==
    ASSUME ChoiceConstantsOK PROVE ChoiceSpec => []ChoiceIInv
<1>1. ChoiceInit => ChoiceIInv BY ChoiceInitIInv
<1>2. ChoiceIInv /\ [ChoiceNext]_choiceVars => ChoiceIInv'
  <2> SUFFICES ASSUME ChoiceIInv, [ChoiceNext]_choiceVars PROVE ChoiceIInv' OBVIOUS
  <2>1. CASE Screen BY <2>1, ScreenIInv
  <2>2. CASE \E deterministic, extracted \in SUBSET Symbols :
                Merge(deterministic, extracted)
    BY <2>2, MergeIInv
  <2>3. CASE \E kept \in SUBSET Range(selected) : ResearchKept(kept)
    BY <2>3, ResearchKeptIInv
  <2>4. CASE \E n \in 0..Answers : \E answer \in [1..n -> Item] : Rank(answer)
    <3>1. PICK n \in 0..Answers : \E answer \in [1..n -> Item] : Rank(answer) BY <2>4
    <3>2. n \in Nat BY DEF ChoiceConstantsOK
    <3> QED BY <3>1, <3>2, RankIInv
  <2>5. CASE Deep BY <2>5, DeepIInv
  <2>6. CASE UNCHANGED choiceVars
    <3>1. UNCHANGED <<line, seeds, selected, researched, ranked, deep, level>>
      BY <2>6 DEF choiceVars
    <3> QED BY <3>1 DEF ChoiceIInv, ChoiceTypeOK, PlacesAreFair, RankedIsGrounded,
                        DeepIsGrounded, Screened, Reported, Toward
  <2> QED BY <2>1, <2>2, <2>3, <2>4, <2>5, <2>6 DEF ChoiceNext
<1> QED BY <1>1, <1>2, PTL DEF ChoiceSpec

\* The types of the choice.
THEOREM ChoiceTypeCorrect ==
    ASSUME ChoiceConstantsOK PROVE ChoiceSpec => []ChoiceTypeOK
<1>1. ChoiceIInv => ChoiceTypeOK BY DEF ChoiceIInv
<1> QED BY <1>1, ChoiceInvariant, PTL

\* Whatever the scores, the directions and the reported earnings of the seeds, and
\* however many there are, _select_technical_candidates fills its places once, each
\* direction has its share, and only the reserved outrank whoever is left out.
THEOREM PlacesAreFairHolds ==
    ASSUME ChoiceConstantsOK PROVE ChoiceSpec => []PlacesAreFair
<1>1. ChoiceIInv => PlacesAreFair BY DEF ChoiceIInv
<1> QED BY <1>1, ChoiceInvariant, PTL

\* Whatever the ranker answers, and however long its answer is, deep research is about
\* researched tickers, each once, within its limit and with its bearish places.
THEOREM DeepIsGroundedHolds ==
    ASSUME ChoiceConstantsOK PROVE ChoiceSpec => []DeepIsGrounded
<1>1. ChoiceIInv => DeepIsGrounded BY DEF ChoiceIInv
<1> QED BY <1>1, ChoiceInvariant, PTL
=============================================================================
