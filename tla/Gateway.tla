-------------------------------- MODULE Gateway --------------------------------
(***************************************************************************)
(* The API processes as their callers meet them: src/api/auth.py and       *)
(* routes/auth.py over TokenStore, and the rate limiter that every request *)
(* passes first (main.py).  Tokens are issued by one process and shown to  *)
(* another; nothing about a token is kept but its revocation.              *)
(*                                                                         *)
(* One user's requests of one protected path are counted.  The other paths *)
(* have windows of their own, which the few calls here do not fill.        *)
(* Only requests with a token this module issued are modelled: without     *)
(* credentials every protected route answers 401 and changes nothing.      *)
(***************************************************************************)
EXTENDS TokenStore, RateLimiter, FiniteSets, Functions

CONSTANTS
  AccessLife,   \* ticks an access token lives
  RefreshLife,  \* ticks a refresh token lives
  DevLife,      \* ticks a development token lives
  Development,  \* settings.environment is "development"
  MaxClock, MaxMoves, MaxRequests, MaxRestarts   \* bounds

ASSUME LifeAssumption == AccessLife \in Nat \ {0} /\ RefreshLife \in Nat \ {0} /\ DevLife \in Nat \ {0}
ASSUME SwitchAssumption == Development \in BOOLEAN
ASSUME ReplicasAssumption == IsFiniteSet(Replicas)
ASSUME BoundsAssumption == MaxClock \in Nat \ {0} /\ {MaxMoves, MaxRequests, MaxRestarts} \subseteq Nat

VARIABLES
  tokens,   \* the tokens issued
  keys,     \* the key pair of a process: 0 for one that is mounted
  window,   \* the limiter's window in each process
  life,     \* history: how often a process was restarted
  revoked,  \* history: who revoked a token, in which life, and where
  passes,   \* history: when requests passed the limiter of a process
  answer    \* history: the last request and what became of it

vars == <<storeVars, tokens, keys, window, life, revoked, passes, answer>>

NoAnswer == [outcome |-> "none"]

\* What became of a request, and what was known of its token before.
Answer(outcome, r, t) ==
  [outcome |-> outcome, replica |-> r, token |-> t, revoked |-> revoked[t]]

\* Keys are mounted, or generated by each process that starts without one.
Init ==
  /\ InitStore
  /\ tokens = <<>>
  /\ keys \in {[r \in Replicas |-> 0]} \cup
              {k \in [Replicas -> 1..Cardinality(Replicas)] :
                 \A r, s \in Replicas : k[r] = k[s] => r = s}
  /\ window = [r \in Replicas |-> <<>>]
  /\ life = [r \in Replicas |-> 0]
  /\ revoked = [t \in Tokens |-> {}]
  /\ passes = [r \in Replicas |-> <<>>]
  /\ answer = NoAnswer

\* jose compares whole seconds.
Unexpired(t) == clock \div Second <= tokens[t].exp \div Second

\* decode: signed with the key of this process, and not expired.
Decodes(r, t) == t \in DOMAIN tokens /\ tokens[t].key = keys[r] /\ Unexpired(t)

\* get_current_user: a token of any type.
Accepts(r, t) == Decodes(r, t) /\ ~IsRevoked(r, t)

Token(kind, r, exp, start) == [kind |-> kind, exp |-> exp, start |-> start, key |-> keys[r]]
Room(n) == Len(tokens) + n <= MaxTokens
Requests == FoldFunction(+, 0, [r \in Replicas |-> Len(passes[r])])

Login(r) ==
  /\ Room(2)
  /\ tokens' = tokens \o << Token("access", r, clock + AccessLife, clock),
                            Token("refresh", r, clock + RefreshLife, clock) >>
  /\ answer' = NoAnswer
  /\ UNCHANGED <<storeVars, keys, window, life, revoked, passes>>

\* An access token for a day, in development only; it belongs to no session.
DevToken(r) ==
  /\ Development /\ Room(1)
  /\ tokens' = Append(tokens, Token("dev", r, clock + DevLife, clock))
  /\ answer' = NoAnswer
  /\ UNCHANGED <<storeVars, keys, window, life, revoked, passes>>

NewAccess(r, t) ==
  /\ Accepts(r, t) /\ Room(1)
  /\ tokens' = Append(tokens, Token("access", r, clock + AccessLife, tokens[t].start))
  /\ memory' = Checked(r, t)
  /\ answer' = Answer("accepted", r, t)
  /\ UNCHANGED <<clock, up, moves, denylist, connected, keys, window, life, revoked, passes>>

\* Mutant: the type of the token is not looked at.
RefreshAny(r, t) == t \in DOMAIN tokens /\ tokens[t].kind # "dev" /\ NewAccess(r, t)

\* A new access token; the refresh token stays what it is.
Refresh(r, t) == t \in DOMAIN tokens /\ tokens[t].kind = "refresh" /\ NewAccess(r, t)

\* The one token that is shown is revoked, with the time it expires at.
Logout(r, t) ==
  /\ Accepts(r, t)
  /\ Revoke(r, t, tokens[t].exp)
  /\ revoked' = [revoked EXCEPT ![t] =
       @ \cup {[replica |-> r, life |-> life[r], shared |-> UsesRedis(r)]}]
  /\ answer' = Answer("accepted", r, t)
  /\ UNCHANGED <<clock, up, moves, connected, tokens, keys, window, life, passes>>

\* A protected route: the limiter first, then the token.
Request(r, t) ==
  /\ t \in DOMAIN tokens
  /\ window' = [window EXCEPT ![r] = Passed(@, clock)]
  /\ IF Full(window[r], clock)
     THEN /\ answer' = Answer("refused", r, t)
          /\ UNCHANGED <<memory, passes>>
     ELSE /\ Requests < MaxRequests
          /\ passes' = [passes EXCEPT ![r] = Append(@, clock)]
          /\ memory' = IF Decodes(r, t) THEN Checked(r, t) ELSE memory
          /\ answer' = Answer(IF Accepts(r, t) THEN "accepted" ELSE "rejected", r, t)
  /\ UNCHANGED <<clock, up, moves, denylist, connected, tokens, keys, life, revoked>>

\* The container is replaced: a key that was generated is gone with it.
Restart(r) ==
  /\ life[r] < MaxRestarts
  /\ Reconnect(r)
  /\ life' = [life EXCEPT ![r] = @ + 1]
  /\ keys' = [keys EXCEPT ![r] = IF @ = 0 THEN 0 ELSE @ + Cardinality(Replicas)]
  /\ window' = [window EXCEPT ![r] = <<>>]
  /\ passes' = [passes EXCEPT ![r] = <<>>]
  /\ answer' = NoAnswer
  /\ UNCHANGED <<clock, up, moves, denylist, tokens, revoked>>

Redis ==
  /\ moves < MaxMoves
  /\ RedisFails \/ RedisReturns
  /\ answer' = NoAnswer
  /\ UNCHANGED <<clock, denylist, connected, memory, tokens, keys, window, life, revoked, passes>>

Tick ==
  /\ clock < MaxClock
  /\ clock' = clock + 1
  /\ answer' = NoAnswer
  /\ UNCHANGED <<up, moves, denylist, connected, memory, tokens, keys, window, life, revoked, passes>>

Next ==
  \/ \E r \in Replicas :
       \/ Login(r) \/ DevToken(r) \/ Restart(r)
       \/ \E t \in Tokens : Refresh(r, t) \/ Logout(r, t) \/ Request(r, t)
  \/ Redis \/ Tick

Spec == Init /\ [][Next]_vars

-----------------------------------------------------------------------------
\* Every variable keeps its type; what was revoked is a token that was issued.
TypeOK ==
  /\ clock \in 1..MaxClock /\ up \in BOOLEAN /\ moves \in 0..MaxMoves
  /\ denylist \in [Tokens -> Nat]
  /\ connected \in [Replicas -> BOOLEAN]
  /\ memory \in [Replicas -> [Tokens -> Nat]]
  /\ tokens \in Seq([kind : {"access", "refresh", "dev"}, exp : Nat, start : Nat, key : Nat])
  /\ DOMAIN tokens \subseteq Tokens
  /\ keys \in [Replicas -> Nat]
  /\ life \in [Replicas -> 0..MaxRestarts]
  /\ passes \in [Replicas -> Seq(1..MaxClock)]
  /\ revoked \in [Tokens -> SUBSET [replica : Replicas, life : Nat, shared : BOOLEAN]]
  /\ \A t \in Tokens : revoked[t] # {} => t \in DOMAIN tokens

AcceptedRevoked == answer.outcome = "accepted" /\ answer.revoked # {}

\* A token that was logged out is turned down wherever the store its logout
\* was written to is the store that is asked: by every process that uses
\* Redis if it went there, by the process that kept it if it did not; but for
\* the last second of the token, which the entry may miss (token_store.py:48).
RevocationHolds ==
  AcceptedRevoked =>
    LET r == answer.replica IN
    \A v \in answer.revoked :
      \/ clock > tokens[answer.token].exp - Second
      \/ v.shared /\ ~UsesRedis(r)
      \/ ~v.shared /\ (UsesRedis(r) \/ r # v.replica \/ life[r] # v.life)

\* However often a session is refreshed, by whatever processes, it ends a
\* refresh and an access lifetime after its login (and the second that jose
\* rounds off): refreshing never renews the refresh token (routes/auth.py:61).
SessionEnds ==
  \A i \in DOMAIN tokens : tokens[i].kind # "dev" =>
    tokens[i].exp <= tokens[i].start + RefreshLife + AccessLife + (Second - 1)

\* No window of time in which a process lets more than Limit requests of a
\* path through, wherever it begins (rate_limiter.py:60).
NoBurst ==
  \A r \in Replicas : \A i \in DOMAIN passes[r] :
    i > Limit => passes[r][i] - passes[r][i - Limit] >= Window

\* Who is turned down has had Limit requests let through in the window that
\* ends now: the ones turned down do not count (rate_limiter.py:68).
DeniedOnlyWhenFull ==
  answer.outcome = "refused" =>
    LET times == passes[answer.replica] IN
    Cardinality({i \in DOMAIN times : times[i] > clock - Window}) >= Limit
=============================================================================
