----------------------------- MODULE GatewayProofs -----------------------------
(***************************************************************************)
(* A revocation holds, a session ends and no burst passes the limiter, for *)
(* any number of API processes, tokens, restarts and outages, any lengths  *)
(* of the tokens' lives and any limit and window.                          *)
(***************************************************************************)
EXTENDS Gateway, DataLemmas

TokenType == [kind : {"access", "refresh", "dev"}, exp : Nat, start : Nat, key : Nat]

\* What a revocation left behind lasts: the entry in Redis up to the last
\* second of the token, the one in memory as long as its process lives.
EntriesLast ==
  \A t \in Tokens : \A v \in revoked[t] :
    /\ v.life <= life[v.replica]
    /\ v.shared => denylist[t] > tokens[t].exp - Second
    /\ ~v.shared /\ v.life = life[v.replica] =>
         memory[v.replica][t] = tokens[t].exp \/ clock > tokens[t].exp

\* A refresh token ends a refresh lifetime after the login, an access token at
\* most an access lifetime, and jose's second, later.
Lifetimes ==
  \A i \in DOMAIN tokens :
    /\ tokens[i].kind = "refresh" => tokens[i].exp <= tokens[i].start + RefreshLife
    /\ tokens[i].kind = "access" =>
         tokens[i].exp <= tokens[i].start + RefreshLife + AccessLife + (Second - 1)

IInv == TypeOK /\ EntriesLast /\ Lifetimes /\ RevocationHolds

-----------------------------------------------------------------------------
(* Whole seconds *)

\* Division by a positive number rounds down by less than that number.
LEMMA RoundsDown ==
  ASSUME NEW a \in Int, NEW s \in Nat \ {0}
  PROVE  a \div s \in Int /\ s * (a \div s) <= a /\ a < s * (a \div s) + s
  OBVIOUS

\* With a number of seconds that is not smaller, the time is later than that
\* of the other less a second.
LEMMA SameSecond ==
  ASSUME NEW a \in Int, NEW b \in Int, NEW s \in Nat \ {0}, a \div s <= b \div s
  PROVE  a <= b + (s - 1)
<1>1. PICK p : p = a \div s
  OBVIOUS
<1>2. PICK q : q = b \div s
  OBVIOUS
<1>3. p \in Int /\ q \in Int /\ p <= q /\ a < s * p + s /\ s * q <= b
  BY <1>1, <1>2, RoundsDown
<1>4. s * p <= s * q
  <2>1. q - p \in Nat
    BY <1>3
  <2>2. s * (q - p) \in Nat
    BY <2>1
  <2> QED BY <1>3, <2>2
<1>5. s * p \in Int /\ s * q \in Int
  BY <1>3
<1> QED BY <1>3, <1>4, <1>5

\* An entry in Redis misses less than the last second of its token.
LEMMA EntryMissesASecond ==
  ASSUME NEW exp \in Nat, clock \in Nat
  PROVE  EntryEnd(exp) \in Nat /\ EntryEnd(exp) > exp - Second
<1>0. Second \in Nat \ {0} /\ exp - clock \in Int
  BY SecondAssumption
<1>1. PICK n : n = (exp - clock) \div Second
  OBVIOUS
<1>2. n \in Int /\ exp - clock < Second * n + Second
  BY <1>0, <1>1, RoundsDown
<1>3. EntryEnd(exp) = clock + Second * (IF n < 1 THEN 1 ELSE n)
  BY <1>1 DEF EntryEnd
<1>4. CASE n < 1
  <2>1. Second * n <= 0
    <3>1. -n \in Nat
      BY <1>2, <1>4
    <3>2. Second * (-n) \in Nat
      BY <1>0, <3>1
    <3> QED BY <1>0, <1>2, <3>2
  <2>2. EntryEnd(exp) = clock + Second
    BY <1>0, <1>3, <1>4
  <2>3. Second * n \in Int
    BY <1>0, <1>2
  <2> QED BY <1>0, <1>2, <2>1, <2>2, <2>3
<1>5. CASE ~(n < 1)
  <2>1. n \in Nat
    BY <1>2, <1>5
  <2>2. Second * n \in Nat
    BY <1>0, <2>1
  <2>3. EntryEnd(exp) = clock + Second * n
    BY <1>3, <1>5
  <2> QED BY <1>0, <1>2, <2>2, <2>3
<1> QED BY <1>4, <1>5

\* A token jose takes is less than a second past its end.
LEMMA TakenWithinASecond ==
  ASSUME NEW t \in DOMAIN tokens, tokens[t].exp \in Nat, clock \in Nat, Unexpired(t)
  PROVE  clock <= tokens[t].exp + (Second - 1)
  BY SameSecond, SecondAssumption DEF Unexpired

-----------------------------------------------------------------------------
(* Types *)

\* Tokens that are issued come after those there are, whose places they keep.
Issued ==
  /\ tokens' \in Seq(TokenType)
  /\ DOMAIN tokens' \subseteq Tokens
  /\ \A i \in DOMAIN tokens : i \in DOMAIN tokens' /\ tokens'[i] = tokens[i]

LEMMA CheckedType ==
  ASSUME TypeOK, NEW r \in Replicas, NEW t \in Tokens
  PROVE  /\ Checked(r, t) \in [Replicas -> [Tokens -> Nat]]
         /\ \A s \in Replicas, u \in Tokens :
              Checked(r, t)[s][u] = memory[s][u] \/ (s = r /\ u = t /\ memory[s][u] < clock)
  BY DEF Checked, TypeOK

LEMMA TokenAt ==
  ASSUME TypeOK, NEW t \in DOMAIN tokens
  PROVE  t \in Tokens /\ tokens[t] \in TokenType /\ tokens[t].exp \in Nat /\ tokens[t].start \in Nat
<1>1. tokens \in Seq(TokenType) /\ DOMAIN tokens \subseteq Tokens
  BY DEF TypeOK, TokenType
<1>2. tokens[t] \in TokenType
  BY <1>1
<1> QED BY <1>1, <1>2 DEF TokenType

LEMMA TokenTyped ==
  ASSUME TypeOK, NEW r \in Replicas, NEW kind \in {"access", "refresh", "dev"},
         NEW exp \in Nat, NEW start \in Nat
  PROVE  Token(kind, r, exp, start) \in TokenType
  BY DEF Token, TokenType, TypeOK

LEMMA OneIssued ==
  ASSUME TypeOK, NEW e \in TokenType, Room(1), tokens' = Append(tokens, e)
  PROVE  Issued
<1>1. tokens \in Seq(TokenType) /\ DOMAIN tokens \subseteq Tokens
  BY DEF TypeOK, TokenType
<1>2. tokens' \in Seq(TokenType) /\ Len(tokens') = Len(tokens) + 1
  BY <1>1
<1>3. DOMAIN tokens' \subseteq Tokens
  BY <1>2, TokensAssumption DEF Room, Tokens
<1>4. \A i \in DOMAIN tokens : i \in DOMAIN tokens' /\ tokens'[i] = tokens[i]
  BY <1>1, <1>2
<1> QED BY <1>2, <1>3, <1>4 DEF Issued

LEMMA TwoIssued ==
  ASSUME TypeOK, NEW e \in TokenType, NEW f \in TokenType, Room(2), tokens' = tokens \o <<e, f>>
  PROVE  Issued
<1>1. tokens \in Seq(TokenType) /\ DOMAIN tokens \subseteq Tokens
  BY DEF TypeOK, TokenType
<1>2. <<e, f>> \in Seq(TokenType) /\ Len(<<e, f>>) = 2
  OBVIOUS
<1>3. tokens' \in Seq(TokenType) /\ Len(tokens') = Len(tokens) + 2
  BY <1>1, <1>2
<1>4. DOMAIN tokens' \subseteq Tokens
  BY <1>3, TokensAssumption DEF Room, Tokens
<1>5. \A i \in DOMAIN tokens : i \in DOMAIN tokens' /\ tokens'[i] = tokens[i]
  BY <1>1, <1>2, <1>3
<1> QED BY <1>3, <1>4, <1>5 DEF Issued

\* The lifetimes are positive numbers of ticks.
LEMMA Constants ==
  /\ AccessLife \in Nat /\ RefreshLife \in Nat /\ DevLife \in Nat
  /\ Second \in Nat \ {0} /\ MaxTokens \in Nat
  /\ MaxClock \in Nat \ {0} /\ MaxMoves \in Nat /\ MaxRestarts \in Nat
  /\ Cardinality(Replicas) \in Nat
<1>1. Cardinality(Replicas) \in Nat
  BY ReplicasAssumption, FS_CardinalityType
<1> QED BY <1>1, LifeAssumption, SecondAssumption, TokensAssumption, BoundsAssumption

LEMMA LoginIssues ==
  ASSUME TypeOK, NEW r \in Replicas, Login(r)
  PROVE  Issued
<1>1. clock \in Nat
  BY DEF TypeOK
<1>2. /\ Token("access", r, clock + AccessLife, clock) \in TokenType
      /\ Token("refresh", r, clock + RefreshLife, clock) \in TokenType
  BY <1>1, Constants, TokenTyped
<1> QED BY <1>2, TwoIssued DEF Login

LEMMA DevTokenIssues ==
  ASSUME TypeOK, NEW r \in Replicas, DevToken(r)
  PROVE  Issued
<1>1. clock \in Nat
  BY DEF TypeOK
<1>2. Token("dev", r, clock + DevLife, clock) \in TokenType
  BY <1>1, Constants, TokenTyped
<1> QED BY <1>2, OneIssued DEF DevToken

LEMMA NewAccessIssues ==
  ASSUME TypeOK, NEW r \in Replicas, NEW t \in DOMAIN tokens, NewAccess(r, t)
  PROVE  Issued
<1>1. clock \in Nat /\ tokens[t].start \in Nat
  <2>1. clock \in Nat
    BY DEF TypeOK
  <2> QED BY <2>1, TokenAt
<1>2. Token("access", r, clock + AccessLife, tokens[t].start) \in TokenType
  BY <1>1, Constants, TokenTyped
<1> QED BY <1>2, OneIssued DEF NewAccess

LEMMA TypeInit == Init => TypeOK
<1> SUFFICES ASSUME Init PROVE TypeOK
  OBVIOUS
<1>1. clock \in 1..MaxClock /\ up \in BOOLEAN /\ moves \in 0..MaxMoves
  BY Constants DEF Init, InitStore
<1>2. denylist \in [Tokens -> Nat] /\ connected \in [Replicas -> BOOLEAN]
  BY <1>1 DEF Init, InitStore
<1>3. memory \in [Replicas -> [Tokens -> Nat]]
  BY DEF Init, InitStore
<1>4. keys \in [Replicas -> Nat]
  BY Constants DEF Init
<1>5. life \in [Replicas -> 0..MaxRestarts]
  BY Constants DEF Init
<1>6. tokens = <<>> /\ passes \in [Replicas -> Seq(1..MaxClock)]
  BY DEF Init
<1>7. tokens \in Seq(TokenType) /\ DOMAIN tokens \subseteq Tokens
  BY <1>6
<1>8. /\ revoked \in [Tokens -> SUBSET [replica : Replicas, life : Nat, shared : BOOLEAN]]
      /\ \A t \in Tokens : revoked[t] = {}
  BY DEF Init
<1> QED BY <1>1, <1>2, <1>3, <1>4, <1>5, <1>6, <1>7, <1>8 DEF TypeOK, TokenType

LEMMA TypeStep == TypeOK /\ [Next]_vars => TypeOK'
<1> SUFFICES ASSUME TypeOK, [Next]_vars PROVE TypeOK'
  OBVIOUS
<1> DEFINE Revocation == [replica : Replicas, life : Nat, shared : BOOLEAN]
<1>0. /\ clock \in 1..MaxClock /\ clock \in Nat
      /\ tokens \in Seq(TokenType) /\ DOMAIN tokens \subseteq Tokens
      /\ revoked \in [Tokens -> SUBSET Revocation]
      /\ \A t \in Tokens : revoked[t] # {} => t \in DOMAIN tokens
  BY Constants DEF TypeOK, TokenType
<1>p. passes \in [Replicas -> Seq(1..MaxClock)]
  BY DEF TypeOK
<1>1. ASSUME NEW r \in Replicas, Login(r) PROVE TypeOK'
  <2>1. Issued
    BY <1>1, LoginIssues
  <2>2. UNCHANGED <<storeVars, keys, life, revoked, passes>>
    BY <1>1 DEF Login
  <2> QED BY <2>1, <2>2 DEF TypeOK, Issued, TokenType, storeVars
<1>2. ASSUME NEW r \in Replicas, DevToken(r) PROVE TypeOK'
  <2>1. Issued
    BY <1>2, DevTokenIssues
  <2>2. UNCHANGED <<storeVars, keys, life, revoked, passes>>
    BY <1>2 DEF DevToken
  <2> QED BY <2>1, <2>2 DEF TypeOK, Issued, TokenType, storeVars
<1>3. ASSUME NEW r \in Replicas, NEW t \in Tokens, Refresh(r, t) PROVE TypeOK'
  <2>1. t \in DOMAIN tokens /\ NewAccess(r, t)
    BY <1>3 DEF Refresh
  <2>2. Issued
    BY <2>1, NewAccessIssues
  <2>3. memory' \in [Replicas -> [Tokens -> Nat]]
    BY <2>1, CheckedType DEF NewAccess
  <2>4. UNCHANGED <<clock, up, moves, denylist, connected, keys, life, revoked, passes>>
    BY <2>1 DEF NewAccess
  <2> QED BY <2>2, <2>3, <2>4 DEF TypeOK, Issued, TokenType
<1>4. ASSUME NEW r \in Replicas, NEW t \in Tokens, Logout(r, t) PROVE TypeOK'
  <2>1. t \in DOMAIN tokens /\ tokens[t].exp \in Nat
    BY <1>4, TokenAt DEF Logout, Accepts, Decodes
  <2>2. EntryEnd(tokens[t].exp) \in Nat
    BY <2>1, <1>0, EntryMissesASecond
  <2>3. denylist' \in [Tokens -> Nat]
    BY <1>4, <2>2 DEF Logout, Revoke, TypeOK
  <2>4. memory' \in [Replicas -> [Tokens -> Nat]]
    <3>1. memory' = memory \/ memory' = [memory EXCEPT ![r][t] = tokens[t].exp]
      BY <1>4 DEF Logout, Revoke
    <3>2. memory \in [Replicas -> [Tokens -> Nat]]
      BY DEF TypeOK
    <3> QED BY <2>1, <3>1, <3>2
  <2>5. PICK v : v = [replica |-> r, life |-> life[r], shared |-> UsesRedis(r)]
    OBVIOUS
  <2>6. v \in Revocation
    BY <2>5 DEF UsesRedis, TypeOK
  <2>7. revoked' = [revoked EXCEPT ![t] = revoked[t] \cup {v}]
    BY <1>4, <2>5 DEF Logout
  <2>8. revoked' \in [Tokens -> SUBSET Revocation]
    BY <1>0, <2>6, <2>7
  <2>9. \A u \in Tokens : revoked'[u] # {} => u \in DOMAIN tokens
    BY <1>0, <2>1, <2>7
  <2>10. UNCHANGED <<clock, up, moves, connected, tokens, keys, life, passes>>
    BY <1>4 DEF Logout
  <2> QED BY <2>3, <2>4, <2>8, <2>9, <2>10 DEF TypeOK, TokenType
<1>5. ASSUME NEW r \in Replicas, NEW t \in Tokens, Request(r, t) PROVE TypeOK'
  <2>1. memory' \in [Replicas -> [Tokens -> Nat]]
    <3>1. memory' = memory \/ memory' = Checked(r, t)
      BY <1>5 DEF Request
    <3>2. memory \in [Replicas -> [Tokens -> Nat]]
      BY DEF TypeOK
    <3> QED BY <3>1, <3>2, CheckedType
  <2>2. passes' \in [Replicas -> Seq(1..MaxClock)]
    <3>1. passes \in [Replicas -> Seq(1..MaxClock)]
      BY <1>p
    <3>2. passes[r] \in Seq(1..MaxClock)
      BY <3>1
    <3>3. PICK p : p = Append(passes[r], clock)
      OBVIOUS
    <3>4. p \in Seq(1..MaxClock)
      BY <1>0, <3>2, <3>3
    <3>5. passes' = passes \/ passes' = [passes EXCEPT ![r] = p]
      BY <1>5, <3>3 DEF Request
    <3> QED BY <3>1, <3>4, <3>5
  <2>3. UNCHANGED <<clock, up, moves, denylist, connected, tokens, keys, life, revoked>>
    BY <1>5 DEF Request
  <2> QED BY <2>1, <2>2, <2>3 DEF TypeOK
<1>6. ASSUME NEW r \in Replicas, Restart(r) PROVE TypeOK'
  <2>1. life' \in [Replicas -> 0..MaxRestarts]
    BY <1>6, Constants DEF Restart, TypeOK
  <2>2. keys' \in [Replicas -> Nat]
    BY <1>6, Constants DEF Restart, TypeOK
  <2>3. memory' \in [Replicas -> [Tokens -> Nat]] /\ connected' \in [Replicas -> BOOLEAN]
    <3>1. up \in BOOLEAN /\ connected' = [connected EXCEPT ![r] = up]
      BY <1>6 DEF Restart, Reconnect, TypeOK
    <3>2. memory' = [memory EXCEPT ![r] = [u \in Tokens |-> 0]]
      BY <1>6 DEF Restart, Reconnect
    <3>3. connected \in [Replicas -> BOOLEAN] /\ memory \in [Replicas -> [Tokens -> Nat]]
      BY DEF TypeOK
    <3>4. connected' \in [Replicas -> BOOLEAN]
      BY <3>1, <3>3
    <3>5. [u \in Tokens |-> 0] \in [Tokens -> Nat]
      OBVIOUS
    <3>6. memory' \in [Replicas -> [Tokens -> Nat]]
      BY <3>2, <3>3, <3>5
    <3> QED BY <3>4, <3>6
  <2>4. passes' \in [Replicas -> Seq(1..MaxClock)]
    <3>1. passes' = [passes EXCEPT ![r] = <<>>]
      BY <1>6 DEF Restart
    <3>2. <<>> \in Seq(1..MaxClock)
      OBVIOUS
    <3> QED BY <1>p, <3>1, <3>2
  <2>5. UNCHANGED <<clock, up, moves, denylist, tokens, revoked>>
    BY <1>6 DEF Restart
  <2> QED BY <2>1, <2>2, <2>3, <2>4, <2>5 DEF TypeOK
<1>7. CASE Redis
  <2>1. up' \in BOOLEAN /\ moves' \in 0..MaxMoves
    <3>1. up' \in BOOLEAN
      BY <1>7 DEF Redis, RedisFails, RedisReturns
    <3>2. moves < MaxMoves /\ moves' = moves + 1 /\ moves \in 0..MaxMoves
      BY <1>7 DEF Redis, RedisFails, RedisReturns, TypeOK
    <3> QED BY <3>1, <3>2, Constants
  <2>2. UNCHANGED <<clock, denylist, connected, memory, tokens, keys, life, revoked, passes>>
    BY <1>7 DEF Redis
  <2> QED BY <2>1, <2>2 DEF TypeOK
<1>8. CASE Tick
  <2>1. clock' \in 1..MaxClock
    BY <1>8, Constants DEF Tick, TypeOK
  <2>2. UNCHANGED <<up, moves, denylist, connected, memory, tokens, keys, life, revoked, passes>>
    BY <1>8 DEF Tick
  <2> QED BY <2>1, <2>2 DEF TypeOK
<1>9. CASE UNCHANGED vars
  BY <1>9 DEF TypeOK, vars, storeVars
<1> QED BY <1>1, <1>2, <1>3, <1>4, <1>5, <1>6, <1>7, <1>8, <1>9 DEF Next

\* The gateway's variables keep their types, and only issued tokens are revoked.
THEOREM TypeCorrect == Spec => []TypeOK
  BY TypeInit, TypeStep, PTL DEF Spec

-----------------------------------------------------------------------------
(* Entries *)

\* A revocation is a record of a token that was issued.
LEMMA RevocationAt ==
  ASSUME TypeOK, NEW t \in Tokens, NEW v \in revoked[t]
  PROVE  /\ t \in DOMAIN tokens /\ tokens[t].exp \in Nat
         /\ v.replica \in Replicas /\ v.life \in Nat /\ v.shared \in BOOLEAN
<1>1. v \in [replica : Replicas, life : Nat, shared : BOOLEAN]
  BY DEF TypeOK
<1>2. t \in DOMAIN tokens
  BY DEF TypeOK
<1> QED BY <1>1, <1>2, TokenAt

\* What holds of the entries of one revocation.
EntryLasts(t, v) ==
  /\ v.life <= life[v.replica]
  /\ v.shared => denylist[t] > tokens[t].exp - Second
  /\ ~v.shared /\ v.life = life[v.replica] =>
       memory[v.replica][t] = tokens[t].exp \/ clock > tokens[t].exp

LEMMA EachLasts == EntriesLast <=> \A t \in Tokens : \A v \in revoked[t] : EntryLasts(t, v)
  BY DEF EntriesLast, EntryLasts

\* Entries outlast a step that revokes nothing, restarts nothing, and drops
\* from memory only what has expired.
LEMMA EntriesStay ==
  ASSUME TypeOK, EntriesLast, UNCHANGED <<clock, denylist, life, revoked>>,
         \A i \in DOMAIN tokens : tokens'[i] = tokens[i],
         \A s \in Replicas, u \in Tokens : memory'[s][u] = memory[s][u] \/ memory[s][u] < clock
  PROVE  EntriesLast'
<1> SUFFICES ASSUME NEW u \in Tokens, NEW v \in revoked[u] PROVE EntryLasts(u, v)'
  BY EachLasts DEF EntriesLast, EntryLasts
<1>1. EntryLasts(u, v) /\ u \in DOMAIN tokens /\ v.replica \in Replicas /\ tokens[u].exp \in Nat
  BY EachLasts, RevocationAt
<1>2. memory'[v.replica][u] = memory[v.replica][u] \/ memory[v.replica][u] < clock
  BY <1>1
<1>3. tokens'[u] = tokens[u]
  BY <1>1
<1>4. clock \in Nat /\ memory[v.replica][u] \in Nat
  BY <1>1 DEF TypeOK
<1> QED BY <1>1, <1>2, <1>3, <1>4 DEF EntryLasts

\* A restart takes the memory of a process and begins another life of it.
LEMMA EntriesOutliveRestart ==
  ASSUME TypeOK, EntriesLast, NEW r \in Replicas, Restart(r)
  PROVE  EntriesLast'
<1> SUFFICES ASSUME NEW u \in Tokens, NEW v \in revoked[u] PROVE EntryLasts(u, v)'
  BY EachLasts DEF EntriesLast, EntryLasts, Restart
<1>1. EntryLasts(u, v) /\ v.replica \in Replicas /\ v.life \in Nat
  BY EachLasts, RevocationAt
<1>2. life \in [Replicas -> Nat]
  BY Constants DEF TypeOK
<1>3. life' = [life EXCEPT ![r] = life[r] + 1]
  BY DEF Restart
<1>4. UNCHANGED <<clock, denylist, tokens, revoked>>
  BY DEF Restart
<1>5. CASE v.replica = r
  <2>1. v.life < life'[v.replica]
    BY <1>1, <1>2, <1>3, <1>5 DEF EntryLasts
  <2>2. life'[v.replica] \in Nat
    BY <1>1, <1>2, <1>3
  <2> QED BY <1>1, <1>4, <2>1, <2>2 DEF EntryLasts
<1>6. CASE v.replica # r
  <2>1. life'[v.replica] = life[v.replica]
    BY <1>1, <1>2, <1>3, <1>6
  <2>2. memory' = [memory EXCEPT ![r] = [x \in Tokens |-> 0]] /\ memory \in [Replicas -> [Tokens -> Nat]]
    BY DEF Restart, Reconnect, TypeOK
  <2>3. memory'[v.replica] = memory[v.replica]
    BY <1>1, <1>6, <2>2
  <2> QED BY <1>1, <1>4, <2>1, <2>3 DEF EntryLasts
<1> QED BY <1>5, <1>6

\* A logout writes an entry that lasts, wherever it goes, and spoils none.
LEMMA EntriesOutliveLogout ==
  ASSUME TypeOK, EntriesLast, NEW r \in Replicas, NEW t \in Tokens, Logout(r, t)
  PROVE  EntriesLast'
<1>1. t \in DOMAIN tokens /\ tokens[t].exp \in Nat
  BY TokenAt DEF Logout, Accepts, Decodes
<1>2. EntryEnd(tokens[t].exp) \in Nat /\ EntryEnd(tokens[t].exp) > tokens[t].exp - Second
  <2>1. clock \in Nat
    BY DEF TypeOK
  <2> QED BY <1>1, <2>1, EntryMissesASecond
<1>3. UNCHANGED <<clock, tokens, life>>
  BY DEF Logout
<1>4. PICK new : new = [replica |-> r, life |-> life[r], shared |-> UsesRedis(r)]
  OBVIOUS
<1>5. revoked' = [revoked EXCEPT ![t] = revoked[t] \cup {new}]
  BY <1>4 DEF Logout
<1>6. /\ denylist' = denylist \/ denylist' = [denylist EXCEPT ![t] = EntryEnd(tokens[t].exp)]
      /\ memory' = memory \/ memory' = [memory EXCEPT ![r][t] = tokens[t].exp]
  BY DEF Logout, Revoke
<1>7. /\ new.shared => denylist' = [denylist EXCEPT ![t] = EntryEnd(tokens[t].exp)]
      /\ ~new.shared => memory' = [memory EXCEPT ![r][t] = tokens[t].exp]
  BY <1>4 DEF Logout, Revoke
<1>8. denylist \in [Tokens -> Nat] /\ memory \in [Replicas -> [Tokens -> Nat]] /\ life \in [Replicas -> Nat]
  BY Constants DEF TypeOK
<1> SUFFICES ASSUME NEW u \in Tokens, NEW v \in revoked'[u] PROVE EntryLasts(u, v)'
  BY EachLasts DEF EntriesLast, EntryLasts
<1>9. ASSUME v \in revoked[u] PROVE EntryLasts(u, v)'
  <2>1. EntryLasts(u, v) /\ v.replica \in Replicas /\ tokens[u].exp \in Nat
    BY <1>9, EachLasts, RevocationAt
  <2>2. denylist'[u] = denylist[u] \/ denylist'[u] > tokens[u].exp - Second
    BY <1>2, <1>6, <1>8
  <2>3. memory'[v.replica][u] = memory[v.replica][u] \/ memory'[v.replica][u] = tokens[u].exp
    <3>1. CASE memory' = memory
      BY <3>1
    <3>2. CASE memory' = [memory EXCEPT ![r][t] = tokens[t].exp]
      <4>1. \A s \in Replicas, x \in Tokens :
              memory'[s][x] = IF s = r /\ x = t THEN tokens[t].exp ELSE memory[s][x]
        BY <1>8, <3>2
      <4> QED BY <2>1, <4>1
    <3> QED BY <1>6, <3>1, <3>2
  <2> QED BY <1>3, <2>1, <2>2, <2>3 DEF EntryLasts
<1>10. CASE v \notin revoked[u]
  <2>1. u = t /\ v = new
    BY <1>5, <1>10 DEF TypeOK
  <2>2. v.replica = r /\ v.life = life[r]
    BY <1>4, <2>1
  <2>3. v.shared => denylist'[t] > tokens[t].exp - Second
    BY <1>2, <1>7, <1>8, <2>1
  <2>4. ~v.shared => memory'[r][t] = tokens[t].exp
    BY <1>7, <1>8, <2>1
  <2>5. life[r] \in Nat
    BY <1>8
  <2> QED BY <1>3, <2>1, <2>2, <2>3, <2>4, <2>5 DEF EntryLasts
<1> QED BY <1>9, <1>10

-----------------------------------------------------------------------------
(* What is accepted *)

\* When the gateway may accept a token in spite of a revocation of it.
Excused(r, t, v) ==
  \/ clock > tokens[t].exp - Second
  \/ v.shared /\ ~UsesRedis(r)
  \/ ~v.shared /\ (UsesRedis(r) \/ r # v.replica \/ life[r] # v.life)

LEMMA AcceptedIsExcused ==
  ASSUME TypeOK, EntriesLast, NEW r \in Replicas, NEW t \in Tokens, Accepts(r, t),
         NEW v \in revoked[t]
  PROVE  Excused(r, t, v)
<1>1. EntryLasts(t, v) /\ tokens[t].exp \in Nat
  BY EachLasts, RevocationAt
<1>2. clock \in Nat \ {0} /\ denylist[t] \in Nat /\ memory[r][t] \in Nat /\ Second \in Nat \ {0}
  BY Constants DEF TypeOK
<1>3. ~IsRevoked(r, t)
  BY DEF Accepts
<1>4. CASE UsesRedis(r)
  <2>1. denylist[t] <= clock
    BY <1>2, <1>3, <1>4 DEF IsRevoked
  <2>2. CASE v.shared
    BY <1>1, <1>2, <2>1, <2>2 DEF EntryLasts, Excused
  <2> QED BY <1>4, <2>2 DEF Excused
<1>5. CASE ~UsesRedis(r)
  <2>1. memory[r][t] < clock
    BY <1>2, <1>3, <1>5 DEF IsRevoked
  <2>2. CASE v.shared
    BY <1>5, <2>2 DEF Excused
  <2>3. CASE ~v.shared /\ v.replica = r /\ v.life = life[r]
    BY <1>1, <1>2, <2>1, <2>3 DEF EntryLasts, Excused
  <2> QED BY <2>2, <2>3 DEF Excused
<1> QED BY <1>4, <1>5

\* A request or call that is accepted leaves RevocationHolds true.
LEMMA AnswerHolds ==
  ASSUME TypeOK, EntriesLast, NEW r \in Replicas, NEW t \in DOMAIN tokens, NEW outcome,
         answer' = Answer(outcome, r, t), outcome = "accepted" => Accepts(r, t),
         UNCHANGED <<clock, up, connected, life>>, tokens'[t] = tokens[t]
  PROVE  RevocationHolds'
<1>1. /\ answer'.outcome = outcome /\ answer'.replica = r
      /\ answer'.token = t /\ answer'.revoked = revoked[t]
  BY DEF Answer
<1>2. UsesRedis(r)' = UsesRedis(r)
  BY DEF UsesRedis
<1>3. ASSUME outcome = "accepted", NEW v \in revoked[t] PROVE Excused(r, t, v)
  <2>1. t \in Tokens
    BY DEF TypeOK
  <2> QED BY <1>3, <2>1, AcceptedIsExcused
<1> QED BY <1>1, <1>2, <1>3 DEF RevocationHolds, AcceptedRevoked, Excused, UsesRedis

-----------------------------------------------------------------------------
(* Lifetimes *)

\* A token ends in time for its kind.
InTime(e) ==
  /\ e.kind = "refresh" => e.exp <= e.start + RefreshLife
  /\ e.kind = "access" => e.exp <= e.start + RefreshLife + AccessLife + (Second - 1)

LEMMA OneInTime ==
  ASSUME TypeOK, Lifetimes, NEW e, InTime(e), tokens' = Append(tokens, e)
  PROVE  Lifetimes'
<1> SUFFICES ASSUME NEW i \in DOMAIN tokens' PROVE InTime(tokens'[i])
  BY DEF Lifetimes, InTime
<1>1. tokens \in Seq(TokenType)
  BY DEF TypeOK, TokenType
<1>2. CASE i = Len(tokens) + 1
  BY <1>1, <1>2
<1>3. CASE i # Len(tokens) + 1
  <2>1. i \in DOMAIN tokens /\ tokens'[i] = tokens[i]
    BY <1>1, <1>3
  <2> QED BY <2>1 DEF Lifetimes, InTime
<1> QED BY <1>2, <1>3

LEMMA TwoInTime ==
  ASSUME TypeOK, Lifetimes, NEW e, NEW f, InTime(e), InTime(f), tokens' = tokens \o <<e, f>>
  PROVE  Lifetimes'
<1> SUFFICES ASSUME NEW i \in DOMAIN tokens' PROVE InTime(tokens'[i])
  BY DEF Lifetimes, InTime
<1>1. tokens \in Seq(TokenType)
  BY DEF TypeOK, TokenType
<1>2. /\ tokens'[Len(tokens) + 1] = e /\ tokens'[Len(tokens) + 2] = f
      /\ DOMAIN tokens' = 1..(Len(tokens) + 2)
      /\ \A j \in DOMAIN tokens : tokens'[j] = tokens[j]
      /\ DOMAIN tokens = 1..Len(tokens) /\ Len(tokens) \in Nat
  BY <1>1
<1>3. CASE i \in DOMAIN tokens
  BY <1>2, <1>3 DEF Lifetimes, InTime
<1>4. CASE i \notin DOMAIN tokens
  <2>1. i = Len(tokens) + 1 \/ i = Len(tokens) + 2
    BY <1>2, <1>4
  <2> QED BY <1>2, <2>1
<1> QED BY <1>3, <1>4

LEMMA LifetimesStep == TypeOK /\ Lifetimes /\ [Next]_vars => Lifetimes'
<1> SUFFICES ASSUME TypeOK, Lifetimes, [Next]_vars PROVE Lifetimes'
  OBVIOUS
<1>0. clock \in Nat
  BY DEF TypeOK
<1>1. ASSUME NEW r \in Replicas, Login(r) PROVE Lifetimes'
  <2>1. /\ InTime(Token("access", r, clock + AccessLife, clock))
        /\ InTime(Token("refresh", r, clock + RefreshLife, clock))
    BY <1>0, Constants DEF InTime, Token
  <2> QED BY <1>1, <2>1, TwoInTime DEF Login
<1>2. ASSUME NEW r \in Replicas, DevToken(r) PROVE Lifetimes'
  <2>1. InTime(Token("dev", r, clock + DevLife, clock))
    BY DEF InTime, Token
  <2> QED BY <1>2, <2>1, OneInTime DEF DevToken
<1>3. ASSUME NEW r \in Replicas, NEW t \in Tokens, Refresh(r, t) PROVE Lifetimes'
  <2>1. t \in DOMAIN tokens /\ tokens[t].kind = "refresh" /\ NewAccess(r, t)
    BY <1>3 DEF Refresh
  <2>2. tokens[t].exp \in Nat /\ tokens[t].start \in Nat
    BY <2>1, TokenAt
  <2>3. clock <= tokens[t].exp + (Second - 1)
    BY <1>0, <2>1, <2>2, TakenWithinASecond DEF NewAccess, Accepts, Decodes
  <2>4. tokens[t].exp <= tokens[t].start + RefreshLife
    BY <2>1 DEF Lifetimes
  <2>5. InTime(Token("access", r, clock + AccessLife, tokens[t].start))
    BY <1>0, <2>2, <2>3, <2>4, Constants DEF InTime, Token
  <2> QED BY <2>1, <2>5, OneInTime DEF NewAccess
<1>4. ASSUME UNCHANGED tokens PROVE Lifetimes'
  BY <1>4 DEF Lifetimes
<1>5. ASSUME NEW r \in Replicas, NEW t \in Tokens, Logout(r, t) \/ Request(r, t) PROVE Lifetimes'
  BY <1>4, <1>5 DEF Logout, Request
<1>6. ASSUME NEW r \in Replicas, Restart(r) PROVE Lifetimes'
  BY <1>4, <1>6 DEF Restart
<1>7. CASE Redis \/ Tick \/ UNCHANGED vars
  BY <1>4, <1>7 DEF Redis, Tick, vars
<1> QED BY <1>1, <1>2, <1>3, <1>5, <1>6, <1>7 DEF Next

-----------------------------------------------------------------------------
(* The invariant *)

LEMMA IInvInit == Init => IInv
<1> SUFFICES ASSUME Init PROVE IInv
  OBVIOUS
<1>1. TypeOK
  BY TypeInit
<1>2. EntriesLast
  BY DEF Init, EntriesLast
<1>3. Lifetimes
  BY DEF Init, Lifetimes
<1>4. RevocationHolds
  BY DEF Init, NoAnswer, RevocationHolds, AcceptedRevoked
<1> QED BY <1>1, <1>2, <1>3, <1>4 DEF IInv

LEMMA IInvStep == IInv /\ [Next]_vars => IInv'
<1> SUFFICES ASSUME IInv, [Next]_vars PROVE EntriesLast' /\ RevocationHolds'
  BY TypeStep, LifetimesStep DEF IInv
<1>0. TypeOK /\ EntriesLast /\ RevocationHolds
  BY DEF IInv
<1>a. ASSUME answer' = NoAnswer PROVE RevocationHolds'
  BY <1>a DEF NoAnswer, RevocationHolds, AcceptedRevoked
<1>1. ASSUME NEW r \in Replicas, Login(r) PROVE EntriesLast' /\ RevocationHolds'
  <2>1. Issued /\ UNCHANGED <<clock, denylist, memory, life, revoked>>
    BY <1>0, <1>1, LoginIssues DEF Login, storeVars
  <2>2. EntriesLast'
    BY <1>0, <2>1, EntriesStay DEF Issued
  <2> QED BY <1>1, <1>a, <2>2 DEF Login
<1>2. ASSUME NEW r \in Replicas, DevToken(r) PROVE EntriesLast' /\ RevocationHolds'
  <2>1. Issued /\ UNCHANGED <<clock, denylist, memory, life, revoked>>
    BY <1>0, <1>2, DevTokenIssues DEF DevToken, storeVars
  <2>2. EntriesLast'
    BY <1>0, <2>1, EntriesStay DEF Issued
  <2> QED BY <1>2, <1>a, <2>2 DEF DevToken
<1>3. ASSUME NEW r \in Replicas, NEW t \in Tokens, Refresh(r, t) PROVE EntriesLast' /\ RevocationHolds'
  <2>1. t \in DOMAIN tokens /\ NewAccess(r, t)
    BY <1>3 DEF Refresh
  <2>2. Issued
    BY <1>0, <2>1, NewAccessIssues
  <2>3. UNCHANGED <<clock, up, denylist, connected, life, revoked>> /\ memory' = Checked(r, t)
    BY <2>1 DEF NewAccess
  <2>4. \A s \in Replicas, u \in Tokens : memory'[s][u] = memory[s][u] \/ memory[s][u] < clock
    BY <1>0, <2>3, CheckedType
  <2>5. EntriesLast'
    BY <1>0, <2>2, <2>3, <2>4, EntriesStay DEF Issued
  <2>6. answer' = Answer("accepted", r, t) /\ Accepts(r, t)
    BY <2>1 DEF NewAccess
  <2>7. RevocationHolds'
    BY <1>0, <2>1, <2>2, <2>3, <2>6, AnswerHolds DEF Issued
  <2> QED BY <2>5, <2>7
<1>4. ASSUME NEW r \in Replicas, NEW t \in Tokens, Logout(r, t) PROVE EntriesLast' /\ RevocationHolds'
  <2>1. EntriesLast'
    BY <1>0, <1>4, EntriesOutliveLogout
  <2>2. t \in DOMAIN tokens /\ Accepts(r, t) /\ answer' = Answer("accepted", r, t)
    BY <1>4 DEF Logout, Accepts, Decodes
  <2>3. UNCHANGED <<clock, up, connected, life, tokens>>
    BY <1>4 DEF Logout
  <2>4. RevocationHolds'
    BY <1>0, <2>2, <2>3, AnswerHolds
  <2> QED BY <2>1, <2>4
<1>5. ASSUME NEW r \in Replicas, NEW t \in Tokens, Request(r, t) PROVE EntriesLast' /\ RevocationHolds'
  <2>1. UNCHANGED <<clock, up, denylist, connected, tokens, life, revoked>>
    BY <1>5 DEF Request
  <2>2. memory' = memory \/ memory' = Checked(r, t)
    BY <1>5 DEF Request
  <2>3. \A s \in Replicas, u \in Tokens : memory'[s][u] = memory[s][u] \/ memory[s][u] < clock
    BY <1>0, <2>2, CheckedType
  <2>4. EntriesLast'
    BY <1>0, <2>1, <2>3, EntriesStay
  <2>5. t \in DOMAIN tokens
    BY <1>5 DEF Request
  <2>6. PICK outcome : answer' = Answer(outcome, r, t) /\ (outcome = "accepted" => Accepts(r, t))
    <3>1. CASE Full(window[r], clock)
      BY <1>5, <3>1 DEF Request
    <3>2. CASE ~Full(window[r], clock) /\ Accepts(r, t)
      BY <1>5, <3>2 DEF Request
    <3>3. CASE ~Full(window[r], clock) /\ ~Accepts(r, t)
      BY <1>5, <3>3 DEF Request
    <3> QED BY <3>1, <3>2, <3>3
  <2>7. RevocationHolds'
    BY <1>0, <2>1, <2>5, <2>6, AnswerHolds
  <2> QED BY <2>4, <2>7
<1>6. ASSUME NEW r \in Replicas, Restart(r) PROVE EntriesLast' /\ RevocationHolds'
  <2>1. EntriesLast'
    BY <1>0, <1>6, EntriesOutliveRestart
  <2> QED BY <1>6, <1>a, <2>1 DEF Restart
<1>7. CASE Redis
  <2>1. UNCHANGED <<clock, denylist, memory, tokens, life, revoked>> /\ answer' = NoAnswer
    BY <1>7 DEF Redis
  <2>2. EntriesLast'
    BY <1>0, <2>1, EntriesStay
  <2> QED BY <1>a, <2>1, <2>2
<1>8. CASE Tick
  <2>1. clock' = clock + 1 /\ answer' = NoAnswer /\ UNCHANGED <<denylist, memory, tokens, life, revoked>>
    BY <1>8 DEF Tick
  <2>2. ASSUME NEW u \in Tokens, NEW v \in revoked[u] PROVE EntryLasts(u, v)'
    <3>1. EntryLasts(u, v)
      BY <1>0, EachLasts
    <3>2. tokens[u].exp \in Nat
      BY <1>0, RevocationAt
    <3>3. clock \in Nat
      BY ONLY <1>0 DEF TypeOK
    <3> QED BY <2>1, <3>1, <3>2, <3>3 DEF EntryLasts
  <2>3. EntriesLast'
    BY <2>1, <2>2 DEF EntriesLast, EntryLasts
  <2> QED BY <1>a, <2>1, <2>3
<1>9. CASE UNCHANGED vars
  <2>1. UNCHANGED <<clock, up, denylist, connected, memory, tokens, life, revoked, answer>>
    BY <1>9 DEF vars, storeVars
  <2> QED BY <1>0, <2>1 DEF EntriesLast, RevocationHolds, AcceptedRevoked, UsesRedis
<1> QED BY <1>1, <1>2, <1>3, <1>4, <1>5, <1>6, <1>7, <1>8, <1>9 DEF Next

LEMMA IInvAlways == Spec => []IInv
  BY IInvInit, IInvStep, PTL DEF Spec

\* A token that was logged out is not accepted where the store its logout was
\* written to is asked, but for its last second.
THEOREM RevocationHoldsAlways == Spec => []RevocationHolds
<1>1. IInv => RevocationHolds
  BY DEF IInv
<1> QED BY <1>1, IInvAlways, PTL

\* A session ends a refresh and an access lifetime after its login, whoever
\* refreshes it and however often.
THEOREM SessionEndsAlways == Spec => []SessionEnds
<1>1. ASSUME IInv, NEW i \in DOMAIN tokens, tokens[i].kind # "dev"
      PROVE  tokens[i].exp <= tokens[i].start + RefreshLife + AccessLife + (Second - 1)
  <2>1. tokens[i] \in TokenType /\ tokens[i].exp \in Nat /\ tokens[i].start \in Nat
    BY <1>1, TokenAt DEF IInv
  <2>2. tokens[i].kind = "refresh" \/ tokens[i].kind = "access"
    BY <1>1, <2>1 DEF TokenType
  <2> QED BY <1>1, <2>1, <2>2, Constants DEF IInv, Lifetimes
<1>2. IInv => SessionEnds
  BY <1>1 DEF SessionEnds
<1> QED BY <1>2, IInvAlways, PTL

-----------------------------------------------------------------------------
(* The window.  A filter keeps a suffix of times that never decrease, so    *)
(* the window of a process is always the end of what it let through, and    *)
(* what it no longer holds is at least Window old.                          *)

Ordered(times) == \A i, j \in 1..Len(times) : i <= j => times[i] <= times[j]

\* w is what follows the k-th of the first n times.
Follow(w, times, n, k) ==
  /\ w \in Seq(Nat) /\ k \in 0..n /\ Len(w) = n - k
  /\ \A x \in 1..n - k : w[x] = times[k + x]

\* The first k of the first n times are old at a cutoff, the others are not.
SplitAt(times, n, k, cutoff) ==
  /\ \A x \in 1..k : times[x] <= cutoff
  /\ \A x \in k + 1..n : times[x] > cutoff

KeptStep(times, cutoff, kept, i) ==
  IF times[i] > cutoff THEN Append(kept, times[i]) ELSE kept

LEMMA RecentUnfolds ==
  ASSUME NEW times \in Seq(Nat), NEW now \in Nat
  PROVE  \E kept : /\ Recent(times, now) = kept[Len(times)] /\ kept[0] = <<>>
                   /\ \A i \in 1..Len(times) :
                        kept[i] = KeptStep(times, now - Window, kept[i - 1], i)
<1> DEFINE n == Len(times)
           c == now - Window
           S == Seq(Nat)
           body(kept) == [i \in 0..n |->
             IF i = 0 THEN <<>>
             ELSE IF times[i] > c THEN Append(kept[i - 1], times[i]) ELSE kept[i - 1]]
           d == [i \in Nat |-> [v \in S |-> IF i \in 1..n THEN KeptStep(times, c, v, i) ELSE v]]
           q == CHOOSE kept : kept = body(kept)
<1>1. Stepwise(d, S)
  <2>1. ASSUME NEW i \in Nat, NEW v \in S, i \in 1..n PROVE KeptStep(times, c, v, i) \in S
    <3>1. times[i] \in Nat
      BY <2>1
    <3> QED BY <3>1 DEF KeptStep
  <2> HIDE DEF c, n, S
  <2> QED BY <2>1 DEF Stepwise
<1>2. PICK f : Recurs(f, S, <<>>, d)
  <2>1. <<>> \in S
    OBVIOUS
  <2> HIDE DEF d, S
  <2> QED BY <1>1, <2>1, RecursionOnNat
<1> DEFINE g == [i \in 0..n |-> f[i]]
<1>3. g = body(g)
  <2>1. n \in Nat
    OBVIOUS
  <2>2. g[0] = <<>>
    BY <1>2, <2>1 DEF Recurs
  <2>3. ASSUME NEW i \in 1..n PROVE g[i] = KeptStep(times, c, g[i - 1], i)
    <3>1. i \in Nat \ {0} /\ i - 1 \in Nat /\ i - 1 \in 0..n
      OBVIOUS
    <3>2. f[i] = d[i][f[i - 1]] /\ f[i - 1] \in S
      BY <1>2, <3>1 DEF Recurs
    <3>3. d[i][f[i - 1]] = KeptStep(times, c, f[i - 1], i)
      BY <3>1, <3>2
    <3> QED BY <3>1, <3>2, <3>3
  <2>4. \A i \in 0..n : i = 0 \/ i \in 1..n
    BY <2>1
  <2>5. \A i \in 0..n : g[i] = body(g)[i]
    <3> HIDE DEF g, c, n
    <3> QED BY <2>2, <2>3, <2>4 DEF KeptStep
  <2> QED BY <2>5
<1>4. q = body(q)
  <2> HIDE DEF g, body
  <2> QED BY <1>3
<1>5. Recent(times, now) = q[n]
  BY DEF Recent
<1> HIDE DEF q
<1>6. q[0] = <<>> /\ \A i \in 1..n : q[i] = KeptStep(times, c, q[i - 1], i)
  <2>1. 0 \in 0..n /\ \A i \in 1..n : i \in 0..n /\ i # 0
    OBVIOUS
  <2> QED BY <1>4, <2>1 DEF KeptStep
<1> QED BY <1>5, <1>6

LEMMA RecentIsTheEnd ==
  ASSUME NEW times \in Seq(Nat), NEW now \in Nat, Ordered(times)
  PROVE  \E k \in 0..Len(times) : /\ Follow(Recent(times, now), times, Len(times), k)
                                  /\ SplitAt(times, Len(times), k, now - Window)
<1> DEFINE n == Len(times)
           c == now - Window
<1>1. PICK kept : /\ Recent(times, now) = kept[n] /\ kept[0] = <<>>
                  /\ \A i \in 1..n : kept[i] = KeptStep(times, c, kept[i - 1], i)
  BY RecentUnfolds
<1> DEFINE Split(i) == \E k \in 0..i : Follow(kept[i], times, i, k) /\ SplitAt(times, i, k, c)
           S == {i \in Nat : i <= n => Split(i)}
<1>2. 0 \in S
  <2>1. Follow(kept[0], times, 0, 0) /\ SplitAt(times, 0, 0, c)
    BY <1>1 DEF Follow, SplitAt
  <2> QED BY <2>1
<1>3. ASSUME NEW i \in S PROVE i + 1 \in S
  <2> SUFFICES ASSUME i + 1 <= n PROVE Split(i + 1)
    OBVIOUS
  <2> DEFINE j == i + 1
  <2>1. j \in 1..n /\ j - 1 = i /\ i \in Nat /\ times[j] \in Nat /\ c \in Int
    BY LimitAssumption
  <2>2. PICK k \in 0..i : Follow(kept[i], times, i, k) /\ SplitAt(times, i, k, c)
    BY <2>1
  <2>3. kept[j] = KeptStep(times, c, kept[i], j)
    BY <1>1, <2>1
  <2> HIDE DEF c
  <2>4. CASE times[j] > c
    <3>1. kept[j] = Append(kept[i], times[j])
      BY <2>3, <2>4 DEF KeptStep
    <3> DEFINE w == kept[i]
               t == times[j]
    <3>0. /\ w \in Seq(Nat) /\ t \in Nat /\ Len(w) = i - k /\ kept[j] = Append(w, t)
          /\ k \in Nat /\ k <= i /\ \A x \in 1..i - k : w[x] = times[k + x]
      BY <2>1, <2>2, <3>1 DEF Follow
    <3> HIDE DEF w
    <3>2. kept[j] \in Seq(Nat) /\ Len(kept[j]) = j - k
      BY <2>1, <3>0
    <3>3. ASSUME NEW x \in 1..j - k PROVE kept[j][x] = times[k + x]
      <4>1. CASE x = j - k
        <5>1. x = Len(w) + 1 /\ k + x = j
          BY <2>1, <3>0, <4>1
        <5>2. Append(w, t)[Len(w) + 1] = t
          BY <3>0
        <5>3. kept[j][x] = t
          BY <3>0, <5>1, <5>2
        <5> QED BY <5>1, <5>3
      <4>2. CASE x # j - k
        <5>1. x \in 1..i - k /\ x \in 1..Len(w)
          BY <2>1, <3>0, <4>2
        <5>2. Append(w, t)[x] = w[x]
          BY <3>0, <5>1
        <5> HIDE DEF t
        <5> QED BY <3>0, <5>1, <5>2
      <4> QED BY <4>1, <4>2
    <3>4. Follow(kept[j], times, j, k)
      BY <2>1, <3>2, <3>3 DEF Follow
    <3>5. SplitAt(times, j, k, c)
      BY <2>1, <2>2, <2>4 DEF SplitAt
    <3> QED BY <2>1, <3>4, <3>5
  <2>5. CASE ~(times[j] > c)
    <3>1. kept[j] = kept[i]
      BY <2>3, <2>5 DEF KeptStep
    <3>2. \A x \in 1..j : times[x] <= c
      <4>0. j \in 1..Len(times) /\ \A x \in 1..j : x \in 1..Len(times) /\ x <= j
        BY <2>1
      <4>1. \A x \in 1..j : times[x] \in Nat /\ times[x] <= times[j]
        BY ONLY <4>0, Ordered(times), times \in Seq(Nat) DEF Ordered
      <4> QED BY <2>1, <2>5, <4>1
    <3>3. k = i
      <4>1. CASE k < i
        <5>1. times[i] > c
          BY <2>1, <2>2, <4>1 DEF SplitAt
        <5>2. times[i] <= c /\ times[i] \in Nat
          BY <2>1, <2>2, <3>2, <4>1
        <5> QED BY <2>1, <5>1, <5>2
      <4> QED BY <2>1, <4>1
    <3>4. kept[j] = <<>>
      BY <2>1, <2>2, <3>1, <3>3 DEF Follow
    <3>5. Follow(kept[j], times, j, j) /\ SplitAt(times, j, j, c)
      BY <2>1, <3>2, <3>4 DEF Follow, SplitAt
    <3> QED BY <2>1, <3>5
  <2> QED BY <2>4, <2>5
<1>4. S \subseteq Nat
  OBVIOUS
<1> HIDE DEF S
<1>5. S = Nat
  BY <1>2, <1>3, <1>4, NatSetInduction
<1>6. n \in S /\ n \in Nat
  BY <1>5
<1> QED BY <1>1, <1>6 DEF S

Recorded(r) ==
  /\ Ordered(passes[r])
  /\ \A i \in 1..Len(passes[r]) : passes[r][i] <= clock
  /\ \E k \in 0..Len(passes[r]) :
       /\ Follow(window[r], passes[r], Len(passes[r]), k)
       /\ \A x \in 1..k : passes[r][x] <= clock - Window

WindowInv ==
  /\ window \in [Replicas -> Seq(Nat)]
  /\ \A r \in Replicas : Recorded(r)

LimitInv == TypeOK /\ WindowInv /\ NoBurst /\ DeniedOnlyWhenFull

LEMMA PassesAt ==
  ASSUME TypeOK, NEW r \in Replicas
  PROVE  /\ passes[r] \in Seq(Nat) /\ Len(passes[r]) \in Nat /\ DOMAIN passes[r] = 1..Len(passes[r])
         /\ \A i \in 1..Len(passes[r]) : passes[r][i] \in Nat
         /\ clock \in Nat /\ Window \in Nat \ {0} /\ Limit \in Nat \ {0}
<1>1. passes[r] \in Seq(1..MaxClock)
  BY DEF TypeOK
<1>2. passes[r] \in Seq(Nat)
  <2>1. 1..MaxClock \subseteq Nat
    OBVIOUS
  <2> QED BY <1>1, <2>1, SeqOfSubset
<1>3. clock \in Nat
  BY DEF TypeOK
<1> QED BY <1>2, <1>3, LimitAssumption

\* What the filter leaves of the window is the end of what was let through.
LEMMA WindowFiltered ==
  ASSUME TypeOK, WindowInv, NEW r \in Replicas
  PROVE  \E k \in 0..Len(passes[r]) :
           /\ Follow(Recent(window[r], clock), passes[r], Len(passes[r]), k)
           /\ SplitAt(passes[r], Len(passes[r]), k, clock - Window)
<1> DEFINE p == passes[r]
           w == window[r]
           n == Len(p)
<1>1. p \in Seq(Nat) /\ n \in Nat /\ clock \in Nat /\ (\A i \in 1..n : p[i] \in Nat) /\ Window \in Nat
  BY PassesAt
<1>2. Ordered(p)
  BY DEF WindowInv, Recorded
<1>3. PICK k \in 0..n : Follow(w, p, n, k) /\ \A x \in 1..k : p[x] <= clock - Window
  BY DEF WindowInv, Recorded
<1> HIDE DEF p, w
<1>4. w \in Seq(Nat) /\ Len(w) = n - k /\ \A x \in 1..n - k : w[x] = p[k + x]
  BY <1>3 DEF Follow
<1>5. Ordered(w)
  <2> SUFFICES ASSUME NEW i \in 1..n - k, NEW j \in 1..n - k, i <= j PROVE w[i] <= w[j]
    BY <1>4 DEF Ordered
  <2>1. k + i \in 1..n /\ k + j \in 1..n /\ k + i <= k + j
    BY <1>1, <1>3
  <2>2. p[k + i] <= p[k + j]
    BY <1>2, <2>1 DEF Ordered
  <2> QED BY <1>4, <2>2
<1>6. PICK m \in 0..Len(w) : Follow(Recent(w, clock), w, Len(w), m) /\ SplitAt(w, Len(w), m, clock - Window)
  BY <1>1, <1>4, <1>5, RecentIsTheEnd
<1>7. k + m \in 0..n /\ k \in Nat /\ m \in Nat
  BY <1>1, <1>3, <1>4, <1>6
<1>8. Follow(Recent(w, clock), p, n, k + m)
  <2> DEFINE v == Recent(w, clock)
  <2>1. v \in Seq(Nat) /\ Len(v) = (n - k) - m /\ \A x \in 1..(n - k) - m : v[x] = w[m + x]
    BY <1>4, <1>6 DEF Follow
  <2> HIDE DEF v
  <2>2. (n - k) - m = n - (k + m)
    BY <1>1, <1>7
  <2>3. ASSUME NEW x \in 1..n - (k + m) PROVE v[x] = p[(k + m) + x]
    <3>1. m + x \in 1..n - k /\ k + (m + x) = (k + m) + x
      BY <1>1, <1>7
    <3> QED BY <1>4, <2>1, <2>2, <3>1
  <2>4. Follow(v, p, n, k + m)
    BY <1>7, <2>1, <2>2, <2>3 DEF Follow
  <2> QED BY <2>4 DEF v
<1>9. SplitAt(p, n, k + m, clock - Window)
  <2>1. ASSUME NEW x \in 1..k + m PROVE p[x] <= clock - Window
    <3>1. CASE x <= k
      BY <1>3, <1>7, <3>1
    <3>2. CASE x > k
      <4>1. x - k \in 1..m /\ x - k \in 1..n - k /\ k + (x - k) = x
        BY <1>1, <1>7, <3>2
      <4> QED BY <1>4, <1>6, <4>1 DEF SplitAt
    <3> QED BY <1>7, <3>1, <3>2
  <2>2. ASSUME NEW x \in (k + m) + 1..n PROVE p[x] > clock - Window
    <3>1. x - k \in m + 1..Len(w) /\ x - k \in 1..n - k /\ k + (x - k) = x
      BY <1>1, <1>4, <1>7
    <3> QED BY <1>4, <1>6, <3>1 DEF SplitAt
  <2> QED BY <2>1, <2>2 DEF SplitAt
<1> QED BY <1>7, <1>8, <1>9 DEF p, w

\* A process that lets nothing through keeps its record as time passes.
LEMMA RecordedStays ==
  ASSUME TypeOK, NEW r \in Replicas, Recorded(r), passes'[r] = passes[r],
         window'[r] = window[r], clock' \in Nat, clock <= clock'
  PROVE  Recorded(r)'
<1>1. /\ \A i \in 1..Len(passes[r]) : passes[r][i] \in Nat
      /\ clock \in Nat /\ Window \in Nat /\ Len(passes[r]) \in Nat
  BY PassesAt
<1>2. PICK k \in 0..Len(passes[r]) :
        /\ Follow(window[r], passes[r], Len(passes[r]), k)
        /\ \A x \in 1..k : passes[r][x] <= clock - Window
  BY DEF Recorded
<1>3. \A x \in 1..k : passes[r][x] <= clock' - Window
  BY <1>1, <1>2
<1>4. \A i \in 1..Len(passes[r]) : passes[r][i] <= clock'
  BY <1>1 DEF Recorded
<1> QED BY <1>2, <1>3, <1>4 DEF Recorded

\* A request that is let through: the one Limit places before it has left the
\* window.
LEMMA LetThrough ==
  ASSUME TypeOK, WindowInv, NoBurst, NEW r \in Replicas, ~Full(window[r], clock),
         passes'[r] = Append(passes[r], clock), window'[r] = Passed(window[r], clock),
         clock' = clock
  PROVE  /\ Recorded(r)'
         /\ \A i \in DOMAIN passes'[r] :
              i > Limit => passes'[r][i] - passes'[r][i - Limit] >= Window
<1> DEFINE p == passes[r]
           w == Recent(window[r], clock)
           n == Len(p)
           q == Append(p, clock)
           v == Append(w, clock)
<1>1. /\ p \in Seq(Nat) /\ n \in Nat /\ n = Len(p) /\ DOMAIN p = 1..n /\ (\A i \in 1..n : p[i] \in Nat)
      /\ clock \in Nat /\ Window \in Nat \ {0} /\ Limit \in Nat \ {0}
  BY PassesAt
<1>2. PICK k \in 0..n : Follow(w, p, n, k) /\ SplitAt(p, n, k, clock - Window)
  BY WindowFiltered
<1>3. Len(w) < Limit /\ window'[r] = v
  <2>1. Len(w) \in Nat
    BY <1>2 DEF Follow
  <2> QED BY <1>1, <2>1 DEF Full, Passed
<1>4. Ordered(p) /\ (\A i \in 1..n : p[i] <= clock)
  BY DEF WindowInv, Recorded
<1>5. \A i \in DOMAIN p : i > Limit => p[i] - p[i - Limit] >= Window
  BY DEF NoBurst
<1>0. /\ Follow(w, p, n, k) /\ SplitAt(p, n, k, clock - Window)
      /\ k \in Nat /\ k <= n
  BY <1>1, <1>2
<1> HIDE DEF p, w, n
<1>6. q \in Seq(Nat) /\ Len(q) = n + 1 /\ q[n + 1] = clock /\ \A i \in 1..n : q[i] = p[i]
  BY <1>1
<1>7. w \in Seq(Nat) /\ Len(w) = n - k /\ (\A x \in 1..n - k : w[x] = p[k + x]) /\ k \in Nat /\ k <= n
  BY <1>0 DEF Follow
<1>8. v \in Seq(Nat) /\ Len(v) = (n + 1) - k /\ v[(n + 1) - k] = clock
      /\ \A x \in 1..n - k : v[x] = w[x]
  <2>1. /\ v \in Seq(Nat) /\ Len(v) = Len(w) + 1 /\ v[Len(w) + 1] = clock
        /\ \A x \in 1..Len(w) : v[x] = w[x]
    <3>1. w \in Seq(Nat) /\ clock \in Nat
      BY <1>1, <1>7
    <3> QED BY ONLY <3>1, AppendAt DEF v
  <2>2. Len(w) + 1 = (n + 1) - k
    BY <1>1, <1>7
  <2> HIDE DEF v
  <2> QED BY <1>7, <2>1, <2>2
<1> HIDE DEF q, v
<1>9. Ordered(q) /\ \A i \in 1..Len(q) : q[i] <= clock
  <2>1. \A i \in 1..Len(q) : i \in 1..n \/ i = n + 1
    BY <1>1, <1>6
  <2>2. ASSUME NEW i \in 1..Len(q) PROVE q[i] <= clock
    <3>1. CASE i \in 1..n
      BY <1>1, <1>4, <1>6, <3>1 DEF n
    <3>2. CASE i = n + 1
      BY <1>1, <1>6, <3>2
    <3> QED BY <2>1, <3>1, <3>2
  <2>3. ASSUME NEW i \in 1..Len(q), NEW j \in 1..Len(q), i <= j PROVE q[i] <= q[j]
    <3>1. CASE j = n + 1
      BY <1>6, <2>2, <3>1
    <3>2. CASE j \in 1..n
      <4>1. i \in 1..n
        BY <1>1, <2>3, <3>2
      <4>2. p[i] <= p[j]
        BY <1>1, <2>3, <3>2, <4>1, <1>4 DEF Ordered
      <4> QED BY <1>6, <3>2, <4>1, <4>2
    <3> QED BY <2>1, <3>1, <3>2
  <2> QED BY <2>2, <2>3 DEF Ordered
<1>10. Follow(v, q, Len(q), k)
  <2>1. ASSUME NEW x \in 1..(n + 1) - k PROVE v[x] = q[k + x]
    <3>1. CASE x = (n + 1) - k
      <4>1. k + x = n + 1
        BY <1>1, <1>7, <3>1
      <4> QED BY <1>6, <1>8, <3>1, <4>1
    <3>2. CASE x # (n + 1) - k
      <4>0. n \in Nat /\ k \in Nat /\ k <= n
        BY <1>1, <1>7
      <4>1. x \in Int /\ 1 <= x /\ x <= (n + 1) - k /\ x # (n + 1) - k
        BY ONLY <2>1, <3>2, <4>0
      <4>2. x \in 1..n - k /\ k + x \in 1..n
        BY ONLY <4>0, <4>1
      <4> QED BY <1>6, <1>7, <1>8, <4>2
    <3> QED BY <3>1, <3>2
  <2>2. k \in 0..Len(q)
    BY <1>1, <1>6, <1>7
  <2> QED BY <1>6, <1>8, <2>1, <2>2 DEF Follow
<1>11. \A x \in 1..k : x \in 1..n /\ q[x] = p[x] /\ q[x] <= clock - Window
  <2> SUFFICES ASSUME NEW x \in 1..k PROVE x \in 1..n /\ q[x] = p[x] /\ q[x] <= clock - Window
    OBVIOUS
  <2>1. x \in 1..n
    BY <1>0, <1>1
  <2>2. p[x] <= clock - Window
    BY <1>0 DEF SplitAt
  <2> QED BY <1>6, <2>1, <2>2
<1>12. ASSUME NEW i \in DOMAIN q, i > Limit PROVE q[i] - q[i - Limit] >= Window
  <2>0. i \in 1..n + 1
    BY <1>6, <1>12
  <2>1. CASE i = n + 1
    <3>1. i - Limit \in 1..k
      BY <1>1, <1>3, <1>7, <1>12, <2>1
    <3>2. q[i - Limit] <= clock - Window /\ q[i - Limit] \in Nat
      BY <1>1, <1>11, <3>1
    <3> QED BY <1>1, <1>6, <2>1, <3>2
  <2>2. CASE i # n + 1
    <3>0. /\ i \in Int /\ 1 <= i /\ i <= n + 1 /\ i # n + 1
          /\ n \in Nat /\ Limit \in Nat /\ Limit # 0
      BY ONLY <1>1, <2>0, <2>2
    <3>1. i \in 1..n /\ i - Limit \in 1..n
      BY ONLY <3>0, i > Limit
    <3> QED BY <1>1, <1>5, <1>6, <1>12, <3>1
  <2> QED BY <2>1, <2>2
<1>13. passes'[r] = q /\ window'[r] = v
  BY <1>3 DEF p, q, v, w
<1>14. k \in 0..Len(q)
  BY <1>1, <1>6, <1>7
<1> QED BY <1>9, <1>10, <1>11, <1>12, <1>13, <1>14 DEF Recorded

\* A request that is turned down: the window was full of what was let through.
LEMMA TurnedDown ==
  ASSUME TypeOK, WindowInv, NEW r \in Replicas, Full(window[r], clock),
         passes'[r] = passes[r], window'[r] = Passed(window[r], clock), clock' = clock
  PROVE  /\ Recorded(r)'
         /\ Cardinality({i \in DOMAIN passes[r] : passes[r][i] > clock - Window}) >= Limit
<1> DEFINE p == passes[r]
           w == Recent(window[r], clock)
           n == Len(p)
           recent == {i \in DOMAIN p : p[i] > clock - Window}
<1>1. p \in Seq(Nat) /\ n \in Nat /\ Window \in Nat /\ Limit \in Nat /\ DOMAIN p = 1..n
  BY PassesAt
<1>2. PICK k \in 0..n : Follow(w, p, n, k) /\ SplitAt(p, n, k, clock - Window)
  BY WindowFiltered
<1>3. window'[r] = w /\ Len(w) >= Limit
  BY DEF Full, Passed
<1>4. Recorded(r)'
  <2>1. Ordered(p) /\ \A i \in 1..n : p[i] <= clock
    BY DEF WindowInv, Recorded
  <2>2. \A x \in 1..k : p[x] <= clock - Window
    BY <1>2 DEF SplitAt
  <2> QED BY <1>2, <1>3, <2>1, <2>2 DEF Recorded
<1>5. k + 1..n \subseteq recent
  BY <1>1, <1>2 DEF SplitAt
<1>6. IsFiniteSet(recent)
  <2>1. IsFiniteSet(1..n)
    BY <1>1, FS_Interval
  <2> QED BY <1>1, <2>1, FS_Subset
<1>7. Cardinality(k + 1..n) = n - k
  <2>1. k + 1 \in Int /\ n \in Int /\ k <= n
    BY <1>1, <1>2
  <2>2. Cardinality(k + 1..n) = IF k + 1 > n THEN 0 ELSE n - (k + 1) + 1
    BY <2>1, FS_Interval
  <2> QED BY <2>1, <2>2
<1>8. Cardinality(k + 1..n) <= Cardinality(recent) /\ Cardinality(recent) \in Nat
  <2> HIDE DEF recent
  <2> QED BY <1>5, <1>6, FS_Subset, FS_CardinalityType
<1>9. Len(w) = n - k
  BY <1>2 DEF Follow
<1>10. n - k \in Nat
  BY <1>1, <1>2
<1> HIDE DEF recent, w
<1>11. Cardinality(recent) >= Limit
  BY <1>1, <1>3, <1>7, <1>8, <1>9, <1>10
<1> QED BY <1>4, <1>11 DEF recent

LEMMA EmptyRecord ==
  ASSUME NEW w, NEW p, w = <<>>, p = <<>>
  PROVE  Ordered(p) /\ Len(p) = 0 /\ Follow(w, p, 0, 0)
BY DEF Ordered, Follow

LEMMA LimitInit == Init => LimitInv
<1> SUFFICES ASSUME Init PROVE LimitInv
  OBVIOUS
<1>1. TypeOK
  BY TypeInit
<1>2. \A r \in Replicas : window[r] = <<>> /\ passes[r] = <<>>
  BY DEF Init
<1>3. window \in [Replicas -> Seq(Nat)]
  BY DEF Init
<1>4. ASSUME NEW r \in Replicas PROVE Recorded(r)
  <2>1. Ordered(passes[r]) /\ Len(passes[r]) = 0 /\ Follow(window[r], passes[r], 0, 0)
    BY <1>2, EmptyRecord
  <2> QED BY <2>1 DEF Recorded
<1>5. NoBurst /\ DeniedOnlyWhenFull
  BY <1>2 DEF NoBurst, DeniedOnlyWhenFull, Init, NoAnswer
<1> QED BY <1>1, <1>3, <1>4, <1>5 DEF LimitInv, WindowInv

\* What every step but a request and a restart does to the limiter: nothing.
LEMMA LimitIdle ==
  ASSUME LimitInv, TypeOK', UNCHANGED <<window, passes>>, clock <= clock',
         answer'.outcome # "refused"
  PROVE  LimitInv'
<1>1. clock' \in Nat
  BY DEF TypeOK
<1>2. WindowInv'
  BY <1>1, RecordedStays DEF LimitInv, WindowInv
<1>3. NoBurst' /\ DeniedOnlyWhenFull'
  BY DEF LimitInv, NoBurst, DeniedOnlyWhenFull
<1> QED BY <1>2, <1>3 DEF LimitInv

LEMMA RequestKeepsLimit ==
  ASSUME LimitInv, TypeOK', NEW r \in Replicas, NEW t \in Tokens, Request(r, t)
  PROVE  LimitInv'
<1>0. /\ TypeOK /\ WindowInv /\ NoBurst /\ clock \in Nat /\ clock' = clock
      /\ window \in [Replicas -> Seq(Nat)] /\ passes \in [Replicas -> Seq(1..MaxClock)]
      /\ window' = [window EXCEPT ![r] = Passed(window[r], clock)]
  <2>1. TypeOK /\ WindowInv /\ NoBurst
    BY DEF LimitInv
  <2>2. clock' = clock /\ window' = [window EXCEPT ![r] = Passed(window[r], clock)]
    BY DEF Request
  <2>3. clock \in Nat /\ passes \in [Replicas -> Seq(1..MaxClock)]
    BY <2>1 DEF TypeOK
  <2>4. window \in [Replicas -> Seq(Nat)]
    BY <2>1 DEF WindowInv
  <2> QED BY ONLY <2>1, <2>2, <2>3, <2>4
<1>1. window'[r] = Passed(window[r], clock) /\ \A s \in Replicas \ {r} : window'[s] = window[s]
  BY <1>0
<1>2. CASE Full(window[r], clock)
  <2>1. passes' = passes /\ answer' = Answer("refused", r, t)
    BY <1>2 DEF Request
  <2>2. Recorded(r)' /\ Cardinality({i \in DOMAIN passes[r] : passes[r][i] > clock - Window}) >= Limit
    BY <1>0, <1>1, <1>2, <2>1, TurnedDown
  <2>3. \A s \in Replicas : Recorded(s)'
    BY <1>0, <1>1, <2>1, <2>2, RecordedStays DEF WindowInv
  <2>4. DeniedOnlyWhenFull'
    BY <1>0, <2>1, <2>2 DEF DeniedOnlyWhenFull, Answer
  <2>5. NoBurst'
    BY <1>0, <2>1 DEF NoBurst
  <2>6. Passed(window[r], clock) \in Seq(Nat)
    BY <1>0, <1>2, WindowFiltered DEF Passed, Follow
  <2>7. window' \in [Replicas -> Seq(Nat)]
    BY <1>0, <2>6
  <2> QED BY <2>3, <2>4, <2>5, <2>7 DEF LimitInv, WindowInv
<1>3. CASE ~Full(window[r], clock)
  <2>1. /\ passes' = [passes EXCEPT ![r] = Append(passes[r], clock)]
        /\ answer'.outcome # "refused"
    BY <1>3 DEF Request, Answer
  <2>2. passes'[r] = Append(passes[r], clock) /\ \A s \in Replicas \ {r} : passes'[s] = passes[s]
    BY <1>0, <2>1
  <2>3. /\ Recorded(r)'
        /\ \A i \in DOMAIN passes'[r] : i > Limit => passes'[r][i] - passes'[r][i - Limit] >= Window
    BY <1>0, <1>1, <1>3, <2>2, LetThrough
  <2>4. \A s \in Replicas : Recorded(s)'
    <3>1. ASSUME NEW s \in Replicas \ {r} PROVE Recorded(s)'
      BY <1>0, <1>1, <2>2, RecordedStays DEF WindowInv
    <3> QED BY <2>3, <3>1
  <2>5. NoBurst'
    BY <1>0, <2>2, <2>3 DEF NoBurst
  <2>6. Passed(window[r], clock) \in Seq(Nat)
    <3>1. Recent(window[r], clock) \in Seq(Nat)
      BY <1>0, WindowFiltered DEF Follow
    <3> QED BY <1>0, <1>3, <3>1, AppendAt DEF Passed
  <2>7. window' \in [Replicas -> Seq(Nat)]
    BY <1>0, <2>6
  <2>8. DeniedOnlyWhenFull'
    BY <2>1 DEF DeniedOnlyWhenFull
  <2> QED BY <2>4, <2>5, <2>7, <2>8 DEF LimitInv, WindowInv
<1> QED BY <1>2, <1>3

LEMMA RestartKeepsLimit ==
  ASSUME LimitInv, TypeOK', NEW r \in Replicas, Restart(r)
  PROVE  LimitInv'
<1>0. /\ TypeOK /\ WindowInv /\ NoBurst /\ clock \in Nat /\ clock' = clock
      /\ window \in [Replicas -> Seq(Nat)] /\ passes \in [Replicas -> Seq(1..MaxClock)]
      /\ window' = [window EXCEPT ![r] = <<>>] /\ passes' = [passes EXCEPT ![r] = <<>>]
      /\ answer' = NoAnswer
  BY DEF LimitInv, WindowInv, TypeOK, Restart
<1>1. /\ window'[r] = <<>> /\ passes'[r] = <<>>
      /\ \A s \in Replicas \ {r} : window'[s] = window[s] /\ passes'[s] = passes[s]
      /\ window' \in [Replicas -> Seq(Nat)]
  BY <1>0
<1>2. Recorded(r)'
  <2>1. (Ordered(passes[r]) /\ Len(passes[r]) = 0 /\ Follow(window[r], passes[r], 0, 0))'
    BY <1>1, EmptyRecord
  <2> QED BY <2>1 DEF Recorded
<1>3. \A s \in Replicas : Recorded(s)'
  BY <1>0, <1>1, <1>2, RecordedStays DEF WindowInv
<1>4. NoBurst' /\ DeniedOnlyWhenFull'
  BY <1>0, <1>1 DEF NoBurst, DeniedOnlyWhenFull, NoAnswer
<1> QED BY <1>1, <1>3, <1>4 DEF LimitInv, WindowInv

LEMMA LimitStep == LimitInv /\ [Next]_vars => LimitInv'
<1> SUFFICES ASSUME LimitInv, [Next]_vars PROVE LimitInv'
  OBVIOUS
<1>0. TypeOK' /\ clock \in Nat
  <2>1. TypeOK /\ TypeOK'
    BY TypeStep DEF LimitInv
  <2> QED BY <2>1 DEF TypeOK
<1>1. ASSUME NEW r \in Replicas, Login(r) \/ DevToken(r) PROVE LimitInv'
  BY <1>0, <1>1, LimitIdle DEF Login, DevToken, storeVars, NoAnswer
<1>2. ASSUME NEW r \in Replicas, NEW t \in Tokens, Refresh(r, t) \/ Logout(r, t) PROVE LimitInv'
  BY <1>0, <1>2, LimitIdle DEF Refresh, NewAccess, Logout, Answer
<1>3. ASSUME NEW r \in Replicas, NEW t \in Tokens, Request(r, t) PROVE LimitInv'
  BY <1>0, <1>3, RequestKeepsLimit
<1>4. ASSUME NEW r \in Replicas, Restart(r) PROVE LimitInv'
  BY <1>0, <1>4, RestartKeepsLimit
<1>5. CASE Redis \/ Tick
  BY <1>0, <1>5, LimitIdle DEF Redis, Tick, NoAnswer
<1>6. CASE UNCHANGED vars
  <2>1. UNCHANGED <<clock, window, passes, answer>>
    BY <1>6 DEF vars, storeVars
  <2> QED BY <1>0, <2>1 DEF LimitInv, WindowInv, Recorded, NoBurst, DeniedOnlyWhenFull
<1> QED BY <1>1, <1>2, <1>3, <1>4, <1>5, <1>6 DEF Next

LEMMA LimitAlways == Spec => []LimitInv
BY LimitInit, LimitStep, PTL DEF Spec

\* No process lets more than Limit requests of a path through in any window of
\* time, wherever it begins.
THEOREM NoBurstAlways == Spec => []NoBurst
<1>1. LimitInv => NoBurst
  BY DEF LimitInv
<1> QED BY <1>1, LimitAlways, PTL

\* Who is turned down has had Limit requests let through in the window that
\* ends then.
THEOREM DeniedOnlyWhenFullAlways == Spec => []DeniedOnlyWhenFull
<1>1. LimitInv => DeniedOnlyWhenFull
  BY DEF LimitInv
<1> QED BY <1>1, LimitAlways, PTL
=============================================================================
