------------------------------- MODULE TokenStore -------------------------------
(***************************************************************************)
(* TokenStore of src/api/token_store.py: the denylist of revoked tokens in *)
(* the Redis all API processes share, and the dictionary each process      *)
(* falls back to while Redis does not answer.                              *)
(*                                                                         *)
(* A replica is one API process.  It connects to Redis once, at its start. *)
(* An outage leaves the entries in Redis, where they go on expiring.       *)
(***************************************************************************)
EXTENDS Integers

CONSTANTS
  Replicas,   \* API processes
  MaxTokens,  \* bound: tokens issued
  Second      \* ticks of the clock in a second

ASSUME SecondAssumption == Second \in Nat \ {0}
ASSUME TokensAssumption == MaxTokens \in Nat

\* The jti of the tokens, numbered as they are issued.
Tokens == 1..MaxTokens

VARIABLES
  clock,      \* time.time()
  up,         \* Redis answers
  moves,      \* how often Redis failed or came back
  denylist,   \* denylist[t]: when the Redis entry of t ends, 0 without one
  connected,  \* _redis is not None
  memory      \* memory[r][t]: _mem, 0 without an entry

storeVars == <<clock, up, moves, denylist, connected, memory>>

InitStore ==
  /\ clock = 1 /\ moves = 0
  /\ up \in BOOLEAN
  /\ denylist = [t \in Tokens |-> 0]
  /\ connected = [r \in Replicas |-> up]
  /\ memory = [r \in Replicas |-> [t \in Tokens |-> 0]]

UsesRedis(r) == connected[r] /\ up

\* setex takes whole seconds, at least one.
EntryEnd(exp) ==
  LET seconds == (exp - clock) \div Second IN
  clock + Second * (IF seconds < 1 THEN 1 ELSE seconds)

\* Mutant: a failed write to Redis is not repeated in memory.
RevokeForgets(r, t, exp) ==
  /\ denylist' = IF UsesRedis(r) THEN [denylist EXCEPT ![t] = EntryEnd(exp)] ELSE denylist
  /\ memory' = IF connected[r] THEN memory ELSE [memory EXCEPT ![r][t] = exp]

\* A write that times out may have reached Redis all the same.
Revoke(r, t, exp) ==
  \/ /\ UsesRedis(r)
     /\ denylist' = [denylist EXCEPT ![t] = EntryEnd(exp)]
     /\ UNCHANGED memory
  \/ /\ ~UsesRedis(r)
     /\ denylist' \in {denylist} \cup
          (IF connected[r] THEN {[denylist EXCEPT ![t] = EntryEnd(exp)]} ELSE {})
     /\ memory' = [memory EXCEPT ![r][t] = exp]

\* While Redis answers, the memory of the process is not asked.
IsRevoked(r, t) ==
  IF UsesRedis(r) THEN denylist[t] > clock
  ELSE memory[r][t] # 0 /\ memory[r][t] >= clock

\* An answer from memory drops the entry of an expired token.
Checked(r, t) ==
  IF ~UsesRedis(r) /\ memory[r][t] < clock
  THEN [memory EXCEPT ![r][t] = 0] ELSE memory

\* A new process has an empty memory, and Redis if it answers now.
Reconnect(r) ==
  /\ connected' = [connected EXCEPT ![r] = up]
  /\ memory' = [memory EXCEPT ![r] = [t \in Tokens |-> 0]]

RedisFails == up /\ up' = FALSE /\ moves' = moves + 1
RedisReturns == ~up /\ up' = TRUE /\ moves' = moves + 1
=============================================================================
