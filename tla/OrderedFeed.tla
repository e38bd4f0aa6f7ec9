---------------------------- MODULE OrderedFeed ----------------------------
(***************************************************************************)
(* What an ingester that samples nothing promises its consumers: the       *)
(* transactions of a chain, from the head at which it began, are fed in    *)
(* the order of the chain and without a gap.  Feeding one again is a       *)
(* stutter: the promise is at least once, in order of first appearance.    *)
(***************************************************************************)
EXTENDS Integers

CONSTANTS Feeds
VARIABLES
  mined,   \* transactions each chain holds so far
  begin,   \* transactions that were mined before the feed began
  fed      \* numbers fed at least once

feedVars == <<mined, begin, fed>>

Init ==
  /\ mined = [c \in Feeds |-> 0]
  /\ begin = [c \in Feeds |-> 0]
  /\ fed = [c \in Feeds |-> {}]

Grow(c) ==
  /\ mined'[c] > mined[c]
  /\ mined' = [mined EXCEPT ![c] = mined'[c]]
  /\ UNCHANGED <<begin, fed>>

Begin(c) ==
  /\ fed[c] = {}
  /\ begin' = [begin EXCEPT ![c] = mined[c]]
  /\ UNCHANGED <<mined, fed>>

\* The next transaction is the first that was not fed yet.
Feed(c) ==
  /\ \E n \in begin[c] + 1 .. mined[c] :
       /\ n \notin fed[c]
       /\ \A m \in begin[c] + 1 .. n - 1 : m \in fed[c]
       /\ fed' = [fed EXCEPT ![c] = @ \cup {n}]
  /\ UNCHANGED <<mined, begin>>

Next == \E c \in Feeds : Grow(c) \/ Begin(c) \/ Feed(c)

Spec == Init /\ [][Next]_feedVars
============================================================================
