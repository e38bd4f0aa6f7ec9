------------------------------ MODULE UnionFind ------------------------------
(***************************************************************************)
(* The class UnionFind of src/graph/threat_graph.py: a forest of wallets   *)
(* with union by rank and path compression, as operators on its two        *)
(* dictionaries.  The keys keep the order in which find() first met them.  *)
(***************************************************************************)
EXTENDS Integers, Sequences, SequencesExt

Empty == [keys |-> <<>>, parent |-> <<>>, rank |-> <<>>]

Known(uf) == ToSet(uf.keys)

\* The wallets on the way from x to its root, and that root.
Way(uf, x) ==
  LET up[y \in Known(uf)] == {y} \cup IF uf.parent[y] = y THEN {} ELSE up[uf.parent[y]]
  IN  up[x]

Root(uf, x) == CHOOSE r \in Way(uf, x) : uf.parent[r] = r

\* A wallet met for the first time is its own root.
Meet(uf, x) ==
  IF x \in Known(uf) THEN uf
  ELSE [keys |-> Append(uf.keys, x),
        parent |-> [y \in Known(uf) \cup {x} |-> IF y = x THEN x ELSE uf.parent[y]],
        rank |-> [y \in Known(uf) \cup {x} |-> IF y = x THEN 0 ELSE uf.rank[y]]]

\* find(x): whatever is on the way hangs from the root afterwards.
Find(uf, x) ==
  LET met == Meet(uf, x) IN
  [keys |-> met.keys,
   parent |-> [y \in Known(met) |-> IF y \in Way(met, x) THEN Root(met, x) ELSE met.parent[y]],
   rank |-> met.rank]

\* The root ry goes below the root rx.
Link(uf, rx, ry) ==
  [keys |-> uf.keys,
   parent |-> [uf.parent EXCEPT ![ry] = rx],
   rank |-> [uf.rank EXCEPT ![rx] = IF @ = uf.rank[ry] THEN @ + 1 ELSE @]]

\* Mutant: the wallet is linked instead of its root.
UniteWallets(uf, x, y) ==
  LET found == Find(Find(uf, x), y)
      rx == Root(found, x)
      ry == Root(found, y)
  IN  CASE rx = ry -> found
        [] found.rank[rx] < found.rank[ry] -> Link(found, ry, x)
        [] OTHER -> Link(found, rx, y)

\* union(x, y): the root of lower rank goes below the other.
Unite(uf, x, y) ==
  LET found == Find(Find(uf, x), y)
      rx == Root(found, x)
      ry == Root(found, y)
  IN  CASE rx = ry -> found
        [] found.rank[rx] < found.rank[ry] -> Link(found, ry, rx)
        [] OTHER -> Link(found, rx, ry)

\* The inputs of one transaction belong together; a single input says nothing.
UniteInputs(uf, inputs) ==
  LET upTo[i \in 0..Len(inputs)] ==
        IF i <= 1 THEN uf ELSE Unite(upTo[i - 1], inputs[1], inputs[i])
  IN  upTo[Len(inputs)]

\* One transaction after the other.
UniteAll(uf, lists) ==
  LET upTo[i \in 0..Len(lists)] ==
        IF i = 0 THEN uf ELSE UniteInputs(upTo[i - 1], lists[i])
  IN  upTo[Len(lists)]

\* get_clusters() finds every key, which flattens the forest.
Flattened(uf) ==
  LET upTo[i \in 0..Len(uf.keys)] ==
        IF i = 0 THEN uf ELSE Find(upTo[i - 1], uf.keys[i])
  IN  upTo[Len(uf.keys)]

Roots(uf) == {Root(uf, x) : x \in Known(uf)}
Cluster(uf, r) == {x \in Known(uf) : Root(uf, x) = r}

\* The clusters of the dictionary come in the order of their first keys.
ComesBefore(uf, r, s) ==
  \E i \in DOMAIN uf.keys :
    /\ Root(uf, uf.keys[i]) = r
    /\ \A j \in 1..i : Root(uf, uf.keys[j]) # s
==============================================================================
