----------------------------- MODULE EllipticGraph -----------------------------
(***************************************************************************)
(* EllipticProcessor of src/ml/tabular/elliptic_processor.py and           *)
(* build_pyg_data of src/ml/gnn/trainer.py: how the rows, labels and edges *)
(* of the raw files become the nodes, masks and edges the GNN is trained   *)
(* on.  Two paths number the nodes: edges by the place of a row in the     *)
(* features file, the node matrix by stacking the training rows and the    *)
(* test rows.  Features are left out: a row is its transaction.            *)
(***************************************************************************)
EXTENDS Integers, Sequences, SequencesExt

CONSTANTS
  LastTrainStep,  \* last time step of the training rows: 34
  LastTestStep    \* last time step of the test rows: 49

ASSUME StepAssumption == LastTrainStep \in Nat /\ LastTestStep \in Nat /\ LastTrainStep < LastTestStep

\* merge_labels: a left join; a transaction without a class is unknown, 0.
Merged(rows, classes) ==
  [i \in DOMAIN rows |->
     [id |-> rows[i].id, step |-> rows[i].step,
      label |-> LET known == {c \in classes : c.id = rows[i].id} IN
                IF known = {} THEN 0 ELSE (CHOOSE c \in known : TRUE).class]]

\* The elements at the indices in keep, in their order.
Kept(s, keep) ==
  LET upTo[i \in 0..Len(s)] ==
        IF i = 0 THEN <<>> ELSE IF i \in keep THEN Append(upTo[i - 1], s[i]) ELSE upTo[i - 1]
  IN  upTo[Len(s)]
OfSteps(table, steps) == Kept(table, {i \in DOMAIN table : table[i].step \in steps})

Train(table) == OfSteps(table, 1..LastTrainStep)

\* Mutant: the last training step is tested on as well.
TestOverlapping(table) == OfSteps(table, LastTrainStep..LastTestStep)

Test(table) == OfSteps(table, (LastTrainStep + 1)..LastTestStep)

\* get_labels: 1 for illicit, 0 for everything else, and a mask of the known.
Label(row) == IF row.label = 1 THEN 1 ELSE 0
HasLabel(row) == row.label \in {1, 2}

\* The number of an edge's end: the place of its transaction in the file.
Index(table, id) == CHOOSE i \in DOMAIN table : table[i].id = id
EdgeIndex(table, edges) ==
  LET ids == {table[i].id : i \in DOMAIN table} IN
  {<<Index(table, e[1]), Index(table, e[2])>> : e \in {x \in edges : x[1] \in ids /\ x[2] \in ids}}

\* build_pyg_data: the stacked nodes with their labels and masks.
Data(rows, classes, edges) ==
  LET table == Merged(rows, classes)
      nodes == Train(table) \o Test(table) IN
  [ids |-> [i \in DOMAIN nodes |-> nodes[i].id],
   steps |-> [i \in DOMAIN nodes |-> nodes[i].step],
   y |-> [i \in DOMAIN nodes |-> Label(nodes[i])],
   train |-> {i \in 1..Len(Train(table)) : HasLabel(nodes[i])},
   test |-> {i \in (Len(Train(table)) + 1)..Len(nodes) : HasLabel(nodes[i])},
   edges |-> EdgeIndex(table, edges)]
=============================================================================
