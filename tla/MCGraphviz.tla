----------------------------- MODULE MCGraphviz -----------------------------
(* Trees with up to three levels of blocks, and every kind of node. *)
EXTENDS Graphviz

CONSTANTS X, Y

Value(k, v) == Const([kind |-> k, val |-> v])
Atoms == {Id(X), Value("FLOAT", 12300007), Value("FLOAT", 24), Value("INTEGER", 24),
          Value("BOOLEAN", 1)}
Sums == {Binop("PLUS", l, r) : l, r \in Atoms}
Exprs == Sums \cup {Binop("LT", l, Id(Y)) : l \in Sums} \cup {Binop("LT", Id(Y), r) : r \in Sums}

Leaves == {Break, Assign(X, Id(Y)), Assign(Y, Binop("PLUS", Id(X), Id(X)))}
Bodies == {Block(<<s>>) : s \in Leaves} \cup {Block(<<s, t>>) : s, t \in Leaves}
Compound == {If(Id(X), b, c) : b \in Bodies, c \in Bodies \cup {NULL}}
            \cup {While(Id(Y), b) : b \in Bodies}

MCTrees == {Block(<<Assign(X, e)>>) : e \in Exprs}
           \cup {Block(<<s, t>>) : s \in Compound, t \in Leaves}
           \cup {Block(<<While(Id(X), Block(<<s, Break>>))>>) : s \in Compound}
           \cup {Block(<<>>)}
=============================================================================
