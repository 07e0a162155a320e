------------------------- MODULE MC_GradleProperties -------------------------
(***************************************************************************)
(* Every build script of up to three property statements about the key k1 *)
(* with the values x1 or k1 (a value may itself name a key), outside any  *)
(* ext block or inside the first or the second one.                       *)
(***************************************************************************)
EXTENDS GradleProperties, TLC

CONSTANTS k1, x1

MCNames == {k1, x1}

MCStmts == [kind : StmtKinds, key : {k1}, v : MCNames, block : 0..2]

\* ext blocks are numbered in file order and each is one run of statements.
BlocksInOrder(q) ==
    /\ \A i, j, l \in 1..Len(q) :
          (i < j /\ j < l /\ q[i].block # 0 /\ q[i].block = q[l].block)
              => q[j].block = q[i].block
    /\ \A i \in 1..Len(q) :
          q[i].block > 1 => \E j \in 1..i - 1 : q[j].block = q[i].block - 1
    /\ \A i, j \in 1..Len(q) :
          (i < j /\ q[i].block # 0 /\ q[j].block # 0) => q[i].block <= q[j].block

MCScripts ==
    {q \in UNION {[1..n -> MCStmts] : n \in 0..3} : BlocksInOrder(q)}
=============================================================================
