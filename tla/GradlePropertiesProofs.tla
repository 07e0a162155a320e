------------------------ MODULE GradlePropertiesProofs ------------------------
(***************************************************************************)
(* Proofs about the three property loops of parse_gradle_kts             *)
(* (GradleProperties) for every build script: the dict returned is the   *)
(* ranked one of RankedPrecedence, with references kept as indirections. *)
(* The argument is a prefix invariant: while a pass is at position idx,   *)
(* every key holds the value of its last match of that pass before idx,   *)
(* over the values the earlier passes left.                               *)
(***************************************************************************)
EXTENDS GradleProperties, WellFoundedInduction, SequenceTheorems, TLAPS

-----------------------------------------------------------------------------
(* Lemmas on the operators the model is built from *)

\* A non-empty set of naturals has a least element, which Min picks: the
\* next match finditer finds is the first one after the position.
LEMMA MinNat ==
    ASSUME NEW S, S \subseteq Nat, S # {}
    PROVE  Min(S) \in S /\ \A y \in S : Min(S) <= y
<1>1. \E x \in S : \A y \in S : ~ (<<y, x>> \in OpToRel(<, Nat))
  BY NatLessThanWellFounded, WFMin
<1>2. \A x, y \in Nat : <<y, x>> \in OpToRel(<, Nat) <=> y < x
  BY DEF OpToRel
<1>3. \E x \in S : \A y \in S : ~ (y < x)
  BY <1>1, <1>2, Zenon
<1>4. \E x \in S : \A y \in S : x <= y
  BY <1>3
<1>. QED  BY <1>4 DEF Min

\* A non-empty set of positions of a script has a greatest element, which
\* Max picks: the last match of a key.
LEMMA MaxBounded ==
    ASSUME NEW n \in Nat, NEW I \in SUBSET (1..n), I # {}
    PROVE  Max(I) \in I /\ \A y \in I : y <= Max(I)
<1> DEFINE D == {n - i : i \in I}
<1>0. \A i \in I : i \in 1..n
  OBVIOUS
<1>1. D \subseteq Nat /\ D # {}
  <2>1. \A i \in I : n - i \in Nat
    BY <1>0
  <2>. QED  BY <2>1
<1>2. Min(D) \in D /\ \A d \in D : Min(D) <= d
  BY <1>1, MinNat
<1>3. PICK x \in I : n - x = Min(D)
  BY <1>2
<1>4. \A y \in I : y <= x
  <2> TAKE y \in I
  <2>1. n - y \in D
    OBVIOUS
  <2>2. n - x <= n - y
    BY <1>2, <1>3, <2>1
  <2>. QED  BY <1>0, <2>2
<1>5. \E z \in I : \A y \in I : z >= y
  BY <1>4
<1>. QED  BY <1>5 DEF Max

\* The search of finditer for the next match of a pass from position i:
\* a position of the script whose statement the pass matches, with no
\* match between i and it, or one past the end when none is left.
LEMMA NextMatchFacts ==
    ASSUME script \in Seq(Stmt), NEW p, NEW i \in 1..(Len(script) + 1)
    PROVE  LET j == NextMatch(p, i)
           IN  /\ j \in i..(Len(script) + 1)
               /\ \A m \in i..(j - 1) : ~InPass(p, script[m])
               /\ j <= Len(script) => InPass(p, script[j])
<1> DEFINE J == {j \in i..Len(script) : InPass(p, script[j])}
<1>1. NextMatch(p, i) = IF J # {} THEN Min(J) ELSE Len(script) + 1
  BY DEF NextMatch
<1>2. CASE J # {}
  <2>0. J \subseteq Nat
    OBVIOUS
  <2>1. Min(J) \in J /\ \A y \in J : Min(J) <= y
    BY <1>2, <2>0, MinNat
  <2>2. Min(J) \in i..Len(script) /\ InPass(p, script[Min(J)])
    BY <2>1
  <2>3. \A m \in i..(Min(J) - 1) : ~InPass(p, script[m])
    <3> TAKE m \in i..(Min(J) - 1)
    <3>1. m \in i..Len(script)
      BY <2>2
    <3>. QED  BY <2>1, <3>1
  <2>. QED  BY <1>1, <1>2, <2>2, <2>3
<1>3. CASE J = {}
  <2>1. \A m \in i..Len(script) : ~InPass(p, script[m])
    BY <1>3
  <2>. QED  BY <1>1, <1>3, <2>1
<1>. QED  BY <1>2, <1>3


-----------------------------------------------------------------------------
(* The last match of a key in a prefix of the script *)

\* The statements pass p matches in the script q (InPass with the script
\* as an argument, so that a prime on it stays on its arguments).
Match(q, p, s) ==
    IF p = "set" THEN s.kind \in {"set", "setRef"}
    ELSE IF p = "val" THEN s.kind \in {"val", "valRef"}
    ELSE (\E i \in 1..Len(q) : q[i].block = 1) /\ BlockItem(s)

\* The positions 1..n of q where pass p matches a statement about k.
MatchesOf(q, n, k, p) == {i \in 1..n : q[i].key = k /\ Match(q, p, q[i])}

\* The last of them, or 0.
LastAt(q, n, k, p) ==
    IF MatchesOf(q, n, k, p) = {} THEN 0 ELSE Max(MatchesOf(q, n, k, p))

\* The value pass p has given k once it has visited positions 1..n.
ValAt(q, n, k, p) == IF LastAt(q, n, k, p) = 0 THEN Absent ELSE Stored(q[LastAt(q, n, k, p)])

\* A value that is there beats the one under it.
Over(a, b) == IF a # Absent THEN a ELSE b

LEMMA InPassMatch ==
    ASSUME NEW p, NEW s
    PROVE  InPass(p, s) = Match(script, p, s)
BY DEF InPass, Match, HasExtBlock

\* The value stored for a statement is text, never Absent.
LEMMA StoredText ==
    ASSUME NEW s \in Stmt
    PROVE  Stored(s) \in Text /\ Stored(s) # Absent
BY SentinelAssumption DEF Stored, Stmt, Text, Ph, Lit

LEMMA LastAtZero ==
    ASSUME NEW q, NEW k, NEW p
    PROVE  LastAt(q, 0, k, p) = 0
BY DEF LastAt, MatchesOf

\* A match of the pass at j, with none between n and j: the last match of
\* k up to j is j when the statement is about k, and the one up to n when
\* it is not.
LEMMA LastAtJump ==
    ASSUME NEW q \in Seq(Stmt), NEW k, NEW p, NEW n \in 0..Len(q),
           NEW j \in (n + 1)..Len(q),
           \A m \in (n + 1)..(j - 1) : ~Match(q, p, q[m]),
           Match(q, p, q[j])
    PROVE  LastAt(q, j, k, p) = IF q[j].key = k THEN j ELSE LastAt(q, n, k, p)
<1>1. CASE q[j].key = k
  <2>1. j \in MatchesOf(q, j, k, p)
    BY <1>1 DEF MatchesOf
  <2>2. MatchesOf(q, j, k, p) \in SUBSET (1..j)
    BY DEF MatchesOf
  <2>3. /\ Max(MatchesOf(q, j, k, p)) \in MatchesOf(q, j, k, p)
        /\ \A y \in MatchesOf(q, j, k, p) : y <= Max(MatchesOf(q, j, k, p))
    <3>1. j \in Nat /\ MatchesOf(q, j, k, p) # {}
      BY <2>1
    <3>. QED  BY <2>2, <3>1, MaxBounded
  <2>. QED  BY <1>1, <2>1, <2>2, <2>3 DEF LastAt
<1>2. CASE q[j].key # k
  <2>1. MatchesOf(q, j, k, p) = MatchesOf(q, n, k, p)
    BY <1>2 DEF MatchesOf
  <2>. QED  BY <1>2, <2>1 DEF LastAt
<1>. QED  BY <1>1, <1>2

\* No match of the pass after n: the last match of k in the whole script
\* is the one up to n.
LEMMA LastAtEnd ==
    ASSUME NEW q \in Seq(Stmt), NEW k, NEW p, NEW n \in 0..Len(q),
           \A m \in (n + 1)..Len(q) : ~Match(q, p, q[m])
    PROVE  LastAt(q, Len(q), k, p) = LastAt(q, n, k, p)
<1>1. MatchesOf(q, Len(q), k, p) = MatchesOf(q, n, k, p)
  BY DEF MatchesOf
<1>. QED  BY <1>1 DEF LastAt


-----------------------------------------------------------------------------
(* The dict after a pass has visited a prefix of the script *)

\* The value of k once pass p has visited positions 1..n of q and the
\* passes before it the whole of q.
PassValue(q, p, n, k) ==
    IF p = "set" THEN ValAt(q, n, k, "set")
    ELSE IF p = "val" THEN Over(ValAt(q, n, k, "val"), ValAt(q, Len(q), k, "set"))
    ELSE Over(ValAt(q, n, k, "block"),
              Over(ValAt(q, Len(q), k, "val"), ValAt(q, Len(q), k, "set")))

Passes == {"set", "val", "block"}

\* A match at j, with none of the pass between n and j, sets its key to
\* its stored value and leaves every other key as it was.
LEMMA PassValueJump ==
    ASSUME NEW q \in Seq(Stmt), NEW p \in Passes, NEW n \in 0..Len(q),
           NEW j \in (n + 1)..Len(q),
           \A m \in (n + 1)..(j - 1) : ~Match(q, p, q[m]),
           Match(q, p, q[j]),
           NEW k
    PROVE  PassValue(q, p, j, k) =
               IF q[j].key = k THEN Stored(q[j]) ELSE PassValue(q, p, n, k)
<1>1. LastAt(q, j, k, p) = IF q[j].key = k THEN j ELSE LastAt(q, n, k, p)
  BY LastAtJump
<1>2. ValAt(q, j, k, p) = IF q[j].key = k THEN Stored(q[j]) ELSE ValAt(q, n, k, p)
  BY <1>1 DEF ValAt
<1>3. Stored(q[j]) # Absent
  BY StoredText, ElementOfSeq
<1>. QED  BY <1>2, <1>3 DEF PassValue, Passes, Over

\* A pass with no match after n leaves the dict it had at n.
LEMMA PassValueEnd ==
    ASSUME NEW q \in Seq(Stmt), NEW p \in Passes, NEW n \in 0..Len(q),
           \A m \in (n + 1)..Len(q) : ~Match(q, p, q[m]),
           NEW k
    PROVE  PassValue(q, p, Len(q), k) = PassValue(q, p, n, k)
<1>1. ValAt(q, Len(q), k, p) = ValAt(q, n, k, p)
  BY LastAtEnd DEF ValAt
<1>. QED  BY <1>1 DEF PassValue, Passes

\* The next pass starts from the dict the last one left.
LEMMA PassValueStart ==
    ASSUME NEW q \in Seq(Stmt), NEW p \in {"set", "val"}, NEW k
    PROVE  PassValue(q, NextPass[p], 0, k) = PassValue(q, p, Len(q), k)
<1>1. \A r : ValAt(q, 0, k, r) = Absent
  BY LastAtZero DEF ValAt
<1>. QED  BY <1>1 DEF PassValue, NextPass, Over


-----------------------------------------------------------------------------
(* The inductive invariant *)

\* The types, the position within the script, and the dict of every key
\* as the passes so far have left it.
GInv ==
    /\ TypeOK
    /\ idx \in 1..(Len(script) + 1)
    /\ pass # "done" => \A k \in Names : props[k] = PassValue(script, pass, idx - 1, k)
    /\ pass = "done" => \A k \in Names : props[k] = PassValue(script, "block", Len(script), k)

LEMMA InitGInv == Init => GInv
<1> SUFFICES ASSUME Init PROVE GInv
  OBVIOUS
<1>1. TypeOK
  BY DEF Init, TypeOK, EmptyMap, PropMap
<1>2. \A k \in Names : PassValue(script, "set", 0, k) = Absent
  BY LastAtZero DEF PassValue, ValAt
<1>. QED  BY <1>1, <1>2 DEF Init, GInv, EmptyMap

LEMMA NextGInv == GInv /\ [Next]_vars => GInv'
<1> SUFFICES ASSUME GInv, [Next]_vars PROVE GInv'
  OBVIOUS
<1>0. /\ script \in Scripts /\ script \in Seq(Stmt) /\ props \in PropMap
      /\ pass \in {"set", "val", "block", "done"}
      /\ idx \in 1..(Len(script) + 1)
  BY ScriptsAssumption DEF GInv, TypeOK
<1>1. CASE ApplyMatch
  <2> DEFINE j == NextMatch(pass, idx)
             s == script[j]
             n == idx - 1
  <2>1. /\ pass \in Passes /\ j <= Len(script)
        /\ props' = [props EXCEPT ![s.key] = Stored(s)]
        /\ idx' = j + 1 /\ UNCHANGED <<script, pass>>
    BY <1>0, <1>1 DEF ApplyMatch, Passes
  <2>2. /\ j \in idx..Len(script)
        /\ \A m \in idx..(j - 1) : ~Match(script, pass, script[m])
        /\ Match(script, pass, s)
    BY <1>0, <2>1, NextMatchFacts, InPassMatch
  <2>7. /\ n \in 0..Len(script) /\ j \in (n + 1)..Len(script)
        /\ \A m \in (n + 1)..(j - 1) : ~Match(script, pass, script[m])
    BY <1>0, <2>2
  <2>3. s \in Stmt
    BY <1>0, <2>2, ElementOfSeq
  <2>4. \A k \in Names :
            PassValue(script, pass, j, k) =
                IF s.key = k THEN Stored(s) ELSE PassValue(script, pass, idx - 1, k)
    BY <1>0, <2>1, <2>2, <2>7, PassValueJump
  <2>5. TypeOK'
    BY <1>0, <2>1, <2>2, <2>3, StoredText DEF TypeOK, PropMap, Stmt
  <2>6. \A k \in Names : props'[k] = PassValue(script, pass, j, k)
    BY <1>0, <2>1, <2>3, <2>4 DEF GInv, PropMap, Stmt, Passes
  <2>. QED  BY <2>1, <2>2, <2>5, <2>6 DEF GInv, Passes
<1>2. CASE EndPass
  <2>1. /\ pass \in Passes /\ NextMatch(pass, idx) > Len(script)
        /\ pass' = NextPass[pass] /\ idx' = 1 /\ UNCHANGED <<script, props>>
    BY <1>0, <1>2 DEF EndPass, Passes
  <2>2. \A m \in idx..Len(script) : ~Match(script, pass, script[m])
    BY <1>0, <2>1, NextMatchFacts, InPassMatch
  <2>7. /\ idx - 1 \in 0..Len(script)
        /\ \A m \in ((idx - 1) + 1)..Len(script) : ~Match(script, pass, script[m])
    BY <1>0, <2>2
  <2>3. \A k \in Names :
            PassValue(script, pass, Len(script), k) = PassValue(script, pass, idx - 1, k)
    BY <1>0, <2>1, <2>7, PassValueEnd
  <2>4. TypeOK'
    BY <1>0, <2>1 DEF TypeOK, NextPass, Passes
  <2>5. CASE pass \in {"set", "val"}
    <3>1. \A k \in Names :
              PassValue(script, NextPass[pass], 0, k) = PassValue(script, pass, Len(script), k)
      BY <1>0, <2>5, PassValueStart
    <3>2. NextPass[pass] # "done"
      BY <2>5 DEF NextPass
    <3>. QED  BY <1>0, <2>1, <2>3, <2>4, <2>5, <3>1, <3>2 DEF GInv
  <2>6. CASE pass = "block"
    <3>1. pass' = "done"
      BY <2>1, <2>6 DEF NextPass
    <3>. QED  BY <1>0, <2>1, <2>3, <2>4, <2>6, <3>1 DEF GInv
  <2>. QED  BY <2>1, <2>5, <2>6 DEF Passes
<1>3. CASE Returned \/ UNCHANGED vars
  BY <1>3 DEF Returned, vars, GInv, TypeOK
<1>. QED  BY <1>1, <1>2, <1>3 DEF Next


-----------------------------------------------------------------------------
(* The theorems *)

\* The last match of each pass in the whole script is the statement
\* RankedPrecedence takes as the definition of that rank.
LEMMA ValAtLastValue ==
    ASSUME script \in Seq(Stmt), NEW k
    PROVE  /\ ValAt(script, Len(script), k, "set")
                = LastValue(script, k, LAMBDA s : s.kind \in {"set", "setRef"})
           /\ ValAt(script, Len(script), k, "val")
                = LastValue(script, k, LAMBDA s : s.kind \in {"val", "valRef"})
           /\ ValAt(script, Len(script), k, "block")
                = LastValue(script, k,
                      LAMBDA s : s.block = 1 /\ s.kind \in {"set", "val", "assign"})
<1>1. MatchesOf(script, Len(script), k, "set")
        = {i \in 1..Len(script) : script[i].key = k /\ script[i].kind \in {"set", "setRef"}}
  BY DEF MatchesOf, Match
<1>2. MatchesOf(script, Len(script), k, "val")
        = {i \in 1..Len(script) : script[i].key = k /\ script[i].kind \in {"val", "valRef"}}
  BY DEF MatchesOf, Match
<1>3. MatchesOf(script, Len(script), k, "block")
        = {i \in 1..Len(script) :
              script[i].key = k
              /\ script[i].block = 1 /\ script[i].kind \in {"set", "val", "assign"}}
  BY DEF MatchesOf, Match, BlockItem
<1>. QED  BY <1>1, <1>2, <1>3
          DEF ValAt, LastAt, LastValue, LastWhere, SelectLastInSeq, Stored, Defined

\* RankedPrecedence: the dict parse_gradle_kts returns gives each key the
\* value of its last statement of the highest rank the script has for it
\* (an item of the first ext block, then a val, then a set), for every
\* build script, because each loop overwrites what the loops before it
\* stored, and each stores the value its statement defines.
THEOREM RankedPrecedenceHolds == Spec => []RankedPrecedence
<1>1. GInv => RankedPrecedence
  <2> SUFFICES ASSUME GInv PROVE RankedPrecedence
    OBVIOUS
  <2>1. script \in Seq(Stmt)
    BY ScriptsAssumption DEF GInv, TypeOK
  <2>. QED  BY <2>1, ValAtLastValue DEF GInv, RankedPrecedence, PassValue, Over
<1>. QED  BY InitGInv, NextGInv, <1>1, PTL DEF Spec

=============================================================================
