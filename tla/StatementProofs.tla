--------------------------- MODULE StatementProofs ---------------------------
(* Proofs about Statement, for every table of fields and any number of     *)
(* calls.  What the two loops choose is followed in tables that are marked *)
(* as those of chatdb.h are (WellMarked).                                  *)
EXTENDS Statement, TLAPS

(* The columns chosen so far are, in ascending order, the fields with a    *)
(* bind index before the one the loop is at; the key is the primary key.   *)
ColumnsSoFar(n) ==
  /\ \A k \in 1 .. Len(columns) : columns[k] < n
  /\ \A k \in 1 .. Len(columns) : layout[columns[k]].u > 0
  /\ \A k, l \in 1 .. Len(columns) : k < l => columns[k] < columns[l]
  /\ \A f \in Indices : f < n /\ layout[f].u > 0 =>
       \E k \in 1 .. Len(columns) : columns[k] = f
  /\ \A f \in Indices : f < n /\ layout[f].pk => key = f

(* The values bound so far are the first columns, and the other columns    *)
(* are still to come.                                                      *)
BoundSoFar ==
  /\ Len(bound) <= Len(columns)
  /\ \A k \in 1 .. Len(bound) : bound[k] = columns[k]
  /\ \A k \in 1 .. Len(bound) : columns[k] < i
  /\ \A k \in 1 .. Len(columns) : k > Len(bound) => i <= columns[k]

LoopInv ==
  /\ pc = "build" => ColumnsSoFar(i)
  /\ pc \in {"bind", "key", "step"} => ColumnsSoFar(Len(layout) + 1)
  /\ pc = "build" => bound = <<>>
  /\ pc = "bind" => BoundSoFar
  /\ pc = "key" => kind = "update" /\ bound = columns
  /\ pc = "step" => bound = Marks

StatementInv ==
  /\ StatementTypeOK
  /\ OnlyFailedBindsLeak
  /\ WellMarked(layout) => LoopInv

(* What StatementAssumption says of the table in use.                      *)
LEMMA LayoutFacts ==
  ASSUME layout \in Layouts
  PROVE  /\ layout \in Seq(Field)
         /\ Len(layout) \in Nat
         /\ \A f \in Indices : layout[f] \in Field
         /\ \E f \in Indices : layout[f].pk
         /\ \A f, g \in Indices : layout[f].pk /\ layout[g].pk => f = g
         /\ \A f \in Indices : layout[f].u \in Int
  <1>1. layout \in Seq(Field)
    BY StatementAssumption
  <1>2. \A f \in Indices : layout[f] \in Field
    BY <1>1 DEF Indices
  <1>3. \A f \in Indices : layout[f].u \in Int
    BY <1>2 DEF Field
  <1>4. /\ \E f \in Indices : layout[f].pk
        /\ \A f, g \in Indices : layout[f].pk /\ layout[g].pk => f = g
    BY StatementAssumption, Zenon DEF Indices
  <1>5. Len(layout) \in Nat
    BY <1>1
  <1>6. QED
    BY <1>1, <1>2, <1>3, <1>4, <1>5

(* And what its marks say.                                                 *)
LEMMA MarkFacts ==
  ASSUME WellMarked(layout)
  PROVE  /\ \A f \in Indices : layout[f].u = -1 \/ layout[f].u > 0
         /\ \A f \in Indices : layout[f].pk => layout[f].u = -1
  BY DEF WellMarked, Indices

LEMMA AppendFacts ==
  ASSUME NEW S, NEW s \in Seq(S), NEW e \in S
  PROVE  /\ Append(s, e) \in Seq(S)
         /\ Len(Append(s, e)) = Len(s) + 1
         /\ \A k \in 1 .. Len(s) : Append(s, e)[k] = s[k]
         /\ Append(s, e)[Len(s) + 1] = e
  OBVIOUS

LEMMA StatementInitInv == StatementInit => StatementInv
  <1> SUFFICES ASSUME StatementInit PROVE StatementInv
    OBVIOUS
  <1>1. Len(layout) \in Nat
    BY LayoutFacts DEF StatementInit
  <1>2. StatementTypeOK
    BY <1>1, StatementAssumption DEF StatementInit, StatementTypeOK, Indices
  <1>3. OnlyFailedBindsLeak
    BY DEF StatementInit, OnlyFailedBindsLeak
  <1>4. LoopInv
    BY DEF StatementInit, LoopInv
  <1>5. QED
    BY <1>2, <1>3, <1>4 DEF StatementInv

LEMMA TypeStep ==
  ASSUME StatementInv, [StatementNext]_statementVars
  PROVE  StatementTypeOK'
  <1> USE DEF StatementInv
  <1>0. Len(layout) \in Nat /\ layout \in Seq(Field)
    BY LayoutFacts DEF StatementTypeOK
  <1>1. CASE AddUser
    BY <1>0, <1>1, StatementAssumption
    DEF AddUser, StatementTypeOK, Indices
  <1>2. CASE BuildField
    <2>1. i \in Indices /\ columns \in Seq(Indices) /\ layout' = layout
      BY <1>2 DEF BuildField, StatementTypeOK
    <2>2. Append(columns, i) \in Seq(Indices)
      BY <2>1, AppendFacts
    <2>3. columns' \in Seq(Indices)
      BY <1>2, <2>1, <2>2 DEF BuildField
    <2>4. key' \in 0 .. Len(layout) /\ i' \in 1 .. Len(layout) + 1
      BY <1>0, <1>2 DEF BuildField, StatementTypeOK, Indices
    <2>5. UNCHANGED <<layout, calls, pc, kind, bound, mutex, open, misbound>>
      BY <1>2 DEF BuildField
    <2>6. QED
      BY <2>3, <2>4, <2>5 DEF StatementTypeOK, Indices
  <1>3. CASE Prepare
    BY <1>0, <1>3 DEF Prepare, Return, StatementTypeOK, Indices
  <1>4. CASE BindField
    <2>1. /\ i \in Indices /\ i' = i + 1
          /\ UNCHANGED <<layout, calls, kind, columns, key, open>>
      BY <1>4 DEF BindField
    <2>a. Append(bound, i) \in Seq(Indices)
      BY <2>1, AppendFacts DEF StatementTypeOK
    <2>2. pc' \in {"idle", "bind"} /\ bound' \in Seq(Indices)
          /\ mutex' \in {"free", "held"}
      BY <1>4, <2>a DEF BindField, BindOrFail, Return, StatementTypeOK
    <2>3. misbound' = misbound \/ misbound' = misbound + 1
      BY <1>4 DEF BindField, BindOrFail
    <2>4. QED
      BY <1>0, <2>1, <2>2, <2>3 DEF StatementTypeOK, Indices
  <1>5. CASE BindEnd
    BY <1>0, <1>5 DEF BindEnd, StatementTypeOK, Indices
  <1>6. CASE BindKey
    <2>1. PICK k \in Indices : BindOrFail(k, "step")
      BY <1>6 DEF BindKey
    <2>2. Append(bound, k) \in Seq(Indices)
      BY AppendFacts DEF StatementTypeOK
    <2>3. UNCHANGED <<layout, calls, kind, i, columns, key, open>>
      BY <1>6 DEF BindKey
    <2>4. pc' \in {"idle", "step"} /\ mutex' \in {"free", "held"}
          /\ misbound' \in Nat
      BY <2>1 DEF BindOrFail, Return, StatementTypeOK
    <2>5. bound' \in Seq(Indices)
      BY <2>1, <2>2 DEF BindOrFail, StatementTypeOK
    <2>6. QED
      BY <2>3, <2>4, <2>5 DEF StatementTypeOK, Indices
  <1>7. CASE Step
    BY <1>0, <1>7 DEF Step, Return, StatementTypeOK, OnlyFailedBindsLeak, Indices
  <1>8. CASE UNCHANGED statementVars
    BY <1>8 DEF statementVars, StatementTypeOK, Indices
  <1>9. QED
    BY <1>1, <1>2, <1>3, <1>4, <1>5, <1>6, <1>7, <1>8 DEF StatementNext

LEMMA LeakStep ==
  ASSUME StatementInv, [StatementNext]_statementVars
  PROVE  OnlyFailedBindsLeak'
  <1> USE DEF StatementInv, StatementTypeOK, OnlyFailedBindsLeak
  <1>1. CASE AddUser
    BY <1>1 DEF AddUser
  <1>2. CASE BuildField
    BY <1>2 DEF BuildField
  <1>3. CASE Prepare
    BY <1>3 DEF Prepare, Return
  <1>4. CASE BindField
    BY <1>4 DEF BindField, BindOrFail, Return
  <1>5. CASE BindEnd
    BY <1>5 DEF BindEnd
  <1>6. CASE BindKey
    BY <1>6 DEF BindKey, BindOrFail, Return
  <1>7. CASE Step
    BY <1>7 DEF Step, Return
  <1>8. CASE UNCHANGED statementVars
    BY <1>8 DEF statementVars
  <1>9. QED
    BY <1>1, <1>2, <1>3, <1>4, <1>5, <1>6, <1>7, <1>8 DEF StatementNext

(* One turn of the loop that builds the text.                              *)
LEMMA BuildStep ==
  ASSUME StatementInv, BuildField, WellMarked(layout)
  PROVE  LoopInv'
  <1> USE DEF StatementInv
  <1>1. /\ pc = "build" /\ i \in Indices /\ i' = i + 1
        /\ columns' = IF InText(layout[i]) THEN Append(columns, i) ELSE columns
        /\ key' = IF layout[i].pk THEN i ELSE key
        /\ UNCHANGED <<layout, pc, bound>>
    BY DEF BuildField
  <1>2. ColumnsSoFar(i)
    BY <1>1 DEF LoopInv
  <1>3. columns \in Seq(Indices)
    BY DEF StatementTypeOK
  <1>4. Len(columns) \in Nat /\ \A k \in 1 .. Len(columns) : columns[k] \in Indices
    BY <1>3
  <1>5. /\ Len(Append(columns, i)) = Len(columns) + 1
        /\ \A k \in 1 .. Len(columns) : Append(columns, i)[k] = columns[k]
        /\ Append(columns, i)[Len(columns) + 1] = i
    BY <1>1, <1>3, AppendFacts
  <1>6. /\ \E f \in Indices : layout[f].pk
        /\ \A f, g \in Indices : layout[f].pk /\ layout[g].pk => f = g
        /\ \A f \in Indices : layout[f].u = -1 \/ layout[f].u > 0
        /\ \A f \in Indices : layout[f].u \in Int
        /\ \A f \in Indices : layout[f].pk => layout[f].u = -1
        /\ Len(layout) \in Nat
    BY LayoutFacts, MarkFacts DEF StatementTypeOK
  <1>7. \A f \in Indices : f \in Int
    BY <1>6 DEF Indices
  <1>a. \A k \in 1 .. Len(columns) : columns[k] < i
    BY <1>2 DEF ColumnsSoFar
  <1>b. \A k \in 1 .. Len(columns) : layout[columns[k]].u > 0
    BY <1>2 DEF ColumnsSoFar
  <1>c. \A k, l \in 1 .. Len(columns) : k < l => columns[k] < columns[l]
    BY <1>2 DEF ColumnsSoFar
  <1>d. \A f \in Indices : f < i /\ layout[f].u > 0 =>
          \E k \in 1 .. Len(columns) : columns[k] = f
    BY <1>2 DEF ColumnsSoFar
  <1>e. \A f \in Indices : f < i /\ layout[f].pk => key = f
    BY <1>2 DEF ColumnsSoFar
  <1>f. \A f \in Indices : f < i + 1 <=> f < i \/ f = i
    BY <1>1, <1>7
  <1>g. \A f \in Indices : f < i + 1 /\ layout[f].pk => key' = f
    BY <1>1, <1>6, <1>e, <1>f
  <1>h. \A k \in 1 .. Len(columns) : columns[k] < i + 1
    BY <1>4, <1>a, <1>f
  <1>8. InText(layout[i]) <=> layout[i].u > 0
    BY <1>1, <1>6 DEF InText
  <1>9. ColumnsSoFar(i)'
    <2>1. CASE InText(layout[i])
      <3>1. columns' = Append(columns, i)
        BY <1>1, <2>1
      <3>2. Len(columns') = Len(columns) + 1
        BY <1>5, <3>1
      <3>3. \A k \in 1 .. Len(columns) : columns'[k] = columns[k]
        BY <1>5, <3>1
      <3>4. columns'[Len(columns) + 1] = i
        BY <1>5, <3>1
      <3>5. \A k \in 1 .. Len(columns') : columns'[k] < i + 1
        BY <1>1, <1>4, <1>7, <1>h, <3>2, <3>3, <3>4
      <3>6. \A k \in 1 .. Len(columns') : layout[columns'[k]].u > 0
        BY <1>4, <1>8, <1>b, <2>1, <3>2, <3>3, <3>4
      <3>7. \A k, l \in 1 .. Len(columns') : k < l => columns'[k] < columns'[l]
        BY <1>1, <1>4, <1>7, <1>a, <1>c, <3>2, <3>3, <3>4
      <3>8. ASSUME NEW f \in Indices, f < i + 1, layout[f].u > 0
            PROVE  \E k \in 1 .. Len(columns') : columns'[k] = f
        <4>1. CASE f = i
          BY <1>4, <3>2, <3>4, <4>1
        <4>2. CASE f # i
          <5>1. f < i
            BY <1>f, <3>8, <4>2
          <5>2. PICK k \in 1 .. Len(columns) : columns[k] = f
            BY <1>d, <3>8, <5>1
          <5>3. k \in 1 .. Len(columns')
            BY <1>4, <3>2
          <5>4. QED
            BY <3>3, <5>2, <5>3
        <4>3. QED
          BY <4>1, <4>2
      <3>9. QED
        BY <1>1, <1>g, <3>5, <3>6, <3>7, <3>8 DEF ColumnsSoFar, Indices
    <2>2. CASE ~InText(layout[i])
      <3>1. columns' = columns
        BY <1>1, <2>2
      <3>2. \A f \in Indices : f < i + 1 /\ layout[f].u > 0 =>
              \E k \in 1 .. Len(columns) : columns[k] = f
        BY <1>8, <1>d, <1>f, <2>2
      <3>3. QED
        BY <1>1, <1>b, <1>c, <1>g, <1>h, <3>1, <3>2 DEF ColumnsSoFar, Indices
    <2>3. QED
      BY <2>1, <2>2
  <1>10. QED
    BY <1>1, <1>9 DEF LoopInv, ColumnsSoFar, Indices

(* One turn of the loop that binds: a field with a bind index is the next  *)
(* column.                                                                 *)
LEMMA BindStep ==
  ASSUME StatementInv, BindField, WellMarked(layout)
  PROVE  LoopInv'
  <1> USE DEF StatementInv
  <1>1. /\ pc = "bind" /\ i \in Indices /\ i' = i + 1
        /\ UNCHANGED <<layout, columns, key, kind>>
        /\ IF IsBound(layout[i]) THEN BindOrFail(i, "bind")
           ELSE UNCHANGED <<pc, bound, mutex, misbound>>
    BY DEF BindField
  <1>2. ColumnsSoFar(Len(layout) + 1) /\ BoundSoFar
    BY <1>1 DEF LoopInv
  <1>3. /\ \A f \in Indices : layout[f].u \in Int
        /\ \A f \in Indices : layout[f].u = -1 \/ layout[f].u > 0
        /\ Len(layout) \in Nat
    BY LayoutFacts, MarkFacts DEF StatementTypeOK
  <1>4. /\ \A f \in Indices : f \in Int
        /\ \A f \in Indices : f < Len(layout) + 1
    BY <1>3 DEF Indices
  <1>5. columns \in Seq(Indices) /\ bound \in Seq(Indices)
    BY DEF StatementTypeOK
  <1>6. /\ Len(columns) \in Nat /\ Len(bound) \in Nat
        /\ \A k \in 1 .. Len(columns) : columns[k] \in Indices
    BY <1>5
  <1>7. ColumnsSoFar(Len(layout) + 1)'
    BY <1>1, <1>2 DEF ColumnsSoFar, Indices
  <1>a. /\ Len(bound) <= Len(columns)
        /\ \A k \in 1 .. Len(bound) : bound[k] = columns[k]
        /\ \A k \in 1 .. Len(bound) : columns[k] < i
        /\ \A k \in 1 .. Len(columns) : k > Len(bound) => i <= columns[k]
    BY <1>2 DEF BoundSoFar
  <1>b. /\ \A k \in 1 .. Len(columns) : layout[columns[k]].u > 0
        /\ \A k, l \in 1 .. Len(columns) : k < l => columns[k] < columns[l]
    BY <1>2 DEF ColumnsSoFar
  <1>8. CASE ~IsBound(layout[i])
    <2>1. UNCHANGED <<pc, bound>>
      BY <1>1, <1>8
    <2>2. \A k \in 1 .. Len(columns) : columns[k] # i
      BY <1>1, <1>3, <1>8, <1>b DEF IsBound
    <2>3. \A k \in 1 .. Len(columns) : k > Len(bound) => i + 1 <= columns[k]
      BY <1>1, <1>4, <1>6, <1>a, <2>2
    <2>4. \A k \in 1 .. Len(bound) : columns[k] < i + 1
      BY <1>1, <1>4, <1>6, <1>a
    <2>5. BoundSoFar'
      BY <1>1, <1>a, <2>1, <2>3, <2>4 DEF BoundSoFar
    <2>6. QED
      BY <1>1, <1>7, <2>1, <2>5 DEF LoopInv
  <1>9. CASE IsBound(layout[i]) /\ bound' = Append(bound, i) /\ pc' = "bind"
    <2>1. layout[i].u > 0
      BY <1>1, <1>3, <1>9 DEF IsBound
    <2>2. PICK k \in 1 .. Len(columns) : columns[k] = i
      BY <1>1, <1>2, <1>4, <2>1 DEF ColumnsSoFar
    <2>3. k > Len(bound)
      BY <1>1, <1>4, <1>6, <1>a, <2>2
    <2>4. Len(bound) + 1 \in 1 .. Len(columns) /\ Len(bound) + 1 <= k
      BY <1>6, <2>2, <2>3
    <2>5. i <= columns[Len(bound) + 1]
      BY <1>6, <1>a, <2>4
    <2>6. ~(Len(bound) + 1 < k)
      BY <1>1, <1>4, <1>6, <1>b, <2>2, <2>4, <2>5
    <2>7. k = Len(bound) + 1
      BY <1>6, <2>2, <2>4, <2>6
    <2>8. /\ Len(bound') = Len(bound) + 1
          /\ \A l \in 1 .. Len(bound) : bound'[l] = bound[l]
          /\ bound'[Len(bound) + 1] = i
      BY <1>1, <1>5, <1>9, AppendFacts
    <2>9. \A l \in 1 .. Len(bound') : bound'[l] = columns[l]
      BY <1>6, <1>a, <2>2, <2>7, <2>8
    <2>10. \A l \in 1 .. Len(bound') : columns[l] < i + 1
      BY <1>1, <1>4, <1>6, <1>a, <2>2, <2>7, <2>8
    <2>11. \A l \in 1 .. Len(columns) : l > Len(bound') => i + 1 <= columns[l]
      BY <1>1, <1>4, <1>6, <1>b, <2>2, <2>7, <2>8
    <2>12. BoundSoFar'
      BY <1>1, <1>6, <2>4, <2>8, <2>9, <2>10, <2>11 DEF BoundSoFar
    <2>13. QED
      BY <1>7, <1>9, <2>12 DEF LoopInv
  <1>10. CASE IsBound(layout[i]) /\ pc' = "idle"
    BY <1>10 DEF LoopInv
  <1>11. QED
    BY <1>1, <1>8, <1>9, <1>10 DEF BindOrFail, Return

LEMMA LoopStep ==
  ASSUME StatementInv, [StatementNext]_statementVars, WellMarked(layout)
  PROVE  LoopInv'
  <1> USE DEF StatementInv
  <1>0. /\ columns \in Seq(Indices) /\ bound \in Seq(Indices)
        /\ Len(layout) \in Nat /\ i \in 1 .. Len(layout) + 1
    BY LayoutFacts DEF StatementTypeOK
  <1>1. CASE AddUser
    <2>1. /\ pc' = "build" /\ i' = 1 /\ columns' = <<>> /\ bound' = <<>>
          /\ layout' = layout
      BY <1>1 DEF AddUser
    <2>2. ColumnsSoFar(i)'
      BY <1>0, <2>1 DEF ColumnsSoFar, Indices
    <2>3. QED
      BY <2>1, <2>2 DEF LoopInv
  <1>2. CASE BuildField
    BY <1>2, BuildStep
  <1>3. CASE Prepare
    <2>1. /\ pc = "build" /\ i = Len(layout) + 1
          /\ pc' = "idle" \/ (pc' = "bind" /\ i' = 1)
          /\ UNCHANGED <<layout, columns, key, bound>>
      BY <1>0, <1>3 DEF Prepare, Return, Indices
    <2>2. ColumnsSoFar(Len(layout) + 1)
      BY <2>1 DEF LoopInv
    <2>3. ColumnsSoFar(Len(layout) + 1)'
      BY <2>1, <2>2 DEF ColumnsSoFar, Indices
    <2>4. CASE pc' = "bind"
      <3>1. bound = <<>>
        BY <2>1 DEF LoopInv
      <3>2. Len(bound') = 0 /\ Len(columns) \in Nat
        BY <1>0, <2>1, <3>1
      <3>3. \A k \in 1 .. Len(columns) : 1 <= columns[k]
        BY <1>0 DEF Indices
      <3>4. BoundSoFar'
        BY <2>1, <2>4, <3>2, <3>3 DEF BoundSoFar
      <3>5. QED
        BY <2>3, <2>4, <3>4 DEF LoopInv
    <2>5. QED
      BY <2>1, <2>4 DEF LoopInv
  <1>4. CASE BindField
    BY <1>4, BindStep
  <1>5. CASE BindEnd
    <2>1. /\ pc = "bind" /\ i = Len(layout) + 1
          /\ pc' = IF kind = "update" THEN "key" ELSE "step"
          /\ UNCHANGED <<layout, columns, key, bound, kind>>
      BY <1>0, <1>5 DEF BindEnd, Indices
    <2>2. ColumnsSoFar(Len(layout) + 1) /\ BoundSoFar
      BY <2>1 DEF LoopInv
    <2>3. Len(bound) = Len(columns)
      <3>1. SUFFICES ASSUME Len(bound) < Len(columns) PROVE FALSE
        BY <1>0, <2>2 DEF BoundSoFar
      <3>2. Len(columns) \in 1 .. Len(columns) /\ Len(columns) > Len(bound)
        BY <1>0, <3>1
      <3>3. columns[Len(columns)] < Len(layout) + 1
        BY <2>2, <3>2 DEF ColumnsSoFar
      <3>4. Len(layout) + 1 <= columns[Len(columns)]
        BY <2>1, <2>2, <3>2 DEF BoundSoFar
      <3>5. columns[Len(columns)] \in Int
        BY <1>0, <3>2 DEF Indices
      <3>6. QED
        BY <1>0, <3>3, <3>4, <3>5
    <2>4. bound = columns
      BY <1>0, <2>2, <2>3 DEF BoundSoFar
    <2>5. ColumnsSoFar(Len(layout) + 1)'
      BY <2>1, <2>2 DEF ColumnsSoFar, Indices
    <2>6. QED
      BY <2>1, <2>4, <2>5 DEF LoopInv, Marks
  <1>6. CASE BindKey
    <2>1. PICK k \in Indices : layout[k].pk /\ BindOrFail(k, "step")
      BY <1>6 DEF BindKey
    <2>2. pc = "key" /\ UNCHANGED <<layout, columns, key, kind>>
      BY <1>6 DEF BindKey
    <2>3. /\ ColumnsSoFar(Len(layout) + 1) /\ kind = "update"
          /\ bound = columns
      BY <2>2 DEF LoopInv
    <2>4. key = k
      BY <1>0, <2>1, <2>3 DEF ColumnsSoFar, Indices
    <2>5. ColumnsSoFar(Len(layout) + 1)'
      BY <2>2, <2>3 DEF ColumnsSoFar, Indices
    <2>6. CASE pc' = "step" /\ bound' = Append(bound, k)
      BY <2>2, <2>3, <2>4, <2>5, <2>6 DEF LoopInv, Marks
    <2>7. CASE pc' = "idle"
      BY <2>7 DEF LoopInv
    <2>8. QED
      BY <2>1, <2>6, <2>7 DEF BindOrFail, Return
  <1>7. CASE Step
    BY <1>7 DEF Step, Return, LoopInv
  <1>8. CASE UNCHANGED statementVars
    BY <1>8 DEF statementVars, LoopInv, ColumnsSoFar, BoundSoFar, Marks, Indices
  <1>9. QED
    BY <1>1, <1>2, <1>3, <1>4, <1>5, <1>6, <1>7, <1>8 DEF StatementNext

-----------------------------------------------------------------------------
(* StatementInv is inductive.                                              *)
THEOREM StatementAlwaysInv == StatementSpec => []StatementInv
  <1>1. StatementInv /\ [StatementNext]_statementVars => StatementInv'
    <2> SUFFICES ASSUME StatementInv, [StatementNext]_statementVars
                 PROVE  StatementInv'
      OBVIOUS
    <2>1. layout' = layout
      BY DEF StatementNext, AddUser, BuildField, Prepare, BindField, BindEnd,
             BindKey, Step, statementVars
    <2>2. WellMarked(layout') => LoopInv'
      BY <2>1, LoopStep
    <2>3. StatementTypeOK' /\ OnlyFailedBindsLeak'
      BY TypeStep, LeakStep
    <2>4. QED BY <2>2, <2>3 DEF StatementInv
  <1>2. QED
    BY <1>1, StatementInitInv, PTL DEF StatementSpec

(* The types of Statement.                                                 *)
THEOREM StatementWellTyped == StatementSpec => []StatementTypeOK
  BY StatementAlwaysInv, PTL DEF StatementInv

(* For every table of fields that marks what is not inserted with -1, the  *)
(* key among it, the builders of an insert or update and the binder choose *)
(* the same fields in the same order.                                      *)
THEOREM BuilderAndBinderAgree == StatementSpec => []EveryMarkItsOwnValue
  <1>1. StatementInv => EveryMarkItsOwnValue
    <2> SUFFICES ASSUME StatementInv, pc = "step", WellMarked(layout)
                 PROVE  EveryMarkItsOwnValue
      BY DEF EveryMarkItsOwnValue
    <2>1. ColumnsSoFar(Len(layout) + 1) /\ bound = Marks
      BY DEF StatementInv, LoopInv
    <2>2. /\ columns \in Seq(Indices) /\ Len(layout) \in Nat
          /\ \E f \in Indices : layout[f].pk
      BY LayoutFacts DEF StatementInv, StatementTypeOK
    <2>3. \A f \in Indices : f < Len(layout) + 1
      BY <2>2 DEF Indices
    <2>4. \A k \in 1 .. Len(columns) : columns[k] \in Indices
      BY <2>2
    <2>5. {columns[k] : k \in 1 .. Len(columns)} =
            {f \in Indices : layout[f].u > 0}
      BY <2>1, <2>3, <2>4 DEF ColumnsSoFar
    <2>6. layout[key].pk
      BY <2>1, <2>2, <2>3 DEF ColumnsSoFar
    <2>7. QED
      BY <2>1, <2>5, <2>6 DEF EveryMarkItsOwnValue
  <1>2. QED
    BY <1>1, StatementAlwaysInv, PTL

(* The mutex is given back on every path, and a statement stays open only  *)
(* if a value could not be bound.                                          *)
THEOREM LeaksOnlyFailedBinds == StatementSpec => []OnlyFailedBindsLeak
  BY StatementAlwaysInv, PTL DEF StatementInv
=============================================================================
