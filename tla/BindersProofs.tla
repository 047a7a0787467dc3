---------------------------- MODULE BindersProofs ----------------------------
(***************************************************************************)
(* For every set of names and sorts and any nesting: the tables and the     *)
(* parser's counters stay well typed, what is bound is looked up in every   *)
(* session whatever failed before, and the backups and checkpoints of the   *)
(* lets implement a stack of snapshots.  In the sessions of MCBinders that  *)
(* keep to DisciplinedNext one table per kind of binder is enough, and      *)
(* everything is undone.                                                    *)
(***************************************************************************)
EXTENDS MCBinders, FiniteSetTheorems, SequenceTheorems, TLAPS

LetFrames == {i \in DOMAIN open : open[i].kind = "let"}
Counted == {i \in LetFrames : ~open[i].chained}
QuantFrames == {i \in DOMAIN open : open[i].kind = "quant"}

(* Only a binder whose list is read can be the innermost, a let's body alone *)
(* holds a chained let, and a let that reads a value has a name for it.      *)
WellNested ==
    /\ Len(open) <= MaxOpen
    /\ \A i \in 1 .. Len(open) :
          /\ i < Len(open) => open[i].phase # "list"
          /\ open[i].chained => i > 1 /\ open[i].kind = "let" /\ open[i - 1].kind = "let"
          /\ open[i].kind = "let" /\ open[i].phase = "value" => open[i].pending \in Name
          /\ open[i].phase = "value" => open[i].kind = "let"

(* The checkpoints mark growing prefixes of the backups, which undo all.    *)
BackupsNested ==
    /\ \A i \in 1 .. Len(checkpoints) : \A j \in i .. Len(checkpoints) :
          checkpoints[i] <= checkpoints[j]
    /\ checkpoints = << >> => letBackup = << >>
    /\ checkpoints # << >> => checkpoints[1] = 0
    /\ LetsBefore(0) = Nothing

(* Each open let has its checkpoint and each counted one its count.  There   *)
(* may be more, left by what failed; but only if the count has some left too, *)
(* which is why it does not come back to zero with names in the table.       *)
LetsCounted ==
    /\ Cardinality(Counted) <= letDepth
    /\ Cardinality(LetFrames) <= Len(checkpoints)
    /\ Cardinality(Counted) = letDepth => Cardinality(LetFrames) = Len(checkpoints)
    /\ letDepth > 0 => letMode # "non"

(* While a quantifier is open its count is not zero, and the cases of a      *)
(* match inside it will put the mode back that it set.                       *)
QuantsCounted ==
    /\ Cardinality(QuantFrames) <= quantDepth
    /\ QuantFrames # {} => inQuant
    /\ \A i \in QuantFrames : \A j \in i .. Len(open) :
          open[j].kind = "match" /\ open[j].phase = "body" => open[j].saved

(* The inductive invariant of every session. *)
BindersInv == TypeOK /\ WellNested /\ BackupsNested /\ LetsCounted /\ QuantsCounted
-----------------------------------------------------------------------------
(* Tables of the lets *)

(* A nonempty set of naturals has a least element, and Min is it. *)
LEMMA MinNat ==
    ASSUME NEW S \in SUBSET Nat, S # {}
    PROVE  Min(S) \in S /\ \A j \in S : Min(S) <= j
<1>1. \E i \in S : \A j \in S : ~ (<<j, i>> \in OpToRel(<, Nat))
  BY WFMin, NatLessThanWellFounded, Zenon
<1>2. PICK i \in S : \A j \in S : ~ (<<j, i>> \in OpToRel(<, Nat))
  BY <1>1
<1>3. \A j \in S : ~ (j < i)
  BY <1>2, Zenon DEF OpToRel
<1>4. \A j \in S : i <= j
  BY <1>3
<1> QED BY <1>4 DEF Min

Backup == [name : Name, old : BoundNode \cup {Absent}]

(* The table that the backups b of the table t restore after the first c.    *)
Before(t, b, c) ==
    [x \in Name |->
        LET later == {i \in c + 1 .. Len(b) : b[i].name = x} IN
        IF later = {} THEN t[x] ELSE b[Min(later)].old]

(* The first backup of x after the first c, if there is one, is what x will  *)
(* be restored to.                                                           *)
FirstBackup(b, x, c, i) ==
    /\ i \in c + 1 .. Len(b)
    /\ b[i].name = x
    /\ \A j \in c + 1 .. i - 1 : b[j].name # x

LEMMA BeforeIs ==
    ASSUME NEW t, NEW b, NEW c \in Nat, Len(b) \in Nat, NEW x \in Name
    PROVE  /\ \A i : FirstBackup(b, x, c, i) => Before(t, b, c)[x] = b[i].old
           /\ (\A i : ~ FirstBackup(b, x, c, i)) =>
                 /\ Before(t, b, c)[x] = t[x]
                 /\ \A i \in c + 1 .. Len(b) : b[i].name # x
<1> DEFINE later == {i \in c + 1 .. Len(b) : b[i].name = x}
<1>1. later \in SUBSET Nat
  OBVIOUS
<1>2. Before(t, b, c)[x] = IF later = {} THEN t[x] ELSE b[Min(later)].old
  BY DEF Before
<1>3. later # {} => FirstBackup(b, x, c, Min(later))
  <2> SUFFICES ASSUME later # {} PROVE FirstBackup(b, x, c, Min(later))
    OBVIOUS
  <2>1. Min(later) \in later /\ \A j \in later : Min(later) <= j
    <3> HIDE DEF later
    <3> QED BY <1>1, MinNat
  <2>2. Min(later) \in c + 1 .. Len(b) /\ b[Min(later)].name = x
    BY <2>1
  <2>3. ASSUME NEW j \in c + 1 .. Min(later) - 1 PROVE b[j].name # x
    <3>1. j \notin later
      BY <2>1, <2>2
    <3> QED BY <3>1, <2>2
  <2> QED BY <2>2, <2>3 DEF FirstBackup
<1>4. ASSUME NEW i, FirstBackup(b, x, c, i) PROVE later # {} /\ Min(later) = i
  <2>1. i \in later
    BY <1>4 DEF FirstBackup
  <2>2. FirstBackup(b, x, c, Min(later))
    BY <2>1, <1>3
  <2> HIDE DEF later
  <2>3. \A m, k : FirstBackup(b, x, c, m) /\ FirstBackup(b, x, c, k) => m = k
    BY DEF FirstBackup
  <2> QED BY <2>1, <2>2, <2>3, <1>4
<1>5. later = {} => \A i \in c + 1 .. Len(b) : b[i].name # x
  OBVIOUS
<1> HIDE DEF later
<1> QED BY <1>2, <1>3, <1>4, <1>5

(* Binding another name leaves what each checkpoint restores. *)
LEMMA BoundLater ==
    ASSUME NEW b \in Seq(Backup), NEW t \in Table, NEW c \in 0 .. Len(b),
           NEW n \in Name, NEW u, NEW d \in Seq(Backup),
           \A x \in Name : x # n => u[x] = t[x],
           Len(d) = Len(b) + 1, \A i \in 1 .. Len(b) : d[i] = b[i],
           d[Len(b) + 1].name = n, d[Len(b) + 1].old = t[n]
    PROVE  Before(u, d, c) = Before(t, b, c)
<1> DEFINE m == Len(b)
<1>1. /\ m \in Nat /\ c \in Nat /\ c <= m
      /\ Len(d) = m + 1
      /\ \A i \in 1 .. m : d[i] = b[i]
      /\ d[m + 1].name = n /\ d[m + 1].old = t[n]
      /\ \A x \in Name : x # n => u[x] = t[x]
  BY DEF Table, Backup
<1> HIDE DEF m
<1>2. ASSUME NEW x \in Name PROVE Before(u, d, c)[x] = Before(t, b, c)[x]
  <2>0. Len(b) \in Nat /\ Len(d) \in Nat
    BY <1>1 DEF m
  <2>1. ASSUME NEW i, FirstBackup(b, x, c, i) PROVE Before(u, d, c)[x] = Before(t, b, c)[x]
    <3>1. i \in 1 .. m /\ FirstBackup(d, x, c, i)
      BY <2>1, <1>1 DEF FirstBackup, m
    <3>2. Before(u, d, c)[x] = d[i].old
      BY <3>1, <1>1, <2>0, BeforeIs
    <3>3. Before(t, b, c)[x] = b[i].old
      BY <2>1, <1>1, <2>0, BeforeIs
    <3> QED BY <3>1, <3>2, <3>3, <1>1
  <2>2. ASSUME \A i : ~ FirstBackup(b, x, c, i) PROVE Before(u, d, c)[x] = Before(t, b, c)[x]
    <3>1. Before(t, b, c)[x] = t[x] /\ \A i \in c + 1 .. m : b[i].name # x
      BY <2>2, <1>1, <2>0, BeforeIs DEF m
    <3>2. CASE x = n
      <4>1. FirstBackup(d, x, c, m + 1)
        BY <3>1, <3>2, <1>1 DEF FirstBackup, m
      <4>2. Before(u, d, c)[x] = d[m + 1].old
        BY <4>1, <1>1, <2>0, BeforeIs
      <4> QED BY <4>2, <3>1, <3>2, <1>1
    <3>3. CASE x # n
      <4>1. \A i : ~ FirstBackup(d, x, c, i)
        BY <3>1, <3>3, <1>1 DEF FirstBackup
      <4>2. Before(u, d, c)[x] = u[x]
        BY <4>1, <1>1, <2>0, BeforeIs
      <4> QED BY <4>2, <3>1, <3>3, <1>1
    <3> QED BY <3>2, <3>3
  <2> QED BY <2>1, <2>2
<1> QED BY <1>2 DEF Before

(* Leaving scopes leaves what the checkpoints below them restore. *)
LEMMA LeftLater ==
    ASSUME NEW b \in Seq(Backup), NEW t, NEW d \in 0 .. Len(b), NEW c \in 0 .. d
    PROVE  Before(Before(t, b, d), SubSeq(b, 1, d), c) = Before(t, b, c)
<1> DEFINE u == Before(t, b, d)
           e == SubSeq(b, 1, d)
           m == Len(b)
<1>1. /\ m \in Nat /\ c \in Nat /\ d \in Nat /\ c <= d /\ d <= m
      /\ Len(e) = d
      /\ \A i \in 1 .. d : e[i] = b[i]
  OBVIOUS
<1> HIDE DEF e
<1>2. ASSUME NEW x \in Name PROVE Before(u, e, c)[x] = Before(t, b, c)[x]
  <2>1. ASSUME NEW i \in 1 .. d, FirstBackup(b, x, c, i)
        PROVE  Before(u, e, c)[x] = Before(t, b, c)[x]
    <3>1. FirstBackup(e, x, c, i)
      BY <2>1, <1>1 DEF FirstBackup
    <3>2. Before(u, e, c)[x] = e[i].old
      BY <3>1, <1>1, BeforeIs
    <3>3. Before(t, b, c)[x] = b[i].old
      BY <2>1, <1>1, BeforeIs
    <3> QED BY <3>2, <3>3, <1>1
  <2>2. ASSUME \A i \in 1 .. d : ~ FirstBackup(b, x, c, i)
        PROVE  Before(u, e, c)[x] = Before(t, b, c)[x]
    <3>1. \A i : ~ FirstBackup(e, x, c, i)
      BY SMTT(20), <2>2, <1>1 DEF FirstBackup
    <3>2. /\ Before(u, e, c)[x] = u[x]
          /\ \A i \in c + 1 .. d : e[i].name # x
      BY <3>1, <1>1, BeforeIs
    <3>3. \A i : FirstBackup(b, x, c, i) <=> FirstBackup(b, x, d, i)
      BY <3>2, <1>1 DEF FirstBackup
    <3>4. CASE \E i : FirstBackup(b, x, c, i)
      <4> PICK i : FirstBackup(b, x, c, i)
        BY <3>4
      <4>1. Before(t, b, c)[x] = b[i].old
        BY <1>1, BeforeIs
      <4>2. Before(t, b, d)[x] = b[i].old
        BY <3>3, <1>1, BeforeIs
      <4> QED BY <4>1, <4>2, <3>2
    <3>5. CASE ~ \E i : FirstBackup(b, x, c, i)
      <4>1. Before(t, b, c)[x] = t[x]
        BY <3>5, <1>1, BeforeIs
      <4>2. Before(t, b, d)[x] = t[x]
        BY <3>3, <3>5, <1>1, BeforeIs
      <4> QED BY <4>1, <4>2, <3>2
    <3> QED BY <3>4, <3>5
  <2> QED BY <2>1, <2>2
<1>3. Before(u, e, c) = Before(t, b, c)
  BY <1>2 DEF Before
<1> QED BY <1>3 DEF e
-----------------------------------------------------------------------------
(* The parser's stack *)

(* Adding or removing the last index of a set of indexes. *)
LEMMA CountLast ==
    ASSUME NEW n \in Nat, NEW T \in SUBSET (1 .. n)
    PROVE  /\ IsFiniteSet(T) /\ Cardinality(T) \in Nat
           /\ Cardinality(T \cup {n + 1}) = Cardinality(T) + 1
           /\ Cardinality(T \ {n}) = IF n \in T THEN Cardinality(T) - 1 ELSE Cardinality(T)
<1>1. IsFiniteSet(1 .. n)
  BY FS_Interval
<1>2. IsFiniteSet(T)
  BY <1>1, FS_Subset
<1>3. n + 1 \notin T
  OBVIOUS
<1>4. Cardinality(T \cup {n + 1}) = Cardinality(T) + 1
  BY <1>2, <1>3, FS_AddElement
<1>5. Cardinality(T \ {n}) = IF n \in T THEN Cardinality(T) - 1 ELSE Cardinality(T)
  BY <1>2, FS_RemoveElement
<1> QED BY <1>2, <1>4, <1>5, FS_CardinalityType

LEMMA OpenFacts ==
    ASSUME TypeOK
    PROVE  /\ Len(open) \in Nat /\ DOMAIN open = 1 .. Len(open)
           /\ \A i \in 1 .. Len(open) : open[i] \in Frame
           /\ open # << >> => /\ Len(open) \in Nat \ {0} /\ Len(open) - 1 \in Nat
                              /\ Top = open[Len(open)] /\ Top \in Frame
           /\ open = << >> => Len(open) = 0
           /\ LetFrames \in SUBSET (1 .. Len(open))
           /\ Counted \in SUBSET (1 .. Len(open))
           /\ QuantFrames \in SUBSET (1 .. Len(open))
BY DEF TypeOK, Top, LetFrames, Counted, QuantFrames

(* A binder is opened. *)
LEMMA EnterFacts ==
    ASSUME TypeOK, NEW kind \in {"let", "quant", "match", "fun"}, NEW chained \in BOOLEAN,
           Enter(kind, chained)
    PROVE  /\ open' \in Seq(Frame) /\ Len(open') = Len(open) + 1 /\ Len(open) + 1 <= MaxOpen
           /\ \A i \in 1 .. Len(open) : open'[i] = open[i]
           /\ open'[Len(open) + 1] = Opened(kind, chained)
           /\ LetFrames' = IF kind = "let" THEN LetFrames \cup {Len(open) + 1} ELSE LetFrames
           /\ Counted' = IF kind = "let" /\ ~chained THEN Counted \cup {Len(open) + 1} ELSE Counted
           /\ QuantFrames' = IF kind = "quant" THEN QuantFrames \cup {Len(open) + 1} ELSE QuantFrames
<1> DEFINE n == Len(open)
           f == Opened(kind, chained)
<1>1. n \in Nat /\ DOMAIN open = 1 .. n
  BY OpenFacts
<1>2. Nothing \in Table
  BY DEF Nothing, Table
<1>3. f \in Frame /\ f.kind = kind /\ f.chained = chained
  BY <1>2 DEF Opened, Frame
<1>4. open' = Append(open, f) /\ n < MaxOpen
  BY DEF Enter
<1> HIDE DEF f
<1>5. /\ open' \in Seq(Frame) /\ Len(open') = n + 1 /\ DOMAIN open' = 1 .. n + 1
      /\ \A i \in 1 .. n : open'[i] = open[i]
      /\ open'[n + 1] = f
  BY <1>3, <1>4 DEF TypeOK
<1>6. n + 1 <= MaxOpen
  BY <1>1, <1>4, BoundAssumption
<1> HIDE DEF n
<1>7. 1 .. n + 1 = (1 .. n) \cup {n + 1}
  BY <1>1
<1>8. LetFrames' = IF kind = "let" THEN LetFrames \cup {n + 1} ELSE LetFrames
  BY <1>1, <1>3, <1>5, <1>7 DEF LetFrames
<1>9. Counted' = IF kind = "let" /\ ~chained THEN Counted \cup {n + 1} ELSE Counted
  BY <1>1, <1>3, <1>5, <1>7, <1>8 DEF Counted, LetFrames
<1>10. QuantFrames' = IF kind = "quant" THEN QuantFrames \cup {n + 1} ELSE QuantFrames
  BY <1>1, <1>3, <1>5, <1>7 DEF QuantFrames
<1> QED BY <1>5, <1>6, <1>8, <1>9, <1>10 DEF n, f

(* The frame of the innermost binder is written: f takes its place. *)
WritesTop(f) ==
    /\ open # << >> /\ f \in Frame /\ f.kind = Top.kind /\ f.chained = Top.chained
    /\ open' = [open EXCEPT ![Len(open)] = f]

LEMMA TopWritten ==
    ASSUME TypeOK, NEW f, WritesTop(f)
    PROVE  /\ open # << >> /\ f.kind = Top.kind /\ f.chained = Top.chained
           /\ open' \in Seq(Frame) /\ Len(open') = Len(open)
           /\ \A i \in 1 .. Len(open) - 1 : open'[i] = open[i]
           /\ open'[Len(open)] = f
           /\ UNCHANGED <<LetFrames, Counted, QuantFrames>>
<1> DEFINE n == Len(open)
<1>1. n \in Nat \ {0} /\ DOMAIN open = 1 .. n /\ Top = open[n]
      /\ open # << >> /\ f.kind = Top.kind /\ f.chained = Top.chained
  BY OpenFacts DEF WritesTop
<1>2. /\ open' \in Seq(Frame) /\ Len(open') = n /\ DOMAIN open' = 1 .. n
      /\ \A i \in 1 .. n - 1 : open'[i] = open[i]
      /\ open'[n] = f
  <2>1. /\ open \in Seq(Frame) /\ n = Len(open) /\ n \in 1 .. Len(open) /\ f \in Frame
        /\ open' = [open EXCEPT ![n] = f]
    BY <1>1 DEF TypeOK, WritesTop
  <2> HIDE DEF n
  <2> QED BY <2>1
<1>3. \A i \in 1 .. n : open'[i].kind = open[i].kind /\ open'[i].chained = open[i].chained
  BY <1>1, <1>2
<1>4. UNCHANGED <<LetFrames, QuantFrames>>
  BY <1>1, <1>2, <1>3 DEF LetFrames, QuantFrames
<1>5. UNCHANGED Counted
  BY <1>1, <1>3, <1>4 DEF Counted, LetFrames
<1> QED BY <1>1, <1>2, <1>4, <1>5

(* The innermost binder is left. *)
LEMMA LeaveFacts ==
    ASSUME TypeOK, open # << >>, Leave
    PROVE  /\ open' \in Seq(Frame) /\ Len(open') = Len(open) - 1
           /\ \A i \in 1 .. Len(open) - 1 : open'[i] = open[i]
           /\ LetFrames' = LetFrames \ {Len(open)}
           /\ Counted' = Counted \ {Len(open)}
           /\ QuantFrames' = QuantFrames \ {Len(open)}
<1> DEFINE n == Len(open)
<1>1. n \in Nat \ {0} /\ n - 1 \in Nat /\ DOMAIN open = 1 .. n
  BY OpenFacts
<1>2. open' = [i \in 1 .. n - 1 |-> open[i]]
  BY DEF Leave, Outer
<1>3. \A i \in 1 .. n - 1 : open[i] \in Frame
  BY <1>1 DEF TypeOK
<1> HIDE DEF n
<1>4. /\ open' \in Seq(Frame) /\ Len(open') = n - 1 /\ DOMAIN open' = 1 .. n - 1
      /\ \A i \in 1 .. n - 1 : open'[i] = open[i]
  BY <1>1, <1>2, <1>3
<1>5. 1 .. n - 1 = (1 .. n) \ {n}
  BY <1>1
<1>6. LetFrames' = LetFrames \ {n} /\ QuantFrames' = QuantFrames \ {n}
  BY <1>1, <1>4, <1>5 DEF LetFrames, QuantFrames
<1>7. Counted' = Counted \ {n}
  BY <1>1, <1>4, <1>6 DEF Counted, LetFrames
<1> QED BY <1>4, <1>6, <1>7 DEF n

(* Every call in progress is unwound. *)
LEMMA UnwoundFacts ==
    ASSUME open' = << >>
    PROVE  /\ open' \in Seq(Frame) /\ Len(open') = 0
           /\ LetFrames' = {} /\ Counted' = {} /\ QuantFrames' = {}
BY DEF LetFrames, Counted, QuantFrames

(* The outermost of the lets that are the body of one another is counted. *)
LEMMA OutermostLetCounted ==
    ASSUME TypeOK, WellNested, NEW i \in LetFrames
    PROVE  \E j \in Counted : j <= i /\ \A k \in j .. i : k \in LetFrames
<1> DEFINE S == {j \in 1 .. i : \A k \in j .. i : k \in LetFrames}
<1>1. /\ i \in 1 .. Len(open) /\ Len(open) \in Nat /\ i \in S /\ S \in SUBSET Nat
      /\ LetFrames \in SUBSET (1 .. Len(open)) /\ DOMAIN open = 1 .. Len(open)
  BY OpenFacts
<1>2. PICK j \in S : \A k \in S : j <= k
  <2> HIDE DEF S
  <2> QED BY <1>1, MinNat
<1>3. j \in LetFrames /\ j \in 1 .. i
  BY <1>1, <1>2
<1>4. ASSUME open[j].chained PROVE FALSE
  <2>1. j > 1 /\ open[j - 1].kind = "let"
    BY <1>1, <1>3, <1>4 DEF WellNested
  <2>2. j - 1 \in LetFrames
    BY <2>1, <1>1, <1>3 DEF LetFrames
  <2>3. j - 1 \in S
    BY <2>1, <2>2, <1>2, <1>3
  <2> QED BY <2>3, <1>2, <1>3
<1>5. j \in Counted
  BY <1>3, <1>4 DEF Counted
<1> QED BY <1>5, <1>2, <1>3
-----------------------------------------------------------------------------
(* The operations on the tables of the lets *)

LEMMA LetsFacts ==
    ASSUME TypeOK
    PROVE  /\ lets \in Table /\ letBackup \in Seq(Backup) /\ Len(letBackup) \in Nat
           /\ checkpoints \in Seq(0 .. Len(letBackup)) /\ Len(checkpoints) \in Nat
           /\ \A i \in 1 .. Len(checkpoints) : checkpoints[i] \in 0 .. Len(letBackup)
           /\ \A c : LetsBefore(c) = Before(lets, letBackup, c)
BY DEF TypeOK, Backup, LetsBefore, Before

LEMMA BeforeType ==
    ASSUME NEW t \in Table, NEW b \in Seq(Backup), NEW c \in Nat
    PROVE  Before(t, b, c) \in Table
<1>1. Len(b) \in Nat /\ \A i \in 1 .. Len(b) : b[i] \in Backup
  OBVIOUS
<1>2. ASSUME NEW x \in Name PROVE Before(t, b, c)[x] \in BoundNode \cup {Absent}
  <2>1. CASE \E i : FirstBackup(b, x, c, i)
    <3> PICK i : FirstBackup(b, x, c, i)
      BY <2>1
    <3>1. Before(t, b, c)[x] = b[i].old /\ i \in 1 .. Len(b)
      BY <1>1, BeforeIs DEF FirstBackup
    <3> QED BY <3>1, <1>1 DEF Backup
  <2>2. CASE ~ \E i : FirstBackup(b, x, c, i)
    <3>1. Before(t, b, c)[x] = t[x]
      BY <2>2, <1>1, BeforeIs
    <3> QED BY <3>1 DEF Table
  <2> QED BY <2>1, <2>2
<1> QED BY <1>2 DEF Before, Table

(* Nothing was backed up since the last backup. *)
LEMMA BeforeNow ==
    ASSUME NEW t \in Table, NEW b \in Seq(Backup)
    PROVE  Before(t, b, Len(b)) = t
<1>1. Len(b) \in Nat
  OBVIOUS
<1>2. ASSUME NEW x \in Name PROVE Before(t, b, Len(b))[x] = t[x]
  <2>1. \A i : ~ FirstBackup(b, x, Len(b), i)
    BY <1>1 DEF FirstBackup
  <2> QED BY <2>1, <1>1, BeforeIs
<1> QED BY <1>2 DEF Before, Table

(* What leaving k scopes does to the tables: the checkpoints that are left   *)
(* restore what they restored.                                               *)
LEMMA PopFacts ==
    ASSUME TypeOK, BackupsNested, NEW k \in 1 .. Len(checkpoints), PopLetScopes(k)
    PROVE  LET left == Len(checkpoints) - k
               c == checkpoints[left + 1] IN
           /\ left \in Nat /\ left + 1 <= Len(checkpoints) /\ c \in 0 .. Len(letBackup)
           /\ lets' \in Table /\ lets' = LetsBefore(c)
           /\ letBackup' \in Seq(Backup)
           /\ checkpoints' \in Seq(0 .. Len(letBackup')) /\ Len(checkpoints') = left
           /\ \A i \in 1 .. left : /\ checkpoints'[i] = checkpoints[i]
                                   /\ LetsBefore(checkpoints[i])' = LetsBefore(checkpoints[i])
           /\ BackupsNested'
<1> DEFINE p == Len(checkpoints)
           left == p - k
           c == checkpoints[left + 1]
           m == Len(letBackup)
<1>1. /\ p \in Nat /\ m \in Nat /\ left \in Nat /\ left + 1 <= p /\ left + 1 \in 1 .. p
      /\ \A i \in 1 .. p : checkpoints[i] \in 0 .. m
  BY LetsFacts
<1>2. c \in 0 .. m
  BY <1>1
<1>3. /\ lets' = LetsBefore(c) /\ letBackup' = SubSeq(letBackup, 1, c)
      /\ checkpoints' = SubSeq(checkpoints, 1, left)
  BY DEF PopLetScopes
<1>4. \A i \in 1 .. left : checkpoints[i] \in 0 .. c
  <2>1. \A i \in 1 .. left : checkpoints[i] <= checkpoints[left + 1]
    BY <1>1 DEF BackupsNested
  <2> QED BY <2>1, <1>1
<1> HIDE DEF c, left, p, m
<1>5. lets \in Table /\ letBackup \in Seq(Backup) /\ m = Len(letBackup) /\ p = Len(checkpoints)
  BY LetsFacts DEF m, p
<1>6. /\ letBackup' \in Seq(Backup) /\ Len(letBackup') = c
  BY <1>2, <1>3, <1>5
<1>7. /\ checkpoints' \in Seq(0 .. c) /\ Len(checkpoints') = left
      /\ \A i \in 1 .. left : checkpoints'[i] = checkpoints[i]
  <2>1. \A i \in 1 .. left : checkpoints[i] \in 0 .. c
    BY <1>4
  <2> QED BY <2>1, <1>1, <1>3, SubSeqProperties
<1>8. lets' \in Table
  BY <1>2, <1>3, <1>5, BeforeType, LetsFacts
<1>9. ASSUME NEW d \in 0 .. c PROVE LetsBefore(d)' = LetsBefore(d)
  <2>1. LetsBefore(d)' = Before(lets', letBackup', d)
    BY DEF LetsBefore, Before
  <2>2. LetsBefore(d) = Before(lets, letBackup, d) /\ lets' = Before(lets, letBackup, c)
    BY <1>3, LetsFacts
  <2>3. Before(Before(lets, letBackup, c), SubSeq(letBackup, 1, c), d) = Before(lets, letBackup, d)
    <3>1. c \in 0 .. Len(letBackup)
      BY <1>2, <1>5
    <3> QED BY <3>1, <1>5, LeftLater
  <2> QED BY <2>1, <2>2, <2>3, <1>3
<1>10. BackupsNested'
  <2>1. \A i \in 1 .. left : \A j \in i .. left : checkpoints'[i] <= checkpoints'[j]
    BY SMTT(20), <1>1, <1>5, <1>7 DEF BackupsNested
  <2>2. checkpoints # << >> /\ checkpoints[1] = 0
    BY <1>1, <1>5 DEF BackupsNested
  <2>3. left = 0 => c = 0
    BY <2>2 DEF c
  <2>4. checkpoints' = << >> => letBackup' = << >>
    BY <1>1, <1>6, <1>7, <2>3
  <2>5. checkpoints' # << >> => checkpoints'[1] = 0
    BY <1>1, <1>7, <2>2
  <2>6. LetsBefore(0)' = Nothing
    BY <1>2, <1>9 DEF BackupsNested
  <2> QED BY <2>1, <2>4, <2>5, <2>6, <1>7 DEF BackupsNested
<1> QED BY <1>1, <1>2, <1>3, <1>4, <1>5, <1>6, <1>7, <1>8, <1>9, <1>10 DEF left, c, m, p

(* What binding a name by a let does to them. *)
RegisterLet(x, node) ==
    /\ lets' = [lets EXCEPT ![x] = node]
    /\ letBackup' = Append(letBackup, [name |-> x, old |-> lets[x]])
    /\ UNCHANGED checkpoints

LEMMA BindFacts ==
    ASSUME TypeOK, BackupsNested, NEW x \in Name, NEW node \in BoundNode, checkpoints # << >>,
           RegisterLet(x, node)
    PROVE  /\ lets' \in Table /\ letBackup' \in Seq(Backup)
           /\ checkpoints' \in Seq(0 .. Len(letBackup'))
           /\ \A c \in 0 .. Len(letBackup) : LetsBefore(c)' = LetsBefore(c)
           /\ BackupsNested'
<1> DEFINE old == [name |-> x, old |-> lets[x]]
<1>1. /\ lets \in Table /\ letBackup \in Seq(Backup) /\ Len(letBackup) \in Nat
      /\ Len(checkpoints) \in Nat
      /\ \A i \in 1 .. Len(checkpoints) : checkpoints[i] \in 0 .. Len(letBackup)
  BY LetsFacts
<1>2. old \in Backup /\ lets' \in Table
  BY <1>1 DEF RegisterLet, Backup, Table
<1>3. /\ letBackup' \in Seq(Backup) /\ Len(letBackup') = Len(letBackup) + 1
      /\ \A i \in 1 .. Len(letBackup) : letBackup'[i] = letBackup[i]
      /\ letBackup'[Len(letBackup) + 1].name = x
      /\ letBackup'[Len(letBackup) + 1].old = lets[x]
  <2>1. letBackup' = Append(letBackup, old)
    BY DEF RegisterLet
  <2> HIDE DEF old
  <2>2. /\ letBackup' \in Seq(Backup) /\ Len(letBackup') = Len(letBackup) + 1
        /\ \A i \in 1 .. Len(letBackup) : letBackup'[i] = letBackup[i]
        /\ letBackup'[Len(letBackup) + 1] = old
    BY <2>1, <1>1, <1>2
  <2> QED BY <2>2 DEF old
<1>. HIDE DEF old
<1>4. checkpoints' \in Seq(0 .. Len(letBackup'))
  <2>1. 0 .. Len(letBackup) \subseteq 0 .. Len(letBackup')
    BY <1>1, <1>3
  <2> QED BY <2>1, LetsFacts, SeqMonotonic DEF RegisterLet
<1>5. ASSUME NEW c \in 0 .. Len(letBackup) PROVE LetsBefore(c)' = LetsBefore(c)
  <2>1. LetsBefore(c)' = Before(lets', letBackup', c) /\ LetsBefore(c) = Before(lets, letBackup, c)
    BY DEF LetsBefore, Before
  <2>2. Before(lets', letBackup', c) = Before(lets, letBackup, c)
    <3>1. \A y \in Name : y # x => lets'[y] = lets[y]
      BY <1>1 DEF RegisterLet, Table
    <3> QED BY <3>1, <1>1, <1>3, BoundLater
  <2> QED BY <2>1, <2>2
<1>6. LetsBefore(0)' = Nothing
  BY <1>1, <1>5 DEF BackupsNested
<1> QED BY <1>2, <1>3, <1>4, <1>5, <1>6 DEF RegisterLet, BackupsNested
-----------------------------------------------------------------------------
(* Every step keeps the invariant *)

LEMMA CountsAreNat ==
    ASSUME TypeOK
    PROVE  /\ Cardinality(LetFrames) \in Nat /\ Cardinality(Counted) \in Nat
           /\ Cardinality(QuantFrames) \in Nat
BY OpenFacts, CountLast

(* A binder's frame is written and nothing is opened or closed. *)
LEMMA TopStep ==
    ASSUME BindersInv, NEW f, WritesTop(f),
           f.phase = "value" => f.kind = "let" /\ f.pending \in Name,
           f.kind = "match" /\ f.phase = "body" /\ QuantFrames # {} => f.saved,
           UNCHANGED <<checkpoints, letDepth, letMode, quantDepth>>,
           inQuant => inQuant'
    PROVE  open' \in Seq(Frame) /\ WellNested' /\ LetsCounted' /\ QuantsCounted'
<1> DEFINE n == Len(open)
<1>1. /\ n \in Nat \ {0} /\ Top = open[n] /\ QuantFrames \in SUBSET (1 .. n)
      /\ open' \in Seq(Frame) /\ Len(open') = n
      /\ \A i \in 1 .. n - 1 : open'[i] = open[i]
      /\ open'[n] = f
      /\ f.kind = open[n].kind /\ f.chained = open[n].chained
      /\ LetFrames' = LetFrames /\ Counted' = Counted /\ QuantFrames' = QuantFrames
  BY TopWritten, OpenFacts DEF BindersInv
<1>2. \A i \in 1 .. n : /\ i # n => open'[i] = open[i]
                        /\ open'[i].kind = open[i].kind /\ open'[i].chained = open[i].chained
  BY <1>1
<1>3. WellNested'
  <2>1. Len(open') <= MaxOpen
    BY <1>1 DEF BindersInv, WellNested
  <2>2. ASSUME NEW i \in 1 .. n
        PROVE  /\ i < n => open'[i].phase # "list"
               /\ open'[i].chained =>
                     i > 1 /\ open'[i].kind = "let" /\ open'[i - 1].kind = "let"
               /\ open'[i].phase = "value" => open'[i].kind = "let" /\ open'[i].pending \in Name
    <3>1. i > 1 => i - 1 \in 1 .. n
      BY <1>1
    <3> HIDE DEF n
    <3>2. /\ i < Len(open) => open[i].phase # "list"
          /\ open[i].chained => i > 1 /\ open[i].kind = "let" /\ open[i - 1].kind = "let"
          /\ open[i].phase = "value" => open[i].kind = "let" /\ open[i].pending \in Name
      BY DEF BindersInv, WellNested, n
    <3> QED BY <1>1, <1>2, <3>1, <3>2 DEF n
  <2> QED BY <2>1, <2>2, <1>1 DEF WellNested
<1>4. LetsCounted'
  BY <1>1 DEF BindersInv, LetsCounted
<1>5. QuantsCounted'
  <2>1. ASSUME NEW i \in QuantFrames, NEW j \in i .. n,
               open'[j].kind = "match", open'[j].phase = "body"
        PROVE  open'[j].saved
    <3>1. CASE j = n
      BY <2>1, <3>1, <1>1
    <3>2. CASE j # n
      BY <2>1, <3>2, <1>1, <1>2 DEF BindersInv, QuantsCounted
    <3> QED BY <3>1, <3>2
  <2>2. QuantFrames' # {} => inQuant'
    BY <1>1 DEF BindersInv, QuantsCounted
  <2> QED BY <2>1, <2>2, <1>1 DEF BindersInv, QuantsCounted
<1> QED BY <1>1, <1>3, <1>4, <1>5

(* A binder is opened where a term is expected. *)
LEMMA EnterStep ==
    ASSUME TypeOK, WellNested, NEW kind \in {"let", "quant", "match", "fun"},
           NEW chained \in BOOLEAN, TermExpected, Enter(kind, chained),
           chained => kind = "let" /\ Reading("let", "body")
    PROVE  WellNested'
<1> DEFINE n == Len(open)
<1>1. /\ n \in Nat /\ open' \in Seq(Frame) /\ Len(open') = n + 1 /\ n + 1 <= MaxOpen
      /\ \A i \in 1 .. n : open'[i] = open[i]
      /\ open'[n + 1] = Opened(kind, chained)
  BY EnterFacts, OpenFacts
<1>2. n > 0 => open[n].phase # "list" /\ (chained => open[n].kind = "let")
  BY OpenFacts DEF TermExpected, Reading
<1>3. chained => n > 0
  BY OpenFacts DEF Reading
<1>4. ASSUME NEW i \in 1 .. n + 1
      PROVE  /\ i < n + 1 => open'[i].phase # "list"
             /\ open'[i].chained => i > 1 /\ open'[i].kind = "let" /\ open'[i - 1].kind = "let"
             /\ open'[i].phase = "value" => open'[i].kind = "let" /\ open'[i].pending \in Name
  <2>1. CASE i = n + 1
    <3>1. /\ open'[i].phase = "list" /\ open'[i].kind = kind /\ open'[i].chained = chained
      BY <2>1, <1>1 DEF Opened
    <3>2. chained => open'[i - 1] = open[n]
      BY <2>1, <1>1, <1>3
    <3> QED BY <3>1, <3>2, <2>1, <1>1, <1>2, <1>3
  <2>2. CASE i \in 1 .. n
    <3>1. i > 1 => i - 1 \in 1 .. n
      BY <2>2, <1>1
    <3>2. i < n \/ i = n
      BY <2>2, <1>1
    <3> QED BY <2>2, <3>1, <3>2, <1>1, <1>2 DEF WellNested
  <2> QED BY <2>1, <2>2, <1>1
<1> QED BY <1>1, <1>4 DEF WellNested

(* The innermost binder is left. *)
LEMMA LeaveStep ==
    ASSUME TypeOK, WellNested, open # << >>, Leave
    PROVE  WellNested'
<1> DEFINE n == Len(open)
<1>1. /\ n \in Nat \ {0} /\ Len(open') = n - 1
      /\ \A i \in 1 .. n - 1 : open'[i] = open[i]
  BY LeaveFacts, OpenFacts
<1>2. n - 1 <= MaxOpen
  BY <1>1, BoundAssumption DEF WellNested
<1>3. \A i \in 1 .. n - 1 : i \in 1 .. n /\ (i > 1 => i - 1 \in 1 .. n - 1)
  BY <1>1
<1> QED BY <1>1, <1>2, <1>3 DEF WellNested

LEMMA InitInv == Init => BindersInv
<1> SUFFICES ASSUME Init PROVE BindersInv
  OBVIOUS
<1>1. /\ lets = Nothing /\ letBackup = << >> /\ checkpoints = << >> /\ letDepth = 0
      /\ quants = Nothing /\ quantDepth = 0 /\ inQuant = FALSE /\ params = Nothing /\ open = << >>
      /\ letMode \in LetMode
  BY DEF Init
<1>2. TypeOK
  <2>1. Nothing \in Table
    BY DEF Table, Nothing
  <2>2. /\ letBackup \in Seq([name : Name, old : BoundNode \cup {Absent}])
        /\ checkpoints \in Seq(0 .. Len(letBackup)) /\ open \in Seq(Frame)
    BY <1>1, EmptySeq
  <2> QED BY <2>1, <2>2, <1>1 DEF TypeOK
<1>3. LetFrames = {} /\ Counted = {} /\ QuantFrames = {}
  BY <1>1 DEF LetFrames, Counted, QuantFrames
<1>4. LetsCounted /\ QuantsCounted
  BY <1>1, <1>3, FS_EmptySet DEF LetsCounted, QuantsCounted
<1>5. WellNested
  BY <1>1, BoundAssumption DEF WellNested
<1>6. LetsBefore(0) = Nothing
  <2>1. Nothing \in Table /\ letBackup \in Seq(Backup) /\ Len(letBackup) = 0
    BY <1>1 DEF Table, Nothing
  <2>2. Before(lets, letBackup, Len(letBackup)) = lets
    BY <2>1, <1>1, BeforeNow
  <2> QED BY <2>1, <2>2, <1>1, <1>2, LetsFacts
<1>7. BackupsNested
  BY <1>1, <1>6 DEF BackupsNested
<1> QED BY <1>2, <1>4, <1>5, <1>7 DEF BindersInv

(* The tables and counters of the lets are not touched. *)
LEMMA LetsUntouched ==
    ASSUME TypeOK, BackupsNested, UNCHANGED letVars
    PROVE  /\ lets' \in Table /\ letBackup' \in Seq(Backup)
           /\ checkpoints' \in Seq(0 .. Len(letBackup'))
           /\ letDepth' \in Nat /\ letMode' \in LetMode
           /\ \A c : LetsBefore(c)' = LetsBefore(c)
           /\ BackupsNested'
<1>1. UNCHANGED <<lets, letBackup, checkpoints, letDepth, letMode>>
  BY DEF letVars
<1>2. \A c : LetsBefore(c)' = LetsBefore(c)
  BY <1>1 DEF LetsBefore
<1>3. BackupsNested'
  BY <1>1, <1>2 DEF BackupsNested
<1> QED BY <1>1, <1>2, <1>3 DEF TypeOK, Backup

LEMMA OpenLetStep ==
    ASSUME BindersInv, NEW chained \in BOOLEAN, OpenLet(chained)
    PROVE  BindersInv'
<1> DEFINE n == Len(open)
<1>1. /\ TypeOK /\ WellNested /\ BackupsNested /\ LetsCounted /\ QuantsCounted
      /\ Enter("let", chained) /\ TermExpected /\ (chained => Reading("let", "body"))
      /\ lets' = lets /\ letBackup' = letBackup /\ quants' = quants /\ params' = params
      /\ quantDepth' = quantDepth /\ inQuant' = inQuant
      /\ checkpoints' = Append(checkpoints, Len(letBackup))
      /\ chained => letDepth' = letDepth /\ letMode' = letMode
      /\ ~chained => letDepth' = letDepth + 1
      /\ ~chained => letMode' = IF letDepth = 0 THEN "start"
                                ELSE IF letMode = "start" THEN "in" ELSE letMode
  BY DEF BindersInv, OpenLet, quantVars
<1>2. /\ open' \in Seq(Frame) /\ Len(open') = n + 1 /\ n \in Nat
      /\ \A i \in 1 .. n : open'[i] = open[i]
      /\ open'[n + 1] = Opened("let", chained)
      /\ LetFrames' = LetFrames \cup {n + 1}
      /\ Counted' = IF chained THEN Counted ELSE Counted \cup {n + 1}
      /\ QuantFrames' = QuantFrames /\ QuantFrames \in SUBSET (1 .. n)
  BY <1>1, EnterFacts, OpenFacts
<1>3. /\ letDepth \in Nat /\ letMode \in LetMode /\ letDepth' \in Nat /\ letMode' \in LetMode
      /\ letDepth' > 0 => letMode' # "non"
  BY <1>1 DEF TypeOK, LetMode, LetsCounted
<1>4. /\ checkpoints' \in Seq(0 .. Len(letBackup')) /\ Len(checkpoints') = Len(checkpoints) + 1
      /\ checkpoints' # << >> /\ Len(checkpoints) \in Nat
      /\ \A i \in 1 .. Len(checkpoints) : checkpoints'[i] = checkpoints[i]
      /\ checkpoints'[Len(checkpoints) + 1] = Len(letBackup)
  <2>1. Len(letBackup) \in 0 .. Len(letBackup)
    BY <1>1, LetsFacts
  <2>2. checkpoints \in Seq(0 .. Len(letBackup)) /\ Len(checkpoints) \in Nat
    BY <1>1, LetsFacts
  <2> QED BY <2>1, <2>2, <1>1, AppendProperties
<1>5. TypeOK'
  BY <1>1, <1>2, <1>3, <1>4 DEF TypeOK
<1>6. WellNested'
  BY <1>1, EnterStep
<1>7. BackupsNested'
  <2>1. /\ Len(letBackup) \in Nat
        /\ \A i \in 1 .. Len(checkpoints) : checkpoints[i] \in 0 .. Len(letBackup)
    BY <1>1, LetsFacts
  <2>2. \A i \in 1 .. Len(checkpoints') : \A j \in i .. Len(checkpoints') :
           checkpoints'[i] <= checkpoints'[j]
    BY <2>1, <1>1, <1>4 DEF BackupsNested
  <2>3. checkpoints'[1] = 0
    <3>1. CASE checkpoints = << >>
      BY <3>1, <1>1, <1>4 DEF BackupsNested
    <3>2. CASE checkpoints # << >>
      <4>1. 1 \in 1 .. Len(checkpoints)
        BY <3>2, <1>1, LetsFacts
      <4> QED BY <4>1, <3>2, <1>1, <1>4 DEF BackupsNested
    <3> QED BY <3>1, <3>2
  <2>4. LetsBefore(0)' = LetsBefore(0)
    BY <1>1 DEF LetsBefore
  <2> QED BY <2>2, <2>3, <2>4, <1>1, <1>4 DEF BackupsNested
<1>8. LetsCounted'
  <2>1. /\ Cardinality(LetFrames') = Cardinality(LetFrames) + 1
        /\ Cardinality(Counted') = Cardinality(Counted) + (IF chained THEN 0 ELSE 1)
        /\ Cardinality(LetFrames) \in Nat /\ Cardinality(Counted) \in Nat
    <3>1. LetFrames \in SUBSET (1 .. n) /\ Counted \in SUBSET (1 .. n)
      BY <1>1, OpenFacts
    <3>2. Cardinality(LetFrames \cup {n + 1}) = Cardinality(LetFrames) + 1
      BY <3>1, <1>2, CountLast
    <3>3. Cardinality(Counted \cup {n + 1}) = Cardinality(Counted) + 1
      BY <3>1, <1>2, CountLast
    <3> QED BY <3>2, <3>3, <1>1, <1>2, CountsAreNat
  <2> QED BY <2>1, <1>1, <1>3, <1>4 DEF LetsCounted
<1>9. QuantsCounted'
  <2>1. ASSUME NEW i \in QuantFrames, NEW j \in i .. n + 1,
               open'[j].kind = "match"
        PROVE  j \in i .. n /\ open'[j] = open[j]
    <3>1. j # n + 1
      BY <2>1, <1>2 DEF Opened
    <3> QED BY <2>1, <3>1, <1>2
  <2> QED BY <2>1, <1>1, <1>2 DEF QuantsCounted
<1> QED BY <1>5, <1>6, <1>7, <1>8, <1>9 DEF BindersInv

(* A binder's frame is written, and no let. *)
LEMMA QuietStep ==
    ASSUME BindersInv, NEW f, WritesTop(f),
           f.phase = "value" => f.kind = "let" /\ f.pending \in Name,
           f.kind = "match" /\ f.phase = "body" /\ QuantFrames # {} => f.saved,
           UNCHANGED letVars, quantDepth' = quantDepth,
           inQuant' \in BOOLEAN, inQuant => inQuant', quants' \in Table, params' \in Table
    PROVE  BindersInv'
<1>1. UNCHANGED <<checkpoints, letDepth, letMode>>
  BY DEF letVars
<1>2. open' \in Seq(Frame) /\ WellNested' /\ LetsCounted' /\ QuantsCounted'
  BY <1>1, TopStep
<1>3. TypeOK /\ BackupsNested
  BY DEF BindersInv
<1>4. TypeOK'
  BY <1>2, <1>3, LetsUntouched DEF TypeOK, Backup
<1> QED BY <1>2, <1>3, <1>4, LetsUntouched DEF BindersInv

(* A binder that is no let is opened. *)
LEMMA OpensStep ==
    ASSUME BindersInv, NEW kind \in {"quant", "match", "fun"}, TermExpected, Enter(kind, FALSE),
           UNCHANGED letVars, quants' = quants, params' = params,
           quantDepth' = IF kind = "quant" THEN quantDepth + 1 ELSE quantDepth,
           inQuant' = IF kind = "quant" THEN TRUE ELSE inQuant
    PROVE  BindersInv'
<1> DEFINE n == Len(open)
<1>1. /\ TypeOK /\ WellNested /\ BackupsNested /\ LetsCounted /\ QuantsCounted
      /\ kind \in {"let", "quant", "match", "fun"} /\ FALSE \in BOOLEAN
      /\ UNCHANGED <<checkpoints, letDepth, letMode>>
  BY DEF BindersInv, letVars
<1>2. /\ open' \in Seq(Frame) /\ Len(open') = n + 1 /\ n \in Nat
      /\ \A i \in 1 .. n : open'[i] = open[i]
      /\ open'[n + 1] = Opened(kind, FALSE)
      /\ LetFrames' = LetFrames /\ Counted' = Counted
      /\ QuantFrames' = IF kind = "quant" THEN QuantFrames \cup {n + 1} ELSE QuantFrames
      /\ QuantFrames \in SUBSET (1 .. n)
  BY <1>1, EnterFacts, OpenFacts
<1>3. WellNested'
  BY <1>1, EnterStep
<1>4. LetsCounted'
  BY <1>1, <1>2 DEF LetsCounted
<1>5. QuantsCounted'
  <2>1. Cardinality(QuantFrames \cup {n + 1}) = Cardinality(QuantFrames) + 1
    BY <1>2, CountLast
  <2>2. quantDepth \in Nat /\ Cardinality(QuantFrames) \in Nat
    BY <1>1, CountsAreNat DEF TypeOK
  <2>3. Cardinality(QuantFrames') <= quantDepth'
    BY <2>1, <2>2, <1>1, <1>2 DEF QuantsCounted
  <2>4. QuantFrames' # {} => inQuant'
    BY <1>1, <1>2 DEF QuantsCounted
  <2>5. ASSUME NEW i \in QuantFrames', NEW j \in i .. n + 1,
               open'[j].kind = "match", open'[j].phase = "body"
        PROVE  open'[j].saved
    <3>1. j # n + 1
      BY <2>5, <1>2 DEF Opened
    <3>2. j \in 1 .. n /\ i \in 1 .. n /\ i \in QuantFrames
      BY <3>1, <1>2
    <3> QED BY <2>5, <3>2, <1>1, <1>2 DEF QuantsCounted
  <2> QED BY <2>3, <2>4, <2>5, <1>2 DEF QuantsCounted
<1>6. TypeOK'
  <2>1. quantDepth \in Nat /\ inQuant \in BOOLEAN
    BY <1>1 DEF TypeOK
  <2>2. quantDepth' \in Nat
    BY <2>1
  <2>3. inQuant' \in BOOLEAN
    BY <2>1, Zenon
  <2> QED BY <2>2, <2>3, <1>1, <1>2, LetsUntouched DEF TypeOK, Backup
<1> QED BY <1>1, <1>3, <1>4, <1>5, <1>6, LetsUntouched DEF BindersInv

(* A binder that is no let is left, with the mode as the binders that stay   *)
(* need it.                                                                  *)
LEMMA LeavesStep ==
    ASSUME BindersInv, open # << >>, Top.kind # "let", Leave, UNCHANGED letVars,
           quants' \in Table, params' \in Table, inQuant' \in BOOLEAN,
           quantDepth' = IF Top.kind = "quant" THEN quantDepth - 1 ELSE quantDepth,
           QuantFrames \ {Len(open)} # {} => inQuant'
    PROVE  BindersInv'
<1> DEFINE n == Len(open)
<1>1. /\ TypeOK /\ WellNested /\ BackupsNested /\ LetsCounted /\ QuantsCounted
      /\ UNCHANGED <<checkpoints, letDepth, letMode>>
      /\ n \in Nat \ {0} /\ DOMAIN open = 1 .. n /\ Top = open[n]
      /\ QuantFrames \in SUBSET (1 .. n)
  BY OpenFacts DEF BindersInv, letVars
<1>2. /\ open' \in Seq(Frame) /\ Len(open') = n - 1
      /\ \A i \in 1 .. n - 1 : open'[i] = open[i]
      /\ LetFrames' = LetFrames \ {n} /\ Counted' = Counted \ {n}
      /\ QuantFrames' = QuantFrames \ {n}
  BY <1>1, LeaveFacts
<1>3. WellNested'
  BY <1>1, LeaveStep
<1>4. LetsCounted'
  <2>1. n \notin LetFrames /\ n \notin Counted
    BY <1>1 DEF LetFrames, Counted
  <2>2. LetFrames' = LetFrames /\ Counted' = Counted
    BY <2>1, <1>2
  <2> QED BY <2>2, <1>1 DEF LetsCounted
<1>5. /\ quantDepth \in Nat /\ quantDepth' \in Nat
      /\ Cardinality(QuantFrames') <= quantDepth'
  <2>1. Cardinality(QuantFrames') =
          IF n \in QuantFrames THEN Cardinality(QuantFrames) - 1 ELSE Cardinality(QuantFrames)
    <3>1. n \in Nat
      BY <1>1
    <3> QED BY ZenonT(40), <3>1, <1>1, <1>2, CountLast
  <2>2. n \in QuantFrames <=> Top.kind = "quant"
    BY <1>1 DEF QuantFrames
  <2>3. /\ quantDepth \in Nat /\ Cardinality(QuantFrames) \in Nat
        /\ Cardinality(QuantFrames) <= quantDepth
    BY <1>1, CountsAreNat DEF TypeOK, QuantsCounted
  <2>4. n \in QuantFrames => Cardinality(QuantFrames) # 0
    <3>1. IsFiniteSet(QuantFrames)
      BY <1>1, CountLast
    <3> QED BY <3>1, FS_EmptySet
  <2> QED BY <2>1, <2>2, <2>3, <2>4
<1>6. QuantsCounted'
  <2>1. ASSUME NEW i \in QuantFrames', NEW j \in i .. n - 1,
               open'[j].kind = "match", open'[j].phase = "body"
        PROVE  open'[j].saved
    <3>1. i \in QuantFrames
      BY <1>2
    <3>2. i \in 1 .. n
      BY <3>1, <1>1
    <3>3. j \in i .. n /\ j \in 1 .. n - 1
      BY <3>2, <1>1
    <3> QED BY <2>1, <3>1, <3>3, <1>1, <1>2 DEF QuantsCounted
  <2> QED BY <2>1, <1>2, <1>5 DEF QuantsCounted
<1>7. TypeOK'
  BY <1>1, <1>2, <1>5, LetsUntouched DEF TypeOK, Backup
<1> QED BY <1>1, <1>3, <1>4, <1>6, <1>7, LetsUntouched DEF BindersInv

LEMMA LetNameStep ==
    ASSUME BindersInv, NEW x \in Name, LetName(x)
    PROVE  BindersInv'
<1> DEFINE f == [Top EXCEPT !.phase = "value", !.pending = x]
<1>1. /\ TypeOK /\ open # << >> /\ UNCHANGED letVars
      /\ UNCHANGED <<quants, quantDepth, inQuant, params>>
      /\ Top \in Frame /\ Top.kind = "let"
  BY OpenFacts DEF BindersInv, LetName, Reading, quantVars
<1>2. WritesTop(f) /\ f.phase = "value" /\ f.kind = "let" /\ f.pending = x
  <2>1. /\ f \in Frame /\ f.kind = Top.kind /\ f.chained = Top.chained
        /\ f.phase = "value" /\ f.kind = "let" /\ f.pending = x
    BY <1>1 DEF Frame
  <2>2. open' = [open EXCEPT ![Len(open)] = f]
    BY <1>1 DEF TypeOK, LetName, Top
  <2> QED BY <2>1, <2>2, <1>1 DEF WritesTop
<1> HIDE DEF f
<1>3. quants' \in Table /\ params' \in Table /\ inQuant' \in BOOLEAN
  BY <1>1 DEF TypeOK
<1> QED BY <1>1, <1>2, <1>3, QuietStep

(* The phase of the innermost binder becomes its body. *)
LEMMA ReadBodyWrites ==
    ASSUME TypeOK, open # << >>, ReadBody
    PROVE  LET f == [Top EXCEPT !.phase = "body"] IN
           WritesTop(f) /\ f.phase = "body" /\ f.kind = Top.kind
<1> DEFINE f == [Top EXCEPT !.phase = "body"]
<1>1. Top \in Frame
  BY OpenFacts
<1>2. /\ f \in Frame /\ f.kind = Top.kind /\ f.chained = Top.chained /\ f.phase = "body"
  BY <1>1 DEF Frame
<1>3. open' = [open EXCEPT ![Len(open)] = f]
  BY DEF TypeOK, ReadBody, Top
<1> QED BY <1>2, <1>3 DEF WritesTop

LEMMA BodyOpensStep ==
    ASSUME BindersInv, LetBody \/ QuantBody \/ FunBody
    PROVE  BindersInv'
<1> DEFINE f == [Top EXCEPT !.phase = "body"]
<1>1. /\ TypeOK /\ open # << >> /\ UNCHANGED letVars /\ ReadBody /\ Top.kind # "match"
      /\ UNCHANGED <<quants, quantDepth, inQuant, params>>
  BY DEF BindersInv, LetBody, QuantBody, FunBody, Reading, quantVars
<1>2. WritesTop(f) /\ f.phase = "body" /\ f.kind = Top.kind
  BY <1>1, ReadBodyWrites
<1> HIDE DEF f
<1>3. quants' \in Table /\ params' \in Table /\ inQuant' \in BOOLEAN
  BY <1>1 DEF TypeOK
<1> QED BY <1>1, <1>2, <1>3, QuietStep

LEMMA BindLetStep == BindersInv /\ BindLet => BindersInv'
<1> SUFFICES ASSUME BindersInv, BindLet PROVE BindersInv'
  OBVIOUS
<1> DEFINE x == Top.pending
           node == LetNode(Len(open))
           f == [Top EXCEPT !.phase = "list", !.pending = Absent, !.binds = [Top.binds EXCEPT ![x] = node]]
<1>1. /\ TypeOK /\ BackupsNested /\ open # << >> /\ Reading("let", "value")
      /\ Len(open) \in Nat \ {0} /\ DOMAIN open = 1 .. Len(open)
      /\ Top \in Frame /\ Top = open[Len(open)] /\ Top.kind = "let" /\ Top.phase = "value"
      /\ Len(open) <= MaxOpen /\ Len(open) \in LetFrames
  BY OpenFacts DEF BindersInv, BindLet, Reading, WellNested, LetFrames
<1>2. x \in Name
  BY <1>1 DEF BindersInv, WellNested
<1>3. node \in BoundNode
  BY <1>1, BoundAssumption DEF LetNode, BoundNode
<1>4. /\ RegisterLet(x, node)
      /\ UNCHANGED <<letDepth, letMode, quants, quantDepth, inQuant, params>>
  BY DEF BindLet, RegisterLet, quantVars
<1>5. checkpoints # << >>
  <2>1. Cardinality(LetFrames) # 0 /\ Cardinality(LetFrames) \in Nat
    <3>1. IsFiniteSet(LetFrames)
      BY <1>1, OpenFacts, CountLast
    <3> QED BY <3>1, <1>1, FS_EmptySet, CountsAreNat
  <2> QED BY <2>1, <1>1, LetsFacts DEF BindersInv, LetsCounted
<1>6. WritesTop(f) /\ f.phase = "list" /\ f.kind = "let"
  <2>1. /\ f \in Frame /\ f.kind = Top.kind /\ f.chained = Top.chained
        /\ f.phase = "list" /\ f.kind = "let"
    BY <1>1, <1>2, <1>3 DEF Frame, Table
  <2>2. open' = [open EXCEPT ![Len(open)] = f]
    BY <1>1 DEF TypeOK, BindLet, Top
  <2> QED BY <2>1, <2>2, <1>1 DEF WritesTop
<1> HIDE DEF f, x, node
<1>7. /\ lets' \in Table /\ letBackup' \in Seq(Backup)
      /\ checkpoints' \in Seq(0 .. Len(letBackup')) /\ BackupsNested'
  BY <1>1, <1>2, <1>3, <1>4, <1>5, BindFacts
<1>8. checkpoints' = checkpoints
  BY <1>4 DEF RegisterLet
<1>9. open' \in Seq(Frame) /\ WellNested' /\ LetsCounted' /\ QuantsCounted'
  BY <1>4, <1>6, <1>8, TopStep
<1>10. TypeOK'
  BY <1>1, <1>4, <1>7, <1>9 DEF TypeOK, Backup
<1> QED BY <1>7, <1>9, <1>10 DEF BindersInv

LEMMA CloseLetStep == BindersInv /\ CloseLet => BindersInv'
<1> SUFFICES ASSUME BindersInv, CloseLet PROVE BindersInv'
  OBVIOUS
<1> DEFINE n == Len(open)
           p == Len(checkpoints)
<1>1. /\ TypeOK /\ WellNested /\ BackupsNested /\ LetsCounted /\ QuantsCounted
      /\ open # << >> /\ n \in Nat /\ n \in Nat \ {0} /\ Top = open[n] /\ n \in LetFrames
      /\ PopLetScopes(1) /\ Leave
      /\ UNCHANGED <<quants, quantDepth, inQuant, params>>
      /\ Top.chained => letDepth' = letDepth /\ letMode' = letMode
      /\ ~Top.chained => /\ letDepth' = letDepth - 1
                         /\ letMode' = IF letDepth = 1 THEN "non" ELSE letMode
  BY OpenFacts DEF BindersInv, CloseLet, Reading, quantVars, LetFrames
<1>2. /\ LetFrames \in SUBSET (1 .. n) /\ Counted \in SUBSET (1 .. n)
      /\ QuantFrames \in SUBSET (1 .. n)
      /\ n \in Counted <=> ~Top.chained
      /\ n \notin QuantFrames
  BY <1>1, OpenFacts DEF Counted, LetFrames, QuantFrames
<1>3. /\ open' \in Seq(Frame) /\ Len(open') = n - 1
      /\ \A i \in 1 .. n - 1 : open'[i] = open[i]
      /\ LetFrames' = LetFrames \ {n} /\ Counted' = Counted \ {n}
      /\ QuantFrames' = QuantFrames
  BY <1>1, <1>2, LeaveFacts
<1>4. /\ Cardinality(LetFrames') = Cardinality(LetFrames) - 1
      /\ Cardinality(Counted') = IF Top.chained THEN Cardinality(Counted) ELSE Cardinality(Counted) - 1
      /\ Cardinality(LetFrames) \in Nat /\ Cardinality(Counted) \in Nat
      /\ Cardinality(LetFrames) > 0 /\ (~Top.chained => Cardinality(Counted) > 0)
  <2>1. Cardinality(LetFrames \ {n}) = Cardinality(LetFrames) - 1
    BY <1>1, <1>2, CountLast
  <2>2. Cardinality(Counted \ {n}) =
          IF n \in Counted THEN Cardinality(Counted) - 1 ELSE Cardinality(Counted)
    BY <1>1, <1>2, CountLast
  <2>3. IsFiniteSet(LetFrames) /\ IsFiniteSet(Counted)
    BY <1>1, <1>2, CountLast
  <2>4. Cardinality(LetFrames) # 0 /\ (~Top.chained => Cardinality(Counted) # 0)
    BY <2>3, <1>1, <1>2, FS_EmptySet
  <2> QED BY <2>1, <2>2, <2>4, <1>1, <1>2, <1>3, CountsAreNat
<1>5. 1 \in 1 .. p /\ p \in Nat
  BY <1>1, <1>4, LetsFacts DEF LetsCounted
<1>6. /\ lets' \in Table /\ letBackup' \in Seq(Backup)
      /\ checkpoints' \in Seq(0 .. Len(letBackup')) /\ Len(checkpoints') = p - 1
      /\ BackupsNested'
  BY <1>1, <1>5, PopFacts
<1>7. /\ letDepth \in Nat /\ letDepth' \in Nat /\ letMode' \in LetMode
      /\ letDepth' > 0 => letMode' # "non"
  BY <1>1, <1>4 DEF TypeOK, LetsCounted, LetMode
<1>8. LetsCounted'
  BY SMTT(20), <1>1, <1>4, <1>5, <1>6, <1>7 DEF LetsCounted
<1>9. WellNested'
  BY <1>1, LeaveStep
<1>10. QuantsCounted'
  <2>1. ASSUME NEW i \in QuantFrames, NEW j \in i .. n - 1
        PROVE  j \in i .. n /\ open'[j] = open[j]
    BY <1>1, <1>2, <1>3
  <2> QED BY <2>1, <1>1, <1>3 DEF QuantsCounted
<1>11. TypeOK'
  BY <1>1, <1>3, <1>6, <1>7 DEF TypeOK, Backup
<1> QED BY <1>6, <1>8, <1>9, <1>10, <1>11 DEF BindersInv

(* A nonempty set of indexes has a greatest element, and Max is it. *)
LEMMA MaxIndex ==
    ASSUME NEW n \in Nat, NEW S \in SUBSET (1 .. n), S # {}
    PROVE  Max(S) \in S /\ \A j \in S : j <= Max(S)
<1> DEFINE R == {n - i : i \in S}
<1>1. R \in SUBSET Nat /\ R # {}
  <2>1. \A i \in S : n - i \in Nat
    OBVIOUS
  <2>2. R \in SUBSET Nat
    BY <2>1
  <2>3. PICK i \in S : TRUE
    OBVIOUS
  <2>4. n - i \in R
    BY <2>3
  <2> QED BY <2>2, <2>4
<1>2. PICK r \in R : \A q \in R : r <= q
  <2> HIDE DEF R
  <2> QED BY <1>1, MinNat
<1>3. PICK i \in S : r = n - i
  BY <1>2
<1>4. \A j \in S : i >= j
  <2> TAKE j \in S
  <2>1. n - j \in R
    OBVIOUS
  <2>2. n - i <= n - j
    BY <2>1, <1>2, <1>3
  <2>3. i \in Nat /\ j \in Nat
    OBVIOUS
  <2> QED BY <2>2, <2>3
<1>5. Max(S) \in S /\ \A j \in S : Max(S) >= j
  BY <1>4 DEF Max
<1> QED BY <1>5

(* There is a scope for each of the lets that the error exit leaves. *)
LEMMA ChainHasScopes ==
    ASSUME BindersInv, open # << >>, Top.kind = "let"
    PROVE  ChainLength \in 1 .. Len(checkpoints) /\ Counted # {}
<1> DEFINE n == Len(open)
           S == {i \in DOMAIN open : ~open[i].chained}
           m == Max(S)
<1>1. /\ TypeOK /\ WellNested /\ LetsCounted
      /\ n \in Nat \ {0} /\ n \in Nat /\ DOMAIN open = 1 .. n /\ Top = open[n] /\ n \in LetFrames
      /\ LetFrames \in SUBSET (1 .. n) /\ S \in SUBSET (1 .. n)
      /\ Len(checkpoints) \in Nat
  BY OpenFacts, LetsFacts DEF BindersInv, LetFrames
<1>2. PICK j \in Counted : j <= n /\ \A k \in j .. n : k \in LetFrames
  BY <1>1, OutermostLetCounted
<1>3. j \in S /\ j \in 1 .. n
  BY <1>1, <1>2 DEF Counted
<1>4. m \in S /\ j <= m
  <2> HIDE DEF S
  <2> QED BY <1>1, <1>3, MaxIndex
<1>5. ChainLength = n + 1 - m
  BY DEF ChainLength
<1> HIDE DEF m, S
<1>6. m \in 1 .. n /\ m .. n \subseteq LetFrames
  BY <1>1, <1>2, <1>3, <1>4
<1>7. Cardinality(m .. n) = n + 1 - m
  BY <1>1, <1>6, FS_Interval
<1>8. Cardinality(m .. n) <= Cardinality(LetFrames)
  BY <1>1, <1>6, CountLast, FS_Subset
<1>9. n + 1 - m <= Len(checkpoints)
  BY <1>1, <1>6, <1>7, <1>8, CountsAreNat DEF LetsCounted
<1> QED BY <1>1, <1>2, <1>5, <1>6, <1>9

(* Whatever failed, no let and no quantifier is being read after it. *)
LEMMA UnwoundInv ==
    ASSUME BindersInv, open' = << >>, BackupsNested', Len(checkpoints') \in Nat,
           letDepth = 0 => Len(checkpoints') = 0,
           UNCHANGED <<letDepth, letMode, quantDepth, inQuant>>
    PROVE  open' \in Seq(Frame) /\ WellNested' /\ LetsCounted' /\ QuantsCounted'
<1>1. /\ Len(open') = 0 /\ LetFrames' = {} /\ Counted' = {} /\ QuantFrames' = {}
      /\ open' \in Seq(Frame)
  BY UnwoundFacts
<1>2. letDepth \in Nat /\ quantDepth \in Nat /\ Cardinality({}) = 0
  BY FS_EmptySet DEF BindersInv, TypeOK
<1>3. LetsCounted'
  BY <1>1, <1>2 DEF LetsCounted, BindersInv
<1>4. QuantsCounted'
  BY <1>1, <1>2 DEF QuantsCounted
<1>5. WellNested'
  BY <1>1, BoundAssumption DEF WellNested
<1> QED BY <1>1, <1>3, <1>4, <1>5

LEMMA FailLetStep == BindersInv /\ FailLet => BindersInv'
<1> SUFFICES ASSUME BindersInv, FailLet PROVE BindersInv'
  OBVIOUS
<1>1. /\ TypeOK /\ BackupsNested /\ LetsCounted
      /\ open # << >> /\ Top.kind = "let" /\ PopLetScopes(ChainLength) /\ open' = << >>
      /\ UNCHANGED <<letDepth, letMode, quants, quantDepth, inQuant, params>>
  BY DEF BindersInv, FailLet, Reading, quantVars
<1>2. ChainLength \in 1 .. Len(checkpoints) /\ Counted # {}
  BY <1>1, ChainHasScopes
<1>3. /\ lets' \in Table /\ letBackup' \in Seq(Backup)
      /\ checkpoints' \in Seq(0 .. Len(letBackup')) /\ BackupsNested'
  BY <1>1, <1>2, PopFacts
<1>4. letDepth # 0
  <2>1. IsFiniteSet(Counted) /\ Cardinality(Counted) \in Nat
    BY <1>1, OpenFacts, CountLast
  <2>2. Cardinality(Counted) # 0
    BY <2>1, <1>2, FS_EmptySet
  <2> QED BY <2>1, <2>2, <1>1 DEF LetsCounted
<1>5. Len(checkpoints') \in Nat
  BY <1>3
<1>6. open' \in Seq(Frame) /\ WellNested' /\ LetsCounted' /\ QuantsCounted'
  BY <1>1, <1>3, <1>4, <1>5, UnwoundInv
<1>7. TypeOK'
  BY <1>1, <1>3, <1>6 DEF TypeOK, Backup
<1> QED BY <1>3, <1>6, <1>7 DEF BindersInv

(* Nothing is left in the tables of the lets when none is counted. *)
LEMMA UncountedEmpty ==
    ASSUME BindersInv, letDepth = 0
    PROVE  LetFrames = {} /\ checkpoints = << >> /\ letBackup = << >> /\ lets = Nothing
<1>1. /\ TypeOK /\ WellNested /\ BackupsNested /\ LetsCounted
      /\ Counted \in SUBSET (1 .. Len(open)) /\ Len(open) \in Nat
  BY OpenFacts DEF BindersInv
<1>2. IsFiniteSet(Counted) /\ Cardinality(Counted) \in Nat
  BY <1>1, CountLast
<1>3. Cardinality(Counted) = 0 /\ Counted = {}
  <2>1. Cardinality(Counted) = 0
    BY <1>1, <1>2 DEF LetsCounted
  <2> QED BY <2>1, <1>2, FS_EmptySet
<1>4. LetFrames = {}
  BY <1>1, <1>3, OutermostLetCounted
<1>5. Len(checkpoints) = 0 /\ checkpoints = << >>
  <2>1. Len(checkpoints) = 0
    BY <1>1, <1>3, <1>4, FS_EmptySet DEF LetsCounted
  <2> QED BY <2>1, <1>1, LetsFacts
<1>6. letBackup = << >>
  BY <1>1, <1>5 DEF BackupsNested
<1>7. lets = Nothing
  <2>1. Len(letBackup) = 0 /\ letBackup \in Seq(Backup) /\ lets \in Table
    BY <1>1, <1>6, LetsFacts
  <2>2. Before(lets, letBackup, 0) = lets
    BY <2>1, BeforeNow
  <2> QED BY <2>2, <1>1, LetsFacts DEF BackupsNested
<1> QED BY <1>4, <1>5, <1>6, <1>7

LEMMA FailStep == BindersInv /\ Fail => BindersInv'
<1> SUFFICES ASSUME BindersInv, Fail PROVE BindersInv'
  OBVIOUS
<1>1. /\ TypeOK /\ BackupsNested /\ open' = << >> /\ UNCHANGED letVars
      /\ UNCHANGED <<letDepth, letMode, checkpoints, quants, quantDepth, inQuant, params>>
  BY DEF BindersInv, Fail, letVars, quantVars
<1>2. BackupsNested' /\ Len(checkpoints') \in Nat
  BY <1>1, LetsUntouched, LetsFacts
<1>3. letDepth = 0 => Len(checkpoints') = 0
  BY <1>1, UncountedEmpty
<1>4. open' \in Seq(Frame) /\ WellNested' /\ LetsCounted' /\ QuantsCounted'
  BY <1>1, <1>2, <1>3, UnwoundInv
<1>5. TypeOK'
  BY <1>1, <1>4, LetsUntouched DEF TypeOK, Backup
<1> QED BY <1>2, <1>4, <1>5 DEF BindersInv

LEMMA ResetStep == BindersInv /\ Reset => BindersInv'
<1> SUFFICES ASSUME BindersInv, Reset PROVE BindersInv'
  OBVIOUS
<1>1. /\ TypeOK /\ open' = << >>
      /\ lets' = Nothing /\ letBackup' = << >> /\ checkpoints' = << >>
      /\ quants' = Nothing /\ params' = Nothing
      /\ UNCHANGED <<letDepth, letMode, quantDepth, inQuant>>
  BY DEF BindersInv, Reset
<1>2. /\ Nothing \in Table /\ << >> \in Seq(Backup) /\ Len(<< >>) = 0
      /\ << >> \in Seq(0 .. Len(letBackup'))
  BY EmptySeq DEF Table, Nothing
<1>3. BackupsNested'
  <2>1. Before(Nothing, << >>, 0) = Nothing
    BY <1>2, BeforeNow
  <2>2. LetsBefore(0)' = Before(lets', letBackup', 0)
    BY DEF LetsBefore, Before
  <2>3. LetsBefore(0)' = Nothing
    BY <2>1, <2>2, <1>1
  <2> QED BY <2>3, <1>1, <1>2 DEF BackupsNested
<1>4. open' \in Seq(Frame) /\ WellNested' /\ LetsCounted' /\ QuantsCounted'
  BY <1>1, <1>2, <1>3, UnwoundInv
<1>5. TypeOK'
  BY <1>1, <1>2, <1>4 DEF TypeOK, Backup
<1> QED BY <1>3, <1>4, <1>5 DEF BindersInv

LEMMA TableBinds ==
    ASSUME NEW t \in Table, NEW x \in Name, NEW v \in BoundNode \cup {Absent}
    PROVE  [t EXCEPT ![x] = v] \in Table
BY DEF Table

LEMMA BoundNodes ==
    ASSUME NEW x \in Name, NEW s \in Sort
    PROVE  QuantNode(x, s) \in BoundNode /\ ParamNode(x, s) \in BoundNode
BY DEF QuantNode, ParamNode, BoundNode

LEMMA OpenQuantStep == BindersInv /\ OpenQuant => BindersInv'
<1> SUFFICES ASSUME BindersInv, OpenQuant PROVE BindersInv'
  OBVIOUS
<1>1. /\ TermExpected /\ Enter("quant", FALSE) /\ UNCHANGED letVars
      /\ quants' = quants /\ params' = params /\ quantDepth' = quantDepth + 1 /\ inQuant' = TRUE
  BY DEF OpenQuant
<1> QED BY <1>1, OpensStep

LEMMA OpenCaseStep == BindersInv /\ OpenCase => BindersInv'
<1> SUFFICES ASSUME BindersInv, OpenCase PROVE BindersInv'
  OBVIOUS
<1>1. /\ TermExpected /\ Enter("match", FALSE) /\ UNCHANGED letVars
      /\ quants' = quants /\ params' = params /\ quantDepth' = quantDepth /\ inQuant' = inQuant
  BY DEF OpenCase, quantVars
<1> QED BY <1>1, OpensStep

LEMMA OpenFunStep == BindersInv /\ OpenFun => BindersInv'
<1> SUFFICES ASSUME BindersInv, OpenFun PROVE BindersInv'
  OBVIOUS
<1>1. /\ TermExpected /\ Enter("fun", FALSE) /\ UNCHANGED letVars
      /\ quants' = quants /\ params' = params /\ quantDepth' = quantDepth /\ inQuant' = inQuant
  BY DEF OpenFun, quantVars, TermExpected
<1> QED BY <1>1, OpensStep

LEMMA BindQuantStep ==
    ASSUME BindersInv, NEW x \in Name, NEW s \in Sort, BindQuant(x, s)
    PROVE  BindersInv'
<1> DEFINE node == QuantNode(x, s)
           shadow == IF Top.shadowed[x] = Absent /\ quants[x] # node THEN quants[x] ELSE Top.shadowed[x]
           f == [Top EXCEPT !.binds = [Top.binds EXCEPT ![x] = node],
                            !.shadowed = [Top.shadowed EXCEPT ![x] = shadow]]
<1>1. /\ TypeOK /\ open # << >> /\ UNCHANGED letVars
      /\ quantDepth' = quantDepth /\ inQuant' = inQuant /\ params' = params
      /\ quants' = [quants EXCEPT ![x] = node]
      /\ Top \in Frame /\ Top.kind = "quant" /\ Top.phase = "list"
  BY OpenFacts DEF BindersInv, BindQuant, Reading
<1>2. node \in BoundNode /\ quants \in Table /\ Top.binds \in Table /\ Top.shadowed \in Table
  BY <1>1, BoundNodes DEF TypeOK, Frame
<1>3. shadow \in BoundNode \cup {Absent}
  BY <1>2 DEF Table
<1>4. WritesTop(f) /\ f.phase = "list" /\ f.kind = "quant"
  <2>1. /\ [Top.binds EXCEPT ![x] = node] \in Table
        /\ [Top.shadowed EXCEPT ![x] = shadow] \in Table
    BY <1>2, <1>3, TableBinds
  <2>2. /\ f \in Frame /\ f.kind = Top.kind /\ f.chained = Top.chained
        /\ f.phase = "list" /\ f.kind = "quant"
    BY <2>1, <1>1 DEF Frame
  <2>3. open' = [open EXCEPT ![Len(open)] = f]
    BY ZenonT(40), <1>1 DEF TypeOK, BindQuant, Top
  <2> QED BY <2>2, <2>3, <1>1 DEF WritesTop
<1> HIDE DEF f, node
<1>5. quants' \in Table /\ params' \in Table /\ inQuant' \in BOOLEAN
  BY <1>1, <1>2, TableBinds DEF TypeOK
<1> QED BY <1>1, <1>4, <1>5, QuietStep

LEMMA BindPatternStep ==
    ASSUME BindersInv, NEW x \in Name, NEW s \in Sort, BindPattern(x, s)
    PROVE  BindersInv'
<1> DEFINE node == QuantNode(x, s)
           f == [Top EXCEPT !.binds = [Top.binds EXCEPT ![x] = node]]
<1>1. /\ TypeOK /\ open # << >> /\ UNCHANGED letVars
      /\ quantDepth' = quantDepth /\ inQuant' = inQuant /\ params' = params
      /\ quants' = [quants EXCEPT ![x] = node]
      /\ Top \in Frame /\ Top.kind = "match" /\ Top.phase = "list"
  BY OpenFacts DEF BindersInv, BindPattern, Reading
<1>2. node \in BoundNode /\ quants \in Table /\ Top.binds \in Table
  BY <1>1, BoundNodes DEF TypeOK, Frame
<1>3. WritesTop(f) /\ f.phase = "list" /\ f.kind = "match"
  <2>1. [Top.binds EXCEPT ![x] = node] \in Table
    BY <1>2, TableBinds
  <2>2. /\ f \in Frame /\ f.kind = Top.kind /\ f.chained = Top.chained
        /\ f.phase = "list" /\ f.kind = "match"
    BY <2>1, <1>1 DEF Frame
  <2>3. open' = [open EXCEPT ![Len(open)] = f]
    BY <1>1 DEF TypeOK, BindPattern, Binds, Top
  <2> QED BY <2>2, <2>3, <1>1 DEF WritesTop
<1> HIDE DEF f, node
<1>4. quants' \in Table /\ params' \in Table /\ inQuant' \in BOOLEAN
  BY <1>1, <1>2, TableBinds DEF TypeOK
<1> QED BY <1>1, <1>3, <1>4, QuietStep

LEMMA BindParamStep ==
    ASSUME BindersInv, NEW x \in Name, NEW s \in Sort, NEW group \in BOOLEAN,
           BindParam(x, s, group)
    PROVE  BindersInv'
<1> DEFINE node == ParamNode(x, s)
           f == [Top EXCEPT !.binds = [Top.binds EXCEPT ![x] = node]]
<1>1. /\ TypeOK /\ open # << >> /\ UNCHANGED letVars
      /\ quantDepth' = quantDepth /\ inQuant' = inQuant /\ quants' = quants
      /\ params' = [params EXCEPT ![x] = node]
      /\ Top \in Frame /\ Top.kind = "fun" /\ Top.phase = "list"
  BY OpenFacts DEF BindersInv, BindParam, Reading, quantVars
<1>2. node \in BoundNode /\ params \in Table /\ Top.binds \in Table
  BY <1>1, BoundNodes DEF TypeOK, Frame
<1>3. WritesTop(f) /\ f.phase = "list" /\ f.kind = "fun"
  <2>1. [Top.binds EXCEPT ![x] = node] \in Table
    BY <1>2, TableBinds
  <2>2. /\ f \in Frame /\ f.kind = Top.kind /\ f.chained = Top.chained
        /\ f.phase = "list" /\ f.kind = "fun"
    BY <2>1, <1>1 DEF Frame
  <2>3. open' = [open EXCEPT ![Len(open)] = f]
    BY <1>1 DEF TypeOK, BindParam, Binds, Top
  <2> QED BY <2>2, <2>3, <1>1 DEF WritesTop
<1> HIDE DEF f, node
<1>4. quants' \in Table /\ params' \in Table /\ inQuant' \in BOOLEAN
  BY <1>1, <1>2, TableBinds DEF TypeOK
<1> QED BY <1>1, <1>3, <1>4, QuietStep

LEMMA CaseBodyStep == BindersInv /\ CaseBody => BindersInv'
<1> SUFFICES ASSUME BindersInv, CaseBody PROVE BindersInv'
  OBVIOUS
<1> DEFINE f == [Top EXCEPT !.phase = "body", !.saved = inQuant]
<1>1. /\ TypeOK /\ open # << >> /\ UNCHANGED letVars
      /\ quantDepth' = quantDepth /\ inQuant' = TRUE /\ quants' = quants /\ params' = params
      /\ Top \in Frame /\ Top.kind = "match" /\ inQuant \in BOOLEAN
  BY OpenFacts DEF BindersInv, CaseBody, Reading, TypeOK
<1>2. WritesTop(f) /\ f.phase = "body" /\ f.saved = inQuant
  <2>1. /\ f \in Frame /\ f.kind = Top.kind /\ f.chained = Top.chained
        /\ f.phase = "body" /\ f.saved = inQuant
    BY <1>1 DEF Frame
  <2>2. open' = [open EXCEPT ![Len(open)] = f]
    BY <1>1 DEF TypeOK, CaseBody, Top
  <2> QED BY <2>1, <2>2, <1>1 DEF WritesTop
<1>3. QuantFrames # {} => inQuant
  BY DEF BindersInv, QuantsCounted
<1> HIDE DEF f
<1>4. quants' \in Table /\ params' \in Table /\ inQuant' \in BOOLEAN
  BY <1>1 DEF TypeOK
<1> QED BY <1>1, <1>2, <1>3, <1>4, QuietStep

LEMMA CloseQuantStep == BindersInv /\ CloseQuant => BindersInv'
<1> SUFFICES ASSUME BindersInv, CloseQuant PROVE BindersInv'
  OBVIOUS
<1> DEFINE n == Len(open)
<1>1. /\ TypeOK /\ QuantsCounted /\ open # << >> /\ UNCHANGED letVars /\ Leave
      /\ quantDepth' = quantDepth - 1 /\ params' = params
      /\ quants' = [x \in Name |-> IF x \in NamesOf(Top) THEN Top.shadowed[x] ELSE quants[x]]
      /\ inQuant' = IF quantDepth = 1 THEN FALSE ELSE inQuant
      /\ Top \in Frame /\ Top.kind = "quant"
      /\ n \in Nat /\ n \in QuantFrames /\ QuantFrames \in SUBSET (1 .. n)
      /\ quantDepth \in Nat /\ inQuant \in BOOLEAN /\ quants \in Table
  BY OpenFacts DEF BindersInv, CloseQuant, LeavesQuantifiers, Reading, TypeOK, QuantFrames
<1>2. quants' \in Table /\ params' \in Table
  BY <1>1 DEF TypeOK, Frame, Table
<1>3. inQuant' \in BOOLEAN
  BY <1>1, Zenon
<1>4. QuantFrames \ {n} # {} => inQuant'
  <2> SUFFICES ASSUME QuantFrames \ {n} # {} PROVE inQuant'
    OBVIOUS
  <2>1. /\ IsFiniteSet(QuantFrames)
        /\ Cardinality(QuantFrames \ {n}) = Cardinality(QuantFrames) - 1
    BY <1>1, CountLast
  <2>2. IsFiniteSet(QuantFrames \ {n})
    BY <2>1, FS_RemoveElement
  <2>3. Cardinality(QuantFrames \ {n}) # 0
    BY <2>2, FS_EmptySet
  <2>4. quantDepth # 1
    <3>1. Cardinality(QuantFrames) # 0
      BY <2>1, <1>1, FS_EmptySet
    <3>2. Cardinality(QuantFrames) \in Nat /\ Cardinality(QuantFrames) <= quantDepth
      BY <1>1, CountsAreNat DEF QuantsCounted
    <3> QED BY <3>1, <3>2, <2>1, <2>3, <1>1
  <2> QED BY <2>4, <1>1 DEF QuantsCounted
<1> QED BY <1>1, <1>2, <1>3, <1>4, LeavesStep

LEMMA CloseCaseStep == BindersInv /\ CloseCase => BindersInv'
<1> SUFFICES ASSUME BindersInv, CloseCase PROVE BindersInv'
  OBVIOUS
<1> DEFINE n == Len(open)
<1>1. /\ TypeOK /\ QuantsCounted /\ open # << >> /\ UNCHANGED letVars /\ Leave
      /\ quantDepth' = quantDepth /\ params' = params
      /\ quants' = [x \in Name |-> IF x \in NamesOf(Top) THEN Absent ELSE quants[x]]
      /\ inQuant' = Top.saved
      /\ Top \in Frame /\ Top.kind = "match" /\ Top.phase = "body" /\ Top = open[n]
      /\ n \in Nat /\ QuantFrames \in SUBSET (1 .. n)
  BY OpenFacts DEF BindersInv, CloseCase, Reading
<1>2. quants' \in Table /\ params' \in Table /\ inQuant' \in BOOLEAN
  BY <1>1 DEF TypeOK, Frame, Table
<1>3. ASSUME NEW i \in QuantFrames PROVE inQuant'
  <2>1. n \in i .. n
    BY <1>1
  <2> QED BY <2>1, <1>1 DEF QuantsCounted
<1> QED BY <1>1, <1>2, <1>3, LeavesStep

LEMMA CloseFunStep == BindersInv /\ CloseFun => BindersInv'
<1> SUFFICES ASSUME BindersInv, CloseFun PROVE BindersInv'
  OBVIOUS
<1>1. /\ TypeOK /\ QuantsCounted /\ open # << >> /\ UNCHANGED letVars /\ Leave
      /\ quantDepth' = quantDepth /\ quants' = quants /\ inQuant' = inQuant
      /\ params' = [x \in Name |-> IF x \in NamesOf(Top) THEN Absent ELSE params[x]]
      /\ Top.kind = "fun"
  BY DEF BindersInv, CloseFun, Reading, quantVars
<1>2. quants' \in Table /\ params' \in Table /\ inQuant' \in BOOLEAN
  BY <1>1 DEF TypeOK, Table
<1>3. QuantFrames # {} => inQuant'
  BY <1>1 DEF QuantsCounted
<1> QED BY <1>1, <1>2, <1>3, LeavesStep

LEMMA StutterStep == BindersInv /\ UNCHANGED binderVars => BindersInv'
<1> SUFFICES ASSUME BindersInv, UNCHANGED binderVars PROVE BindersInv'
  OBVIOUS
<1>1. UNCHANGED <<lets, letBackup, checkpoints, letDepth, letMode, quants, quantDepth,
                  inQuant, params, open>>
  BY DEF binderVars, letVars, quantVars
<1>2. TypeOK' /\ WellNested' /\ BackupsNested'
  BY <1>1 DEF BindersInv, TypeOK, WellNested, BackupsNested, LetsBefore
<1>3. LetsCounted' /\ QuantsCounted'
  BY <1>1 DEF BindersInv, LetsCounted, QuantsCounted, Counted, LetFrames, QuantFrames
<1> QED BY <1>2, <1>3 DEF BindersInv

LEMMA NextInv == BindersInv /\ [Next]_binderVars => BindersInv'
<1> SUFFICES ASSUME BindersInv, [Next]_binderVars PROVE BindersInv'
  OBVIOUS
<1>1. CASE Lets
  <2>1. ASSUME NEW chained \in BOOLEAN, OpenLet(chained) PROVE BindersInv'
    BY <2>1, OpenLetStep
  <2>2. ASSUME NEW x \in Name, LetName(x) PROVE BindersInv'
    BY <2>2, LetNameStep
  <2> QED BY <1>1, <2>1, <2>2, BindLetStep, BodyOpensStep, CloseLetStep DEF Lets
<1>2. CASE FailLet \/ Fail
  BY <1>2, FailLetStep, FailStep
<1>3. CASE OpenQuant
  BY <1>3, OpenQuantStep
<1>4. CASE \E x \in Name, s \in Sort : BindQuant(x, s) \/ BindPattern(x, s)
  BY <1>4, BindQuantStep, BindPatternStep
<1>5. CASE \E x \in Name, s \in Sort, group \in BOOLEAN : BindParam(x, s, group)
  BY <1>5, BindParamStep
<1>6. CASE Bodies
  BY <1>6, BodyOpensStep, CloseQuantStep, OpenCaseStep, CaseBodyStep, CloseCaseStep, OpenFunStep,
     CloseFunStep DEF Bodies
<1>7. CASE Reset
  BY <1>7, ResetStep
<1>8. CASE UNCHANGED binderVars
  BY <1>8, StutterStep
<1> QED BY <1>1, <1>2, <1>3, <1>4, <1>5, <1>6, <1>7, <1>8 DEF Next, ReadingNext

LEMMA Invariant == Spec => []BindersInv
BY InitInv, NextInv, PTL DEF Spec

(* The tables, counters and modes stay well typed, leaks included. *)
THEOREM TypeCorrect == Spec => []TypeOK
<1>1. BindersInv => TypeOK
  BY DEF BindersInv
<1> QED BY <1>1, Invariant, PTL

LEMMA InvSees == BindersInv => BindersSeen
<1> SUFFICES ASSUME BindersInv PROVE BindersSeen
  OBVIOUS
<1>1. TypeOK /\ LetsCounted /\ QuantsCounted
  BY DEF BindersInv
<1>2. ASSUME (\E x \in Name : lets[x] # Absent) \/ (\E i \in DOMAIN open : open[i].kind = "let")
      PROVE  letMode # "non"
  <2>1. lets # Nothing \/ LetFrames # {}
    BY <1>2 DEF Nothing, LetFrames
  <2>2. letDepth # 0
    BY <2>1, UncountedEmpty
  <2> QED BY <2>2, <1>1 DEF TypeOK, LetsCounted
<1>3. ASSUME NEW i \in DOMAIN open, open[i].kind = "quant" PROVE inQuant /\ quantDepth > 0
  <2>1. i \in QuantFrames
    BY <1>3 DEF QuantFrames
  <2>2. IsFiniteSet(QuantFrames)
    BY <1>1, OpenFacts, CountLast
  <2>3. Cardinality(QuantFrames) # 0
    BY <2>1, <2>2, FS_EmptySet
  <2>4. quantDepth \in Nat /\ Cardinality(QuantFrames) \in Nat /\ Cardinality(QuantFrames) <= quantDepth
    BY <1>1, CountsAreNat DEF TypeOK, QuantsCounted
  <2> QED BY <2>1, <2>3, <2>4, <1>1 DEF QuantsCounted
<1> QED BY <1>2, <1>3 DEF BindersSeen

(* What is bound is looked up: neither the mode that no constructor          *)
(* initialises nor a failure hides a let or a quantified variable.           *)
THEOREM BoundIsSeen == Spec => []BindersSeen
BY InvSees, Invariant, PTL
-----------------------------------------------------------------------------
(* The abstract store *)

(* What the checkpoints restore, one table for each. *)
Saved == [i \in 1 .. Len(checkpoints) |-> LetsBefore(checkpoints[i])]

(* The checkpoints stay, and what they restore. *)
LEMMA SavedKept ==
    ASSUME TypeOK, UNCHANGED checkpoints,
           \A c \in 0 .. Len(letBackup) : LetsBefore(c)' = LetsBefore(c)
    PROVE  Saved' = Saved
<1>1. \A i \in 1 .. Len(checkpoints) : LetsBefore(checkpoints[i])' = LetsBefore(checkpoints[i])
  BY LetsFacts
<1> QED BY <1>1 DEF Saved

LEMMA LetsUntouchedSaved ==
    ASSUME BindersInv, UNCHANGED letVars
    PROVE  Saved' = Saved
<1>1. UNCHANGED checkpoints /\ TypeOK
  BY DEF letVars, BindersInv
<1> QED BY <1>1, LetsUntouched, SavedKept DEF BindersInv

LEMMA OpenLetPushes ==
    ASSUME BindersInv, NEW chained \in BOOLEAN, OpenLet(chained)
    PROVE  lets' = lets /\ Saved' = Append(Saved, lets)
<1> DEFINE p == Len(checkpoints)
<1>1. /\ TypeOK /\ lets' = lets /\ letBackup' = letBackup
      /\ checkpoints' = Append(checkpoints, Len(letBackup))
  BY DEF BindersInv, OpenLet
<1>2. /\ lets \in Table /\ letBackup \in Seq(Backup) /\ Len(letBackup) \in Nat
      /\ checkpoints \in Seq(0 .. Len(letBackup)) /\ p \in Nat
  BY <1>1, LetsFacts
<1>3. /\ Len(checkpoints') = p + 1
      /\ \A i \in 1 .. p : checkpoints'[i] = checkpoints[i]
      /\ checkpoints'[p + 1] = Len(letBackup)
  <2>1. Len(letBackup) \in 0 .. Len(letBackup)
    BY <1>2
  <2> QED BY <2>1, <1>1, <1>2, AppendProperties
<1>4. \A c : LetsBefore(c)' = LetsBefore(c)
  BY <1>1 DEF LetsBefore
<1>5. LetsBefore(Len(letBackup)) = lets
  BY <1>1, <1>2, LetsFacts, BeforeNow
<1>6. Saved' = [i \in 1 .. p + 1 |-> IF i <= p THEN LetsBefore(checkpoints[i]) ELSE lets]
  <2>1. \A i \in 1 .. p + 1 :
           LetsBefore(checkpoints[i])' = IF i <= p THEN LetsBefore(checkpoints[i]) ELSE lets
    <3> TAKE i \in 1 .. p + 1
    <3>1. CASE i <= p
      BY <3>1, <1>2, <1>3, <1>4
    <3>2. CASE i = p + 1
      BY <3>2, <1>2, <1>3, <1>4, <1>5
    <3> QED BY <3>1, <3>2, <1>2
  <2> QED BY <2>1, <1>3 DEF Saved
<1>7. Append(Saved, lets) = [i \in 1 .. p + 1 |-> IF i <= p THEN LetsBefore(checkpoints[i]) ELSE lets]
  <2>1. Len(Saved) = p /\ Saved \in Seq({LetsBefore(checkpoints[i]) : i \in 1 .. p})
    BY <1>2 DEF Saved
  <2> QED BY <2>1, <1>2 DEF Saved
<1> QED BY <1>1, <1>6, <1>7

(* Leaving scopes brings back the table of the outermost of them. *)
LEMMA PopRestores ==
    ASSUME BindersInv, NEW k \in 1 .. Len(checkpoints), PopLetScopes(k)
    PROVE  LET m == Len(checkpoints) - k + 1 IN
           /\ m \in 1 .. Len(Saved)
           /\ lets' = Saved[m]
           /\ Saved' = [i \in 1 .. m - 1 |-> Saved[i]]
<1> DEFINE left == Len(checkpoints) - k
<1>1. TypeOK /\ BackupsNested /\ Len(checkpoints) \in Nat /\ Len(Saved) = Len(checkpoints)
  BY LetsFacts DEF BindersInv, Saved
<1>2. /\ left \in Nat /\ left + 1 <= Len(checkpoints)
      /\ lets' = LetsBefore(checkpoints[left + 1])
      /\ Len(checkpoints') = left
      /\ \A i \in 1 .. left : /\ checkpoints'[i] = checkpoints[i]
                              /\ LetsBefore(checkpoints[i])' = LetsBefore(checkpoints[i])
  BY <1>1, PopFacts
<1> QED BY <1>1, <1>2 DEF Saved

LEMMA StepRefines == BindersInv /\ [Next]_binderVars => [Store!Next]_(Store!storeVars)
<1> SUFFICES ASSUME BindersInv, [Next]_binderVars PROVE Store!Next \/ UNCHANGED Store!storeVars
  OBVIOUS
<1>1. ASSUME NEW chained \in BOOLEAN, OpenLet(chained) PROVE Store!Push
  BY <1>1, OpenLetPushes DEF Store!Push, Saved
<1>2. CASE BindLet
  <2>1. TypeOK /\ BackupsNested /\ open # << >> /\ Top.kind = "let" /\ Top.phase = "value"
    BY <1>2 DEF BindersInv, BindLet, Reading
  <2>2. Top.pending \in Name /\ LetNode(Len(open)) \in BoundNode
    BY <2>1, OpenFacts, BoundAssumption DEF BindersInv, WellNested, LetNode, BoundNode
  <2>3. checkpoints # << >>
    BY <2>1, ChainHasScopes
  <2>4. RegisterLet(Top.pending, LetNode(Len(open)))
    BY <1>2 DEF BindLet, RegisterLet
  <2>5. UNCHANGED checkpoints /\ \A c \in 0 .. Len(letBackup) : LetsBefore(c)' = LetsBefore(c)
    BY <2>1, <2>2, <2>3, <2>4, BindFacts DEF RegisterLet
  <2>6. Saved' = Saved
    BY <2>1, <2>5, SavedKept
  <2> QED BY <2>6 DEF Store!Next, Store!Update, Saved
<1>3. CASE CloseLet
  <2>1. PopLetScopes(1) /\ open # << >> /\ Top.kind = "let"
    BY <1>3 DEF CloseLet, Reading
  <2>2. 1 \in 1 .. Len(checkpoints) /\ Len(checkpoints) \in Nat
    BY <2>1, ChainHasScopes, LetsFacts DEF BindersInv
  <2>3. /\ Len(Saved) = Len(checkpoints) /\ Saved # << >>
        /\ lets' = Saved[Len(Saved)] /\ Saved' = [i \in 1 .. Len(Saved) - 1 |-> Saved[i]]
    <3>1. Len(Saved) = Len(checkpoints) /\ Saved # << >>
      BY <2>2 DEF Saved
    <3>2. /\ lets' = Saved[Len(checkpoints) - 1 + 1]
          /\ Saved' = [i \in 1 .. Len(checkpoints) - 1 + 1 - 1 |-> Saved[i]]
      BY <2>1, <2>2, PopRestores
    <3>3. Len(checkpoints) - 1 + 1 = Len(checkpoints)
      BY <2>2
    <3> QED BY <3>1, <3>2, <3>3
  <2> QED BY <2>3 DEF Store!Next, Store!Pop, Saved
<1>4. CASE FailLet
  <2>1. PopLetScopes(ChainLength) /\ open # << >> /\ Top.kind = "let"
    BY <1>4 DEF FailLet, Reading
  <2>2. ChainLength \in 1 .. Len(checkpoints)
    BY <2>1, ChainHasScopes
  <2>3. \E m \in 1 .. Len(Saved) : lets' = Saved[m] /\ Saved' = [i \in 1 .. m - 1 |-> Saved[i]]
    BY <2>1, <2>2, PopRestores
  <2> QED BY <2>3 DEF Store!Next, Store!Unwind, Saved
<1>5. CASE Reset
  <2>1. lets' = Nothing /\ checkpoints' = << >>
    BY <1>5 DEF Reset
  <2>2. Saved' = << >>
    BY <2>1 DEF Saved
  <2> QED BY <2>1, <2>2 DEF Store!Next, Store!Clear, Saved
<1>6. CASE UNCHANGED letVars
  BY <1>6, LetsUntouchedSaved DEF Store!Next, Store!Update, Saved
<1>7. \/ \E chained \in BOOLEAN : OpenLet(chained)
      \/ BindLet \/ CloseLet \/ FailLet \/ Reset \/ UNCHANGED letVars
  <2>1. ASSUME NEW x \in Name, LetName(x) PROVE UNCHANGED letVars
    BY <2>1 DEF LetName
  <2>2. ASSUME NEW x \in Name, NEW s \in Sort,
               BindQuant(x, s) \/ BindPattern(x, s) \/ \E group \in BOOLEAN : BindParam(x, s, group)
        PROVE  UNCHANGED letVars
    BY <2>2 DEF BindQuant, BindPattern, BindParam
  <2>3. LetBody \/ Fail \/ OpenQuant \/ Bodies => UNCHANGED letVars
    BY DEF LetBody, Fail, OpenQuant, Bodies, QuantBody, CloseQuant, OpenCase, CaseBody, CloseCase,
           OpenFun, FunBody, CloseFun
  <2>4. UNCHANGED binderVars => UNCHANGED letVars
    BY DEF binderVars
  <2> QED BY <2>1, <2>2, <2>3, <2>4 DEF Next, ReadingNext, Lets
<1> QED BY <1>1, <1>2, <1>3, <1>4, <1>5, <1>6, <1>7 DEF Store!Next

(* Backups and checkpoints do as well as snapshots of the table, in every    *)
(* session: each scope that is left, by the end of its let or by an error,   *)
(* brings back the table of its beginning.                                   *)
THEOREM ScopesRestoreLets == Spec => ImplementsStore
<1>1. Init => Store!Init
  BY DEF Init, Store!Init
<1> QED BY <1>1, Invariant, StepRefines, PTL DEF Spec, ImplementsStore, Store!Spec

-----------------------------------------------------------------------------
(* The sessions of MCBinders, for any names, sorts and nesting *)

mcVars == <<binderVars, disciplined>>

(* Among the first n frames of s, the innermost of a kind in K that binds x  *)
(* binds it to v; v is Absent when there is none.                            *)
Denotes(s, K, x, n, v) ==
    \/ /\ v = Absent
       /\ \A i \in 1 .. n : s[i].kind \in K => s[i].binds[x] = Absent
    \/ /\ v # Absent
       /\ \E i \in 1 .. n :
             /\ s[i].kind \in K /\ s[i].binds[x] = v
             /\ \A j \in i + 1 .. n : s[j].kind \in K => s[j].binds[x] = Absent

QuantKinds == {"quant", "match"}

(* How many of the first i open binders are lets. *)
Rank(i) == Cardinality(LetFrames \cap (1 .. i))

(* The lets are those on the stack: the table holds the innermost bindings,  *)
(* and what a let's scope restores is the bindings of the lets around it.    *)
LetsExact ==
    /\ Cardinality(LetFrames) = Len(checkpoints)
    /\ \A x \in Name : Denotes(open, {"let"}, x, Len(open), lets[x])
    /\ \A i \in LetFrames : \A x \in Name : Denotes(open, {"let"}, x, i - 1, Saved[Rank(i)][x])

(* So do the quantifiers and patterns, and a quantifier puts back what is    *)
(* bound around it.                                                          *)
QuantsExact ==
    /\ Cardinality(QuantFrames) = quantDepth
    /\ \A x \in Name : Denotes(open, QuantKinds, x, Len(open), quants[x])
    /\ \A i \in 1 .. Len(open) : \A x \in Name :
          /\ open[i].kind = "quant" =>
                IF open[i].binds[x] = Absent THEN open[i].shadowed[x] = Absent
                ELSE Denotes(open, QuantKinds, x, i - 1, open[i].shadowed[x])
          /\ open[i].kind = "match" /\ open[i].binds[x] # Absent =>
                Denotes(open, QuantKinds, x, i - 1, Absent)

(* A function is defined between terms only. *)
ParamsExact ==
    /\ \A x \in Name : Denotes(open, {"fun"}, x, Len(open), params[x])
    /\ \A i \in 1 .. Len(open) : open[i].kind = "fun" => i = 1

(* Only a let binds what a let or a function around it has bound. *)
OnlyLetsRebind ==
    \A i \in 1 .. Len(open) : \A x \in Name :
        open[i].kind \in QuantKinds /\ open[i].binds[x] # Absent =>
            \A j \in 1 .. i - 1 : open[j].kind \in {"let", "fun"} => open[j].binds[x] = Absent

(* The binders whose bodies look up quantified variables. *)
LooksUp(f) == f.kind = "quant" \/ (f.kind = "match" /\ f.phase = "body")

(* The mode says whether there is one, and a match whether there is one      *)
(* around it.                                                                *)
ModeExact ==
    /\ inQuant <=> \E i \in 1 .. Len(open) : LooksUp(open[i])
    /\ \A i \in 1 .. Len(open) : open[i].kind = "match" /\ open[i].phase = "body" =>
          (open[i].saved <=> \E j \in 1 .. i - 1 : LooksUp(open[j]))
    /\ \A i, j \in 1 .. Len(open) : i < j /\ open[i].kind = "match" /\ open[j].kind = "quant" =>
          \E k \in 1 .. i - 1 : open[k].kind = "quant"

(* The inductive invariant of the disciplined sessions. *)
ScopesInv == LetsExact /\ QuantsExact /\ ParamsExact /\ OnlyLetsRebind /\ ModeExact
-----------------------------------------------------------------------------
(* Lookup in a stack *)

(* Only the frames of the kinds in K matter. *)
LEMMA DenotesAgree ==
    ASSUME NEW s, NEW t, NEW K, NEW x, NEW n \in Int, NEW v, Denotes(s, K, x, n, v),
           \A i \in 1 .. n : /\ t[i].kind \in K <=> s[i].kind \in K
                             /\ s[i].kind \in K => t[i].binds[x] = s[i].binds[x]
    PROVE  Denotes(t, K, x, n, v)
<1>1. CASE v = Absent
  BY <1>1 DEF Denotes
<1>2. CASE v # Absent
  <2> PICK i \in 1 .. n : /\ s[i].kind \in K /\ s[i].binds[x] = v
                          /\ \A j \in i + 1 .. n : s[j].kind \in K => s[j].binds[x] = Absent
    BY <1>2 DEF Denotes
  <2>1. \A j \in i + 1 .. n : j \in 1 .. n
    OBVIOUS
  <2>2. \A j \in i + 1 .. n : t[j].kind \in K => t[j].binds[x] = Absent
    BY <2>1
  <2> QED BY <2>2, <1>2 DEF Denotes
<1> QED BY <1>1, <1>2

(* A last frame that does not bind x does not matter. *)
LEMMA DenotesSkip ==
    ASSUME NEW s, NEW K, NEW x, NEW n \in Nat, NEW v,
           s[n + 1].kind \in K => s[n + 1].binds[x] = Absent
    PROVE  Denotes(s, K, x, n + 1, v) <=> Denotes(s, K, x, n, v)
<1>1. CASE v = Absent
  <2>1. (\A i \in 1 .. n : s[i].kind \in K => s[i].binds[x] = Absent)
          <=> \A i \in 1 .. n + 1 : s[i].kind \in K => s[i].binds[x] = Absent
    OBVIOUS
  <2> QED BY <2>1, <1>1 DEF Denotes
<1>2. CASE v # Absent
  <2> DEFINE Last(i, m) == /\ i \in 1 .. m /\ s[i].kind \in K /\ s[i].binds[x] = v
                           /\ \A j \in i + 1 .. m : s[j].kind \in K => s[j].binds[x] = Absent
  <2>1. \A i : Last(i, n) => Last(i, n + 1)
    OBVIOUS
  <2>2. \A i : Last(i, n + 1) => Last(i, n)
    BY <1>2
  <2>3. \A m : Denotes(s, K, x, m, v) <=> \E i : Last(i, m)
    BY <1>2 DEF Denotes
  <2> HIDE DEF Last
  <2> QED BY <2>1, <2>2, <2>3
<1> QED BY <1>1, <1>2

(* A last frame that binds x decides. *)
LEMMA DenotesTop ==
    ASSUME NEW s, NEW K, NEW x, NEW n \in Nat \ {0}, s[n].kind \in K, s[n].binds[x] # Absent
    PROVE  Denotes(s, K, x, n, s[n].binds[x])
<1>1. n \in 1 .. n /\ \A j \in n + 1 .. n : FALSE
  OBVIOUS
<1> QED BY <1>1 DEF Denotes

LEMMA DenotesNone ==
    ASSUME NEW s, NEW K, NEW x, NEW n
    PROVE  Denotes(s, K, x, n, Absent) <=> \A i \in 1 .. n : s[i].kind \in K => s[i].binds[x] = Absent
BY DEF Denotes

-----------------------------------------------------------------------------
(* What a step leaves of the stack *)

(* The frames of the kinds in K stay, with all that they bind. *)
Keeps(K) ==
    /\ \A i \in 1 .. Len(open) : open[i].kind \in K =>
          /\ i <= Len(open')
          /\ open'[i].kind = open[i].kind
          /\ open'[i].binds = open[i].binds /\ open'[i].shadowed = open[i].shadowed
    /\ \A i \in 1 .. Len(open') : open'[i].kind \in K =>
          i <= Len(open) /\ open[i].kind \in K

(* And what they denote stays, among all of them and below any of them. *)
LEMMA KeepsDenotes ==
    ASSUME NEW K, Keeps(K), Len(open) \in Nat, Len(open') \in Nat, NEW x, NEW v
    PROVE  /\ Denotes(open, K, x, Len(open), v) => Denotes(open', K, x, Len(open'), v)
           /\ \A i \in 1 .. Len(open) : open[i].kind \in K /\ Denotes(open, K, x, i - 1, v) =>
                 Denotes(open', K, x, i - 1, v)
<1> DEFINE n == Len(open)
           m == Len(open')
<1>1. /\ \A i \in 1 .. n : open[i].kind \in K =>
            i \in 1 .. m /\ open'[i].kind \in K /\ open'[i].binds = open[i].binds
      /\ \A i \in 1 .. m : open'[i].kind \in K => i \in 1 .. n /\ open[i].kind \in K
  BY DEF Keeps
<1>2. ASSUME Denotes(open, K, x, n, v) PROVE Denotes(open', K, x, m, v)
  <2>1. CASE v = Absent
    BY <2>1, <1>1, <1>2 DEF Denotes
  <2>2. CASE v # Absent
    <3> PICK i \in 1 .. n : /\ open[i].kind \in K /\ open[i].binds[x] = v
                            /\ \A j \in i + 1 .. n : open[j].kind \in K => open[j].binds[x] = Absent
      BY <2>2, <1>2 DEF Denotes
    <3>1. i \in 1 .. m /\ open'[i].kind \in K /\ open'[i].binds[x] = v
      BY <1>1
    <3>2. ASSUME NEW j \in i + 1 .. m, open'[j].kind \in K PROVE open'[j].binds[x] = Absent
      <4>1. j \in 1 .. m
        OBVIOUS
      <4>2. j \in 1 .. n /\ open[j].kind \in K
        BY <3>2, <4>1, <1>1
      <4>3. j \in i + 1 .. n
        BY <4>2
      <4> QED BY <4>2, <4>3, <1>1
    <3> QED BY <3>1, <3>2, <2>2 DEF Denotes
  <2> QED BY <2>1, <2>2
<1>3. ASSUME NEW i \in 1 .. n, open[i].kind \in K, Denotes(open, K, x, i - 1, v)
      PROVE  Denotes(open', K, x, i - 1, v)
  <2>1. \A j \in 1 .. i - 1 : j \in 1 .. n /\ j \in 1 .. m
    BY <1>1, <1>3
  <2>2. \A j \in 1 .. i - 1 : /\ open'[j].kind \in K <=> open[j].kind \in K
                              /\ open[j].kind \in K => open'[j].binds[x] = open[j].binds[x]
    BY <2>1, <1>1
  <2> QED BY <2>2, <1>3, DenotesAgree
<1> QED BY <1>2, <1>3

LEMMA WriteKeeps ==
    ASSUME TypeOK, NEW f, WritesTop(f), NEW K,
           f.kind \in K => f.binds = Top.binds /\ f.shadowed = Top.shadowed
    PROVE  Keeps(K)
<1> DEFINE n == Len(open)
<1>1. /\ n \in Nat \ {0} /\ Top = open[n] /\ Len(open') = n
      /\ \A i \in 1 .. n - 1 : open'[i] = open[i]
      /\ open'[n] = f /\ f.kind = open[n].kind
  BY TopWritten, OpenFacts
<1>2. \A i \in 1 .. n : i # n => open'[i] = open[i]
  BY <1>1
<1> QED BY <1>1, <1>2 DEF Keeps

LEMMA EnterKeeps ==
    ASSUME TypeOK, NEW kind \in {"let", "quant", "match", "fun"}, NEW chained \in BOOLEAN,
           Enter(kind, chained), NEW K, kind \notin K
    PROVE  Keeps(K)
<1> DEFINE n == Len(open)
<1>1. /\ n \in Nat /\ Len(open') = n + 1
      /\ \A i \in 1 .. n : open'[i] = open[i]
      /\ open'[n + 1].kind = kind
  <2>1. /\ n \in Nat /\ Len(open') = n + 1
        /\ \A i \in 1 .. n : open'[i] = open[i]
        /\ open'[n + 1] = Opened(kind, chained)
    BY EnterFacts, OpenFacts
  <2> QED BY <2>1 DEF Opened
<1>2. \A i \in 1 .. n + 1 : i # n + 1 => i \in 1 .. n
  BY <1>1
<1> QED BY <1>1, <1>2 DEF Keeps

LEMMA LeaveKeeps ==
    ASSUME TypeOK, open # << >>, Leave, NEW K, Top.kind \notin K
    PROVE  Keeps(K)
<1> DEFINE n == Len(open)
<1>1. /\ n \in Nat \ {0} /\ Top = open[n] /\ Len(open') = n - 1
      /\ \A i \in 1 .. n - 1 : open'[i] = open[i]
  BY LeaveFacts, OpenFacts
<1>2. \A i \in 1 .. n : i # n => i \in 1 .. n - 1
  BY <1>1
<1> QED BY <1>1, <1>2 DEF Keeps
-----------------------------------------------------------------------------
(* What such a step leaves of the invariant *)

LEMMA SavedType ==
    ASSUME BindersInv
    PROVE  /\ Len(Saved) = Len(checkpoints) /\ Len(checkpoints) \in Nat
           /\ \A k \in 1 .. Len(checkpoints) : Saved[k] = LetsBefore(checkpoints[k])
BY LetsFacts DEF Saved, BindersInv

LEMMA RankType ==
    ASSUME TypeOK, NEW i \in LetFrames
    PROVE  Rank(i) \in 1 .. Cardinality(LetFrames)
<1>1. LetFrames \in SUBSET (1 .. Len(open)) /\ Len(open) \in Nat /\ Cardinality(LetFrames) \in Nat
  BY OpenFacts, CountsAreNat
<1>2. IsFiniteSet(LetFrames)
  BY <1>1, CountLast
<1> DEFINE S == LetFrames \cap (1 .. i)
<1>3. IsFiniteSet(S) /\ Cardinality(S) <= Cardinality(LetFrames)
  BY <1>2, FS_Subset
<1>4. i \in S
  BY <1>1
<1>5. Cardinality(S) \in Nat /\ Cardinality(S) # 0
  BY <1>3, <1>4, FS_EmptySet, FS_CardinalityType
<1> QED BY <1>1, <1>3, <1>5 DEF Rank

LEMMA LetsExactKept ==
    ASSUME BindersInv, LetsExact, UNCHANGED letVars, Keeps({"let"}), open' \in Seq(Frame)
    PROVE  LetsExact'
<1>1. /\ TypeOK /\ Len(open) \in Nat /\ Len(open') \in Nat /\ DOMAIN open = 1 .. Len(open)
      /\ DOMAIN open' = 1 .. Len(open') /\ lets' = lets /\ checkpoints' = checkpoints
  BY OpenFacts DEF BindersInv, letVars
<1>2. LetFrames' = LetFrames
  BY <1>1 DEF LetFrames, Keeps
<1>3. Saved' = Saved
  BY LetsUntouchedSaved
<1>4. \A x \in Name : Denotes(open', {"let"}, x, Len(open'), lets[x])
  BY <1>1, KeepsDenotes DEF LetsExact
<1>5. ASSUME NEW i \in LetFrames, NEW x \in Name
      PROVE  Denotes(open', {"let"}, x, i - 1, Saved[Rank(i)][x])
  <2>1. i \in 1 .. Len(open) /\ open[i].kind \in {"let"}
    BY <1>1 DEF LetFrames
  <2> QED BY <2>1, <1>1, KeepsDenotes DEF LetsExact
<1>6. \A i : Rank(i)' = Rank(i)
  BY <1>2 DEF Rank
<1> QED BY <1>1, <1>2, <1>3, <1>4, <1>5, <1>6 DEF LetsExact

LEMMA QuantsExactKept ==
    ASSUME TypeOK, QuantsExact, Keeps(QuantKinds), open' \in Seq(Frame),
           quants' = quants, quantDepth' = quantDepth
    PROVE  QuantsExact'
<1>1. /\ Len(open) \in Nat /\ Len(open') \in Nat /\ DOMAIN open = 1 .. Len(open)
      /\ DOMAIN open' = 1 .. Len(open')
  BY OpenFacts
<1>2. \A i : open[i].kind = "quant" \/ open[i].kind = "match" <=> open[i].kind \in QuantKinds
  BY DEF QuantKinds
<1>3. QuantFrames' = QuantFrames
  BY <1>1, <1>2 DEF QuantFrames, Keeps, QuantKinds
<1>4. \A x \in Name : Denotes(open', QuantKinds, x, Len(open'), quants[x])
  BY <1>1, KeepsDenotes DEF QuantsExact
<1>5. ASSUME NEW i \in 1 .. Len(open'), NEW x \in Name, open'[i].kind \in QuantKinds
      PROVE  /\ open'[i].kind = "quant" =>
                   IF open'[i].binds[x] = Absent THEN open'[i].shadowed[x] = Absent
                   ELSE Denotes(open', QuantKinds, x, i - 1, open'[i].shadowed[x])
             /\ open'[i].kind = "match" /\ open'[i].binds[x] # Absent =>
                   Denotes(open', QuantKinds, x, i - 1, Absent)
  <2>1. /\ i \in 1 .. Len(open) /\ open[i].kind \in QuantKinds
        /\ open'[i].kind = open[i].kind /\ open'[i].binds = open[i].binds
        /\ open'[i].shadowed = open[i].shadowed
    BY <1>5 DEF Keeps
  <2>2. \A v : Denotes(open, QuantKinds, x, i - 1, v) => Denotes(open', QuantKinds, x, i - 1, v)
    BY <2>1, <1>1, KeepsDenotes
  <2> QED BY <2>1, <2>2 DEF QuantsExact
<1>6. \A i : open'[i].kind = "quant" \/ open'[i].kind = "match" => open'[i].kind \in QuantKinds
  BY DEF QuantKinds
<1> QED BY <1>3, <1>4, <1>5, <1>6 DEF QuantsExact

LEMMA ParamsExactKept ==
    ASSUME TypeOK, ParamsExact, Keeps({"fun"}), open' \in Seq(Frame), params' = params
    PROVE  ParamsExact'
<1>1. Len(open) \in Nat /\ Len(open') \in Nat
  BY OpenFacts
<1>2. \A x \in Name : Denotes(open', {"fun"}, x, Len(open'), params[x])
  BY <1>1, KeepsDenotes DEF ParamsExact
<1> QED BY <1>1, <1>2 DEF ParamsExact, Keeps

(* A binder's frame is written. *)
LEMMA WriteRebinds ==
    ASSUME TypeOK, OnlyLetsRebind, NEW f, WritesTop(f),
           \A x \in Name : f.kind \in QuantKinds /\ f.binds[x] # Absent =>
               \/ Top.binds[x] # Absent
               \/ \A j \in 1 .. Len(open) - 1 :
                     open[j].kind \in {"let", "fun"} => open[j].binds[x] = Absent
    PROVE  OnlyLetsRebind'
<1> DEFINE n == Len(open)
<1>1. /\ n \in Nat \ {0} /\ Top = open[n] /\ Len(open') = n
      /\ \A i \in 1 .. n - 1 : open'[i] = open[i]
      /\ open'[n] = f /\ f.kind = open[n].kind
  BY TopWritten, OpenFacts
<1> SUFFICES ASSUME NEW i \in 1 .. n, NEW x \in Name, open'[i].kind \in QuantKinds,
                    open'[i].binds[x] # Absent, NEW j \in 1 .. i - 1,
                    open'[j].kind \in {"let", "fun"}
             PROVE  open'[j].binds[x] = Absent
  BY <1>1 DEF OnlyLetsRebind
<1>2. j \in 1 .. n - 1 /\ open'[j] = open[j]
  BY <1>1
<1>3. CASE i = n
  BY <1>1, <1>2, <1>3 DEF OnlyLetsRebind
<1>4. CASE i # n
  <2>1. i \in 1 .. n - 1 /\ open'[i] = open[i]
    BY <1>1, <1>4
  <2> QED BY <2>1, <1>2 DEF OnlyLetsRebind
<1> QED BY <1>3, <1>4

LEMMA EnterRebinds ==
    ASSUME TypeOK, OnlyLetsRebind, NEW kind \in {"let", "quant", "match", "fun"},
           NEW chained \in BOOLEAN, Enter(kind, chained)
    PROVE  OnlyLetsRebind'
<1> DEFINE n == Len(open)
<1>1. /\ n \in Nat /\ Len(open') = n + 1
      /\ \A i \in 1 .. n : open'[i] = open[i]
      /\ open'[n + 1] = Opened(kind, chained)
  BY EnterFacts, OpenFacts
<1>2. \A x \in Name : open'[n + 1].binds[x] = Absent
  BY <1>1 DEF Opened, Nothing
<1> SUFFICES ASSUME NEW i \in 1 .. n + 1, NEW x \in Name, open'[i].kind \in QuantKinds,
                    open'[i].binds[x] # Absent, NEW j \in 1 .. i - 1,
                    open'[j].kind \in {"let", "fun"}
             PROVE  open'[j].binds[x] = Absent
  BY <1>1 DEF OnlyLetsRebind
<1>3. i \in 1 .. n /\ j \in 1 .. n
  BY <1>1, <1>2
<1> QED BY <1>1, <1>3 DEF OnlyLetsRebind

LEMMA LeaveRebinds ==
    ASSUME TypeOK, OnlyLetsRebind, open # << >>, Leave
    PROVE  OnlyLetsRebind'
<1> DEFINE n == Len(open)
<1>1. /\ n \in Nat \ {0} /\ Len(open') = n - 1
      /\ \A i \in 1 .. n - 1 : open'[i] = open[i]
  BY LeaveFacts, OpenFacts
<1> SUFFICES ASSUME NEW i \in 1 .. n - 1, NEW x \in Name, open'[i].kind \in QuantKinds,
                    open'[i].binds[x] # Absent, NEW j \in 1 .. i - 1,
                    open'[j].kind \in {"let", "fun"}
             PROVE  open'[j].binds[x] = Absent
  BY <1>1 DEF OnlyLetsRebind
<1>2. i \in 1 .. n /\ j \in 1 .. n - 1
  BY <1>1
<1> QED BY <1>1, <1>2 DEF OnlyLetsRebind

(* A binder's frame is written, which looks up what it did. *)
LEMMA WriteMode ==
    ASSUME TypeOK, ModeExact, NEW f, WritesTop(f), LooksUp(f) <=> LooksUp(Top),
           f.kind = "match" /\ f.phase = "body" => Top.phase = "body" /\ f.saved = Top.saved,
           inQuant' = inQuant
    PROVE  ModeExact'
<1> DEFINE n == Len(open)
<1>1. /\ n \in Nat \ {0} /\ Top = open[n] /\ Len(open') = n
      /\ \A i \in 1 .. n - 1 : open'[i] = open[i]
      /\ open'[n] = f /\ f.kind = open[n].kind
  BY TopWritten, OpenFacts
<1>2. \A i \in 1 .. n : i # n => i \in 1 .. n - 1
  BY <1>1
<1>3. \A i \in 1 .. n : open'[i].kind = open[i].kind /\ (LooksUp(open'[i]) <=> LooksUp(open[i]))
  BY <1>1, <1>2
<1>4. \A i \in 1 .. n : \A j \in 1 .. i - 1 : j \in 1 .. n
  BY <1>1
<1>5. inQuant <=> \E i \in 1 .. n : LooksUp(open'[i])
  BY <1>3 DEF ModeExact
<1>6. ASSUME NEW i \in 1 .. n, open'[i].kind = "match", open'[i].phase = "body"
      PROVE  open'[i].saved <=> \E j \in 1 .. i - 1 : LooksUp(open'[j])
  <2>1. open[i].kind = "match" /\ open[i].phase = "body" /\ open'[i].saved = open[i].saved
    BY <1>1, <1>2, <1>6
  <2>2. open[i].saved <=> \E j \in 1 .. i - 1 : LooksUp(open[j])
    BY <2>1 DEF ModeExact
  <2> QED BY <2>1, <2>2, <1>3, <1>4
<1>7. ASSUME NEW i \in 1 .. n, NEW j \in 1 .. n, i < j, open'[i].kind = "match",
             open'[j].kind = "quant"
      PROVE  \E k \in 1 .. i - 1 : open'[k].kind = "quant"
  BY <1>3, <1>4, <1>7 DEF ModeExact
<1> QED BY <1>1, <1>5, <1>6, <1>7 DEF ModeExact

(* A binder is opened; a quantifier only inside a quantifier or where no     *)
(* case of a match is open.                                                  *)
LEMMA EnterMode ==
    ASSUME TypeOK, ModeExact, NEW kind \in {"let", "quant", "match", "fun"},
           NEW chained \in BOOLEAN, Enter(kind, chained),
           kind = "quant" => \/ \E k \in 1 .. Len(open) : open[k].kind = "quant"
                             \/ \A i \in 1 .. Len(open) : open[i].kind # "match",
           kind = "quant" => inQuant', kind # "quant" => inQuant' = inQuant
    PROVE  ModeExact'
<1> DEFINE n == Len(open)
<1>1. /\ n \in Nat /\ Len(open') = n + 1
      /\ \A i \in 1 .. n : open'[i] = open[i]
      /\ open'[n + 1].kind = kind /\ open'[n + 1].phase = "list"
      /\ LooksUp(open'[n + 1]) <=> kind = "quant"
  <2>1. /\ n \in Nat /\ Len(open') = n + 1
        /\ \A i \in 1 .. n : open'[i] = open[i]
        /\ open'[n + 1] = Opened(kind, chained)
    BY EnterFacts, OpenFacts
  <2> QED BY <2>1 DEF Opened, LooksUp
<1>2. \A i \in 1 .. n + 1 : i # n + 1 => i \in 1 .. n
  BY <1>1
<1>3. \A i \in 1 .. n : i \in 1 .. n + 1 /\ \A j \in 1 .. i - 1 : j \in 1 .. n
  BY <1>1
<1>4. inQuant' <=> \E i \in 1 .. n + 1 : LooksUp(open'[i])
  <2>1. n + 1 \in 1 .. n + 1
    BY <1>1
  <2> QED BY <2>1, <1>1, <1>2, <1>3 DEF ModeExact
<1>5. ASSUME NEW i \in 1 .. n + 1, open'[i].kind = "match", open'[i].phase = "body"
      PROVE  open'[i].saved <=> \E j \in 1 .. i - 1 : LooksUp(open'[j])
  <2>1. i \in 1 .. n
    BY <1>1, <1>2, <1>5
  <2> QED BY <2>1, <1>1, <1>3, <1>5 DEF ModeExact
<1>6. ASSUME NEW i \in 1 .. n + 1, NEW j \in 1 .. n + 1, i < j, open'[i].kind = "match",
             open'[j].kind = "quant"
      PROVE  \E k \in 1 .. i - 1 : open'[k].kind = "quant"
  <2>1. i \in 1 .. n /\ open[i].kind = "match" /\ open'[i] = open[i]
    BY <1>1, <1>2, <1>6
  <2>2. \E k \in 1 .. i - 1 : open[k].kind = "quant"
    <3>1. CASE j \in 1 .. n
      <4>1. open[j].kind = "quant"
        BY <3>1, <1>1, <1>6
      <4> QED BY <3>1, <4>1, <2>1, <1>6 DEF ModeExact
    <3>2. CASE j = n + 1
      <4>1. kind = "quant"
        BY <3>2, <1>1, <1>6
      <4>2. PICK k \in 1 .. n : open[k].kind = "quant"
        BY <4>1, <2>1
      <4>3. k # i
        BY <4>2, <2>1
      <4>4. CASE k < i
        BY <4>2, <4>4, <2>1
      <4>5. CASE i < k
        BY <4>2, <4>5, <2>1 DEF ModeExact
      <4> QED BY <4>3, <4>4, <4>5, <2>1
    <3> QED BY <3>1, <3>2, <1>2
  <2> QED BY <2>1, <2>2, <1>1, <1>3
<1> QED BY <1>1, <1>4, <1>5, <1>6 DEF ModeExact

(* A binder is left, and the mode is as the binders around it need it. *)
LEMMA LeaveMode ==
    ASSUME TypeOK, ModeExact, open # << >>, Leave,
           inQuant' <=> \E i \in 1 .. Len(open) - 1 : LooksUp(open[i])
    PROVE  ModeExact'
<1> DEFINE n == Len(open)
<1>1. /\ n \in Nat \ {0} /\ Len(open') = n - 1
      /\ \A i \in 1 .. n - 1 : open'[i] = open[i]
  BY LeaveFacts, OpenFacts
<1>2. \A i \in 1 .. n - 1 : i \in 1 .. n /\ \A j \in 1 .. i - 1 : j \in 1 .. n - 1
  BY <1>1
<1>3. inQuant' <=> \E i \in 1 .. n - 1 : LooksUp(open'[i])
  BY <1>1
<1>4. ASSUME NEW i \in 1 .. n - 1, open'[i].kind = "match", open'[i].phase = "body"
      PROVE  open'[i].saved <=> \E j \in 1 .. i - 1 : LooksUp(open'[j])
  BY <1>1, <1>2, <1>4 DEF ModeExact
<1>5. ASSUME NEW i \in 1 .. n - 1, NEW j \in 1 .. n - 1, i < j, open'[i].kind = "match",
             open'[j].kind = "quant"
      PROVE  \E k \in 1 .. i - 1 : open'[k].kind = "quant"
  <2>1. i \in 1 .. n /\ j \in 1 .. n /\ open[i].kind = "match" /\ open[j].kind = "quant"
    BY <1>1, <1>2, <1>5
  <2>2. PICK k \in 1 .. i - 1 : open[k].kind = "quant"
    BY <2>1, <1>5 DEF ModeExact
  <2>3. open'[k] = open[k]
    BY <1>1, <1>2
  <2> QED BY <2>2, <2>3
<1> QED BY <1>1, <1>3, <1>4, <1>5 DEF ModeExact

(* Nothing is open and nothing is bound. *)
Emptied ==
    /\ open = << >> /\ checkpoints = << >>
    /\ lets = Nothing /\ quants = Nothing /\ params = Nothing
    /\ quantDepth = 0 /\ ~inQuant

LEMMA EmptiedScopes == Emptied => ScopesInv
<1> SUFFICES ASSUME Emptied PROVE ScopesInv
  OBVIOUS
<1>1. /\ open = << >> /\ checkpoints = << >> /\ Len(open) = 0 /\ Len(checkpoints) = 0
      /\ \A x \in Name : lets[x] = Absent /\ quants[x] = Absent /\ params[x] = Absent
      /\ quantDepth = 0 /\ ~inQuant
  BY DEF Emptied, Nothing
<1>2. LetFrames = {} /\ QuantFrames = {} /\ Cardinality({}) = 0
  BY <1>1, FS_EmptySet DEF LetFrames, QuantFrames
<1>3. \A K, x : Denotes(open, K, x, 0, Absent)
  BY DEF Denotes
<1>4. LetsExact
  BY <1>1, <1>2, <1>3 DEF LetsExact
<1>5. QuantsExact /\ ParamsExact
  BY <1>1, <1>2, <1>3 DEF QuantsExact, ParamsExact
<1>6. OnlyLetsRebind /\ ModeExact
  BY <1>1 DEF OnlyLetsRebind, ModeExact
<1> QED BY <1>4, <1>5, <1>6 DEF ScopesInv

-----------------------------------------------------------------------------
(* The steps of a disciplined session *)

LEMMA Kinds == /\ "quant" \in QuantKinds /\ "match" \in QuantKinds
               /\ "let" \notin QuantKinds /\ "fun" \notin QuantKinds
BY DEF QuantKinds

(* Opening a let. *)
LEMMA OpenLetScopes ==
    ASSUME BindersInv, ScopesInv, NEW chained \in BOOLEAN, OpenLet(chained)
    PROVE  ScopesInv'
<1> DEFINE n == Len(open)
           p == Len(checkpoints)
<1>1. /\ TypeOK /\ LetsExact /\ QuantsExact /\ ParamsExact /\ OnlyLetsRebind /\ ModeExact
      /\ Enter("let", chained) /\ quants' = quants /\ params' = params
      /\ quantDepth' = quantDepth /\ inQuant' = inQuant
  BY DEF BindersInv, ScopesInv, OpenLet, quantVars
<1>2. /\ open' \in Seq(Frame) /\ Len(open') = n + 1 /\ n \in Nat
      /\ \A i \in 1 .. n : open'[i] = open[i]
      /\ open'[n + 1] = Opened("let", chained)
      /\ LetFrames' = LetFrames \cup {n + 1}
      /\ LetFrames \in SUBSET (1 .. n)
  BY <1>1, EnterFacts, OpenFacts
<1>3. QuantsExact' /\ ParamsExact'
  <2>1. Keeps(QuantKinds) /\ Keeps({"fun"})
    BY <1>1, Kinds, EnterKeeps
  <2> QED BY <2>1, <1>1, <1>2, QuantsExactKept, ParamsExactKept
<1>4. OnlyLetsRebind'
  BY <1>1, EnterRebinds
<1>5. ModeExact'
  BY <1>1, EnterMode
<1>6. /\ lets' = lets /\ Saved' = Append(Saved, lets)
      /\ Len(Saved) = p /\ p \in Nat /\ Len(checkpoints') = p + 1
  <2>1. lets' = lets /\ Saved' = Append(Saved, lets) /\ checkpoints' = Append(checkpoints, Len(letBackup))
    BY OpenLetPushes DEF OpenLet
  <2>2. Len(letBackup) \in 0 .. Len(letBackup) /\ checkpoints \in Seq(0 .. Len(letBackup))
    BY <1>1, LetsFacts
  <2> QED BY <2>1, <2>2, SavedType, AppendProperties
<1>7. /\ \A k \in 1 .. p : Saved'[k] = Saved[k]
      /\ Saved'[p + 1] = lets
  <2>1. Saved \in Seq({Saved[k] : k \in 1 .. p} \cup {lets})
    <3>1. Saved = [k \in 1 .. p |-> Saved[k]]
      BY <1>6 DEF Saved
    <3> QED BY <3>1, <1>6
  <2> QED BY <2>1, <1>6, AppendProperties
<1>8. Cardinality(LetFrames) = p /\ Cardinality(LetFrames') = p + 1
  <2>1. Cardinality(LetFrames \cup {n + 1}) = Cardinality(LetFrames) + 1
    BY <1>2, CountLast
  <2> QED BY <2>1, <1>1, <1>2 DEF LetsExact
<1>9. \A x \in Name : /\ Denotes(open', {"let"}, x, n, lets[x])
                      /\ Denotes(open', {"let"}, x, n + 1, lets[x])
  <2> TAKE x \in Name
  <2>1. Denotes(open, {"let"}, x, n, lets[x])
    BY <1>1 DEF LetsExact
  <2>2. Denotes(open', {"let"}, x, n, lets[x])
    BY <2>1, <1>2, DenotesAgree
  <2>3. open'[n + 1].binds[x] = Absent
    BY <1>2 DEF Opened, Nothing
  <2> QED BY <2>2, <2>3, <1>2, DenotesSkip
<1>10. /\ \A i \in LetFrames : Rank(i)' = Rank(i)
       /\ Cardinality(LetFrames' \cap (1 .. n + 1)) = p + 1
  <2>1. \A i \in LetFrames : LetFrames' \cap (1 .. i) = LetFrames \cap (1 .. i)
    BY <1>2
  <2>2. LetFrames' \cap (1 .. n + 1) = LetFrames'
    <3>1. 1 .. n \subseteq 1 .. n + 1 /\ n + 1 \in 1 .. n + 1
      BY <1>2
    <3>2. LetFrames' \subseteq 1 .. n + 1
      BY <3>1, <1>2
    <3> QED BY <3>2
  <2>3. \A i \in LetFrames : Rank(i)' = Rank(i)
    BY <2>1 DEF Rank
  <2> QED BY <2>2, <2>3, <1>8
<1>11. ASSUME NEW i \in LetFrames', NEW x \in Name
       PROVE  Denotes(open', {"let"}, x, i - 1, Saved'[Rank(i)'][x])
  <2>1. CASE i \in LetFrames
    <3>1. i \in 1 .. n /\ Rank(i) \in 1 .. p
      BY <2>1, <1>1, <1>2, <1>8, RankType
    <3>2. Denotes(open, {"let"}, x, i - 1, Saved[Rank(i)][x])
      BY <2>1, <1>1 DEF LetsExact
    <3>3. \A j \in 1 .. i - 1 : open'[j] = open[j]
      BY <3>1, <1>2
    <3>4. Denotes(open', {"let"}, x, i - 1, Saved[Rank(i)][x])
      BY <3>1, <3>2, <3>3, DenotesAgree
    <3> QED BY <2>1, <3>1, <3>4, <1>7, <1>10
  <2>2. CASE i = n + 1
    <3>1. i - 1 = n
      BY <2>2, <1>2
    <3>2. Rank(i)' = p + 1
      BY <2>2, <1>10 DEF Rank
    <3>3. Saved'[Rank(i)'] = lets
      BY <3>2, <1>7
    <3> QED BY <3>1, <3>3, <1>9
  <2> QED BY <2>1, <2>2, <1>2
<1>12. LetsExact'
  BY <1>2, <1>6, <1>8, <1>9, <1>11 DEF LetsExact
<1> QED BY <1>3, <1>4, <1>5, <1>12 DEF ScopesInv

(* Reading a name, or the body, of a let; the body of a quantifier or of a   *)
(* function: nothing is bound.                                               *)
LEMMA QuietScopes ==
    ASSUME BindersInv, ScopesInv, NEW f, WritesTop(f), f.binds = Top.binds, f.shadowed = Top.shadowed,
           f.kind # "match", UNCHANGED letVars,
           UNCHANGED <<quants, quantDepth, inQuant, params>>
    PROVE  ScopesInv'
<1>1. /\ TypeOK /\ LetsExact /\ QuantsExact /\ ParamsExact /\ OnlyLetsRebind /\ ModeExact
      /\ \A K : Keeps(K)
      /\ open' \in Seq(Frame) /\ f.kind = Top.kind
  BY WriteKeeps, TopWritten DEF BindersInv, ScopesInv
<1>2. LetsExact' /\ QuantsExact' /\ ParamsExact'
  BY <1>1, LetsExactKept, QuantsExactKept, ParamsExactKept
<1>3. OnlyLetsRebind'
  BY <1>1, WriteRebinds
<1>4. ModeExact'
  BY <1>1, WriteMode DEF LooksUp
<1> QED BY <1>2, <1>3, <1>4 DEF ScopesInv

LEMMA LetNameScopes ==
    ASSUME BindersInv, ScopesInv, NEW x \in Name, LetName(x)
    PROVE  ScopesInv'
<1> DEFINE f == [Top EXCEPT !.phase = "value", !.pending = x]
<1>1. /\ TypeOK /\ open # << >> /\ UNCHANGED letVars
      /\ UNCHANGED <<quants, quantDepth, inQuant, params>>
      /\ Top \in Frame /\ Top.kind = "let"
  BY OpenFacts DEF BindersInv, LetName, Reading, quantVars
<1>2. WritesTop(f) /\ f.binds = Top.binds /\ f.shadowed = Top.shadowed /\ f.kind = "let"
  <2>1. /\ f \in Frame /\ f.kind = Top.kind /\ f.chained = Top.chained
        /\ f.binds = Top.binds /\ f.shadowed = Top.shadowed /\ f.kind = "let"
    BY <1>1 DEF Frame
  <2>2. open' = [open EXCEPT ![Len(open)] = f]
    BY <1>1 DEF TypeOK, LetName, Top
  <2> QED BY <2>1, <2>2, <1>1 DEF WritesTop
<1> HIDE DEF f
<1> QED BY <1>1, <1>2, QuietScopes

LEMMA BodyScopes ==
    ASSUME BindersInv, ScopesInv, LetBody \/ QuantBody \/ FunBody
    PROVE  ScopesInv'
<1> DEFINE f == [Top EXCEPT !.phase = "body"]
<1>1. /\ TypeOK /\ open # << >> /\ UNCHANGED letVars /\ ReadBody /\ Top.kind # "match"
      /\ UNCHANGED <<quants, quantDepth, inQuant, params>> /\ Top \in Frame
  BY OpenFacts DEF BindersInv, LetBody, QuantBody, FunBody, Reading, quantVars
<1>2. WritesTop(f) /\ f.binds = Top.binds /\ f.shadowed = Top.shadowed /\ f.kind = Top.kind
  <2>1. f.binds = Top.binds /\ f.shadowed = Top.shadowed
    BY <1>1 DEF Frame
  <2> QED BY <2>1, <1>1, ReadBodyWrites
<1> HIDE DEF f
<1> QED BY <1>1, <1>2, QuietScopes

(* What the frames below the innermost one denote stays. *)
LEMMA WriteBelow ==
    ASSUME TypeOK, NEW f, WritesTop(f), NEW K, NEW x, NEW v, NEW i \in 1 .. Len(open),
           Denotes(open, K, x, i - 1, v)
    PROVE  Denotes(open', K, x, i - 1, v)
<1>1. \A j \in 1 .. Len(open) - 1 : open'[j] = open[j]
  BY TopWritten
<1>2. \A j \in 1 .. i - 1 : open'[j] = open[j]
  BY <1>1, OpenFacts
<1>3. i - 1 \in Int
  BY OpenFacts
<1> QED BY <1>2, <1>3, DenotesAgree

LEMMA LeaveBelow ==
    ASSUME TypeOK, open # << >>, Leave, NEW K, NEW x, NEW v, NEW i \in 1 .. Len(open),
           Denotes(open, K, x, i - 1, v)
    PROVE  Denotes(open', K, x, i - 1, v)
<1>1. \A j \in 1 .. Len(open) - 1 : open'[j] = open[j]
  BY LeaveFacts
<1>2. \A j \in 1 .. i - 1 : open'[j] = open[j]
  BY <1>1, OpenFacts
<1>3. i - 1 \in Int
  BY OpenFacts
<1> QED BY <1>2, <1>3, DenotesAgree

(* The innermost binder binds x to node: that is what x denotes, and other   *)
(* names what they did.                                                      *)
LEMMA TopBinds ==
    ASSUME TypeOK, NEW f, WritesTop(f), NEW K, f.kind \in K, NEW x, NEW node, node # Absent,
           f.binds[x] = node, NEW y, y # x => f.binds[y] = Top.binds[y],
           NEW v, Denotes(open, K, y, Len(open), v)
    PROVE  Denotes(open', K, y, Len(open'), IF y = x THEN node ELSE v)
<1> DEFINE n == Len(open)
<1>1. /\ n \in Nat \ {0} /\ Top = open[n] /\ Len(open') = n
      /\ \A i \in 1 .. n - 1 : open'[i] = open[i]
      /\ open'[n] = f /\ f.kind = open[n].kind
  BY TopWritten, OpenFacts
<1>2. CASE y = x
  <2>1. Denotes(open', K, x, n, open'[n].binds[x])
    BY <1>1, DenotesTop
  <2> QED BY <2>1, <1>1, <1>2
<1>3. CASE y # x
  <2>1. \A i \in 1 .. n : i # n => i \in 1 .. n - 1
    BY <1>1
  <2>2. \A i \in 1 .. n : open'[i].kind = open[i].kind /\ open'[i].binds[y] = open[i].binds[y]
    BY <1>1, <1>3, <2>1
  <2>3. n \in Int
    BY <1>1
  <2>4. Denotes(open', K, y, n, v)
    BY <2>2, <2>3, DenotesAgree
  <2> QED BY <2>4, <1>1, <1>3
<1> QED BY <1>2, <1>3

(* A let binds the name whose value was read. *)
LEMMA BindLetScopes ==
    ASSUME BindersInv, ScopesInv, BindLet
    PROVE  ScopesInv'
<1> DEFINE n == Len(open)
           x == Top.pending
           node == LetNode(Len(open))
           f == [Top EXCEPT !.phase = "list", !.pending = Absent, !.binds = [Top.binds EXCEPT ![x] = node]]
<1>1. /\ TypeOK /\ BackupsNested /\ open # << >>
      /\ LetsExact /\ QuantsExact /\ ParamsExact /\ OnlyLetsRebind /\ ModeExact
      /\ n \in Nat \ {0} /\ DOMAIN open = 1 .. n /\ LetFrames \in SUBSET (1 .. n)
      /\ Top \in Frame /\ Top = open[n] /\ Top.kind = "let" /\ Top.phase = "value"
      /\ n <= MaxOpen
  BY OpenFacts DEF BindersInv, ScopesInv, BindLet, Reading, WellNested
<1>2. x \in Name
  BY <1>1 DEF BindersInv, WellNested
<1>3. node \in BoundNode /\ node # Absent
  BY <1>1, BoundAssumption, AbsentAssumption DEF LetNode, BoundNode
<1>4. /\ RegisterLet(x, node)
      /\ quants' = quants /\ quantDepth' = quantDepth /\ inQuant' = inQuant /\ params' = params
  BY DEF BindLet, RegisterLet, quantVars
<1>5. checkpoints # << >>
  BY <1>1, ChainHasScopes
<1>6. /\ WritesTop(f) /\ f.phase = "list" /\ f.kind = "let"
      /\ f.binds[x] = node /\ \A y \in Name : y # x => f.binds[y] = Top.binds[y]
  <2>1. /\ f \in Frame /\ f.kind = Top.kind /\ f.chained = Top.chained
        /\ f.phase = "list" /\ f.kind = "let"
        /\ f.binds[x] = node /\ \A y \in Name : y # x => f.binds[y] = Top.binds[y]
    BY <1>1, <1>2, <1>3 DEF Frame, Table
  <2>2. open' = [open EXCEPT ![Len(open)] = f]
    BY <1>1 DEF TypeOK, BindLet, Top
  <2> QED BY <2>1, <2>2, <1>1 DEF WritesTop
<1> HIDE DEF f, x, node
<1>7. /\ open' \in Seq(Frame) /\ LetFrames' = LetFrames /\ Len(open') = n
  BY <1>1, <1>6, TopWritten
<1>8. /\ checkpoints' = checkpoints
      /\ lets'[x] = node /\ \A y \in Name : y # x => lets'[y] = lets[y]
  BY <1>2, <1>4, LetsFacts, <1>1 DEF RegisterLet, Table
<1>9. Saved' = Saved
  <2>1. \A c \in 0 .. Len(letBackup) : LetsBefore(c)' = LetsBefore(c)
    BY <1>1, <1>2, <1>3, <1>4, <1>5, BindFacts
  <2> QED BY <2>1, <1>1, <1>8, SavedKept
<1>10. QuantsExact' /\ ParamsExact'
  <2>1. Keeps(QuantKinds) /\ Keeps({"fun"})
    BY <1>1, <1>6, Kinds, WriteKeeps
  <2> QED BY <2>1, <1>1, <1>4, <1>7, QuantsExactKept, ParamsExactKept
<1>11. OnlyLetsRebind'
  BY <1>1, <1>6, Kinds, WriteRebinds
<1>12. ModeExact'
  <2>1. LooksUp(f) <=> LooksUp(Top)
    BY <1>1, <1>6 DEF LooksUp
  <2> QED BY <2>1, <1>1, <1>4, <1>6, WriteMode
<1>13. ASSUME NEW y \in Name PROVE Denotes(open', {"let"}, y, Len(open'), lets'[y])
  <2>1. Denotes(open, {"let"}, y, n, lets[y])
    BY <1>1 DEF LetsExact
  <2>2. Denotes(open', {"let"}, y, Len(open'), IF y = x THEN node ELSE lets[y])
    BY <2>1, <1>1, <1>3, <1>6, TopBinds
  <2> QED BY <2>2, <1>8
<1>14. ASSUME NEW i \in LetFrames, NEW y \in Name
       PROVE  Denotes(open', {"let"}, y, i - 1, Saved[Rank(i)][y])
  <2>1. i \in 1 .. Len(open) /\ Denotes(open, {"let"}, y, i - 1, Saved[Rank(i)][y])
    BY <1>1 DEF LetsExact
  <2> QED BY <2>1, <1>1, <1>6, WriteBelow
<1>15. \A i : Rank(i)' = Rank(i)
  BY <1>7 DEF Rank
<1>16. LetsExact'
  BY <1>1, <1>7, <1>8, <1>9, <1>13, <1>14, <1>15 DEF LetsExact
<1> QED BY <1>10, <1>11, <1>12, <1>16 DEF ScopesInv

(* The innermost binder is the last let, and the others come before it. *)
LEMMA RankLast ==
    ASSUME TypeOK, Len(open) \in LetFrames
    PROVE  /\ Rank(Len(open)) = Cardinality(LetFrames)
           /\ \A i \in LetFrames : i # Len(open) => Rank(i) \in 1 .. Cardinality(LetFrames) - 1
<1> DEFINE n == Len(open)
<1>1. LetFrames \in SUBSET (1 .. n) /\ n \in Nat /\ Cardinality(LetFrames) \in Nat
  BY OpenFacts, CountsAreNat
<1>2. LetFrames \cap (1 .. n) = LetFrames
  BY <1>1
<1>3. ASSUME NEW i \in LetFrames, i # n PROVE Rank(i) \in 1 .. Cardinality(LetFrames) - 1
  <2>1. LetFrames \cap (1 .. i) \subseteq LetFrames \ {n}
    BY <1>1, <1>3
  <2>2. LetFrames \ {n} \in SUBSET (1 .. n)
    BY <1>1
  <2>3. /\ IsFiniteSet(LetFrames \ {n})
        /\ Cardinality(LetFrames \ {n}) = Cardinality(LetFrames) - 1
    BY <1>1, <2>2, CountLast
  <2>4. Cardinality(LetFrames \cap (1 .. i)) <= Cardinality(LetFrames) - 1
    BY <2>1, <2>3, FS_Subset
  <2> QED BY <2>4, <1>1, RankType DEF Rank
<1> QED BY <1>2, <1>3 DEF Rank

LEMMA CloseLetScopes ==
    ASSUME BindersInv, ScopesInv, CloseLet
    PROVE  ScopesInv'
<1> DEFINE n == Len(open)
           p == Len(checkpoints)
<1>1. /\ TypeOK /\ LetsExact /\ QuantsExact /\ ParamsExact /\ OnlyLetsRebind /\ ModeExact
      /\ open # << >> /\ Leave /\ PopLetScopes(1)
      /\ n \in Nat \ {0} /\ DOMAIN open = 1 .. n /\ LetFrames \in SUBSET (1 .. n)
      /\ Top = open[n] /\ Top.kind = "let"
      /\ quants' = quants /\ quantDepth' = quantDepth /\ inQuant' = inQuant /\ params' = params
  BY OpenFacts DEF BindersInv, ScopesInv, CloseLet, Reading, quantVars
<1>2. /\ open' \in Seq(Frame) /\ Len(open') = n - 1
      /\ LetFrames' = LetFrames \ {n} /\ n \in LetFrames
  <2>1. n \in LetFrames
    BY <1>1 DEF LetFrames
  <2> QED BY <2>1, <1>1, LeaveFacts
<1>3. QuantsExact' /\ ParamsExact'
  <2>1. Keeps(QuantKinds) /\ Keeps({"fun"})
    BY <1>1, Kinds, LeaveKeeps
  <2> QED BY <2>1, <1>1, <1>2, QuantsExactKept, ParamsExactKept
<1>4. OnlyLetsRebind'
  BY <1>1, LeaveRebinds
<1>5. ModeExact'
  <2>1. ~ LooksUp(open[n])
    BY <1>1 DEF LooksUp
  <2>2. (\E i \in 1 .. n : LooksUp(open[i])) <=> \E i \in 1 .. n - 1 : LooksUp(open[i])
    BY <2>1, <1>1
  <2>3. inQuant' <=> \E i \in 1 .. n - 1 : LooksUp(open[i])
    BY <2>2, <1>1 DEF ModeExact
  <2> QED BY <2>3, <1>1, LeaveMode
<1>6. Cardinality(LetFrames) = p /\ p \in Nat \ {0} /\ Cardinality(LetFrames') = p - 1
  <2>1. Cardinality(LetFrames \ {n}) = Cardinality(LetFrames) - 1
    BY <1>1, <1>2, CountLast
  <2>2. 1 \in 1 .. p /\ p \in Nat
    BY <1>1, ChainHasScopes, LetsFacts
  <2> QED BY <2>1, <2>2, <1>1, <1>2 DEF LetsExact
<1>7. /\ lets' = Saved[p] /\ Len(checkpoints') = p - 1
      /\ \A k \in 1 .. p - 1 : Saved'[k] = Saved[k]
  <2>1. 1 \in 1 .. p /\ p - 1 + 1 = p /\ p - 1 + 1 - 1 = p - 1
    BY <1>6
  <2>2. lets' = Saved[p] /\ Saved' = [k \in 1 .. p - 1 |-> Saved[k]]
    BY <2>1, <1>1, PopRestores
  <2>3. Len(checkpoints') = p - 1
    BY <2>1, <1>1, PopFacts DEF BindersInv
  <2> QED BY <2>2, <2>3
<1>8. ASSUME NEW x \in Name PROVE Denotes(open', {"let"}, x, n - 1, lets'[x])
  <2>1. Rank(n) = p
    BY <1>1, <1>2, <1>6, RankLast
  <2>2. Denotes(open, {"let"}, x, n - 1, lets'[x])
    BY <2>1, <1>1, <1>2, <1>7 DEF LetsExact
  <2>3. n \in 1 .. n
    BY <1>1
  <2> QED BY <2>2, <2>3, <1>1, LeaveBelow
<1>9. ASSUME NEW i \in LetFrames \ {n}, NEW x \in Name
      PROVE  Denotes(open', {"let"}, x, i - 1, Saved'[Rank(i)'][x])
  <2>1. Rank(i) \in 1 .. p - 1
    BY <1>1, <1>2, <1>6, RankLast
  <2>2. Rank(i)' = Rank(i)
    <3>0. n \notin 1 .. i
      <4>1. i \in 1 .. n /\ i # n /\ n \in Nat
        BY <1>1
      <4>2. i < n
        BY <4>1
      <4> HIDE DEF n
      <4> QED BY <4>1, <4>2
    <3>1. (LetFrames \ {n}) \cap (1 .. i) = LetFrames \cap (1 .. i)
      BY <3>0
    <3> QED BY <3>1, <1>2 DEF Rank
  <2>3. i \in 1 .. n /\ Denotes(open, {"let"}, x, i - 1, Saved[Rank(i)][x])
    BY <1>1 DEF LetsExact
  <2>4. Denotes(open', {"let"}, x, i - 1, Saved[Rank(i)][x])
    BY <2>3, <1>1, LeaveBelow
  <2> QED BY <2>1, <2>2, <2>4, <1>7
<1>10. LetsExact'
  BY <1>2, <1>6, <1>7, <1>8, <1>9 DEF LetsExact
<1> QED BY <1>3, <1>4, <1>5, <1>10 DEF ScopesInv

(* The error exit of a let that is no part of another term: nothing but the  *)
(* lets on its own state stack is open.                                      *)
LEMMA FailLetScopes ==
    ASSUME BindersInv, ScopesInv, FailLet, \A i \in 2 .. Len(open) : open[i].chained
    PROVE  Emptied'
<1> DEFINE n == Len(open)
           S == {i \in DOMAIN open : ~open[i].chained}
<1>1. /\ TypeOK /\ WellNested /\ BackupsNested
      /\ LetsExact /\ QuantsExact /\ ParamsExact /\ ModeExact
      /\ n \in Nat \ {0} /\ n \in Nat /\ DOMAIN open = 1 .. n /\ LetFrames \in SUBSET (1 .. n)
      /\ open # << >> /\ Top = open[n] /\ Top.kind = "let"
      /\ open' = << >> /\ PopLetScopes(ChainLength)
      /\ quants' = quants /\ quantDepth' = quantDepth /\ inQuant' = inQuant /\ params' = params
  BY OpenFacts DEF BindersInv, ScopesInv, FailLet, Reading, quantVars
<1>2. \A i \in 1 .. n : open[i].kind = "let"
  <2> TAKE i \in 1 .. n
  <2>1. CASE i = n
    BY <2>1, <1>1
  <2>2. CASE i # n
    <3>1. i + 1 \in 2 .. n /\ i + 1 \in 1 .. n /\ i + 1 - 1 = i
      BY <2>2, <1>1
    <3>2. open[i + 1].chained
      BY <3>1
    <3> QED BY <3>1, <3>2, <1>1 DEF WellNested
  <2> QED BY <2>1, <2>2
<1>3. ChainLength = n
  <2>1. 1 \in S /\ \A i \in S : i = 1
    <3>1. 1 \in 1 .. n /\ ~open[1].chained
      BY <1>1 DEF WellNested
    <3>2. \A i \in 1 .. n : i # 1 => i \in 2 .. n
      BY <1>1
    <3> QED BY <3>1, <3>2, <1>1
  <2>2. S \in SUBSET (1 .. n)
    BY <1>1
  <2>3. Max(S) = 1
    <3> HIDE DEF S
    <3> QED BY <2>1, <2>2, <1>1, MaxIndex
  <2>4. ChainLength = n + 1 - Max(S)
    BY DEF ChainLength
  <2> HIDE DEF S
  <2> QED BY <2>3, <2>4, <1>1
<1>4. LetFrames = 1 .. n /\ Len(checkpoints) = n
  <2>1. LetFrames = 1 .. n
    BY <1>1, <1>2 DEF LetFrames
  <2>2. Cardinality(1 .. n) = n
    BY <1>1, FS_Interval
  <2> QED BY <2>1, <2>2, <1>1 DEF LetsExact
<1>5. lets' = Nothing /\ checkpoints' = << >>
  <2>1. /\ n \in 1 .. Len(checkpoints) /\ Len(checkpoints) - n = 0 /\ 0 + 1 = 1
        /\ checkpoints # << >>
    BY <1>1, <1>4
  <2>2. PopLetScopes(n)
    BY <1>1, <1>3
  <2>3. /\ lets' = LetsBefore(checkpoints[1])
        /\ checkpoints' \in Seq(0 .. Len(letBackup')) /\ Len(checkpoints') = 0
    BY <2>1, <2>2, <1>1, PopFacts
  <2>4. checkpoints[1] = 0 /\ LetsBefore(0) = Nothing
    BY <2>1, <1>1 DEF BackupsNested
  <2> QED BY <2>3, <2>4
<1>6. quants = Nothing /\ params = Nothing
  <2>1. \A i \in 1 .. n : open[i].kind \notin QuantKinds /\ open[i].kind \notin {"fun"}
    BY <1>2, Kinds
  <2>2. \A x \in Name : quants[x] = Absent /\ params[x] = Absent
    BY <2>1, <1>1 DEF QuantsExact, ParamsExact, Denotes
  <2>3. quants \in Table /\ params \in Table
    BY <1>1 DEF TypeOK
  <2> QED BY <2>2, <2>3 DEF Table, Nothing
<1>7. quantDepth = 0 /\ ~inQuant
  <2>1. QuantFrames = {}
    BY <1>1, <1>2 DEF QuantFrames
  <2>2. \A i \in 1 .. n : ~ LooksUp(open[i])
    BY <1>2 DEF LooksUp
  <2> QED BY <2>1, <2>2, <1>1, FS_EmptySet DEF QuantsExact, ModeExact
<1> QED BY <1>1, <1>5, <1>6, <1>7 DEF Emptied
-----------------------------------------------------------------------------

(* What a binder of QuantKinds does to the table of quantified variables:    *)
(* when it is opened,                                                        *)
LEMMA EnterQuants ==
    ASSUME TypeOK, QuantsExact, NEW kind \in {"quant", "match"}, Enter(kind, FALSE),
           quants' = quants, Cardinality(QuantFrames') = quantDepth'
    PROVE  QuantsExact'
<1> DEFINE n == Len(open)
<1>1. /\ n \in Nat /\ n \in Int /\ Len(open') = n + 1
      /\ \A i \in 1 .. n : open'[i] = open[i]
      /\ \A x \in Name : open'[n + 1].binds[x] = Absent /\ open'[n + 1].shadowed[x] = Absent
  <2>1. kind \in {"let", "quant", "match", "fun"} /\ FALSE \in BOOLEAN
    OBVIOUS
  <2>2. /\ n \in Nat /\ Len(open') = n + 1
        /\ \A i \in 1 .. n : open'[i] = open[i]
        /\ open'[n + 1] = Opened(kind, FALSE)
    BY <2>1, EnterFacts, OpenFacts
  <2> QED BY <2>2 DEF Opened, Nothing
<1>2. ASSUME NEW x \in Name PROVE Denotes(open', QuantKinds, x, n + 1, quants[x])
  <2>1. Denotes(open, QuantKinds, x, n, quants[x])
    BY DEF QuantsExact
  <2>2. Denotes(open', QuantKinds, x, n, quants[x])
    BY <2>1, <1>1, DenotesAgree
  <2> QED BY <2>2, <1>1, DenotesSkip
<1>3. ASSUME NEW i \in 1 .. n + 1, NEW x \in Name
      PROVE  /\ open'[i].kind = "quant" =>
                   IF open'[i].binds[x] = Absent THEN open'[i].shadowed[x] = Absent
                   ELSE Denotes(open', QuantKinds, x, i - 1, open'[i].shadowed[x])
             /\ open'[i].kind = "match" /\ open'[i].binds[x] # Absent =>
                   Denotes(open', QuantKinds, x, i - 1, Absent)
  <2>1. CASE i = n + 1
    BY <2>1, <1>1
  <2>2. CASE i # n + 1
    <3>1. i \in 1 .. n /\ open'[i] = open[i] /\ i - 1 \in Int
          /\ \A j \in 1 .. i - 1 : open'[j] = open[j]
      BY <2>2, <1>1
    <3>2. \A v : Denotes(open, QuantKinds, x, i - 1, v) => Denotes(open', QuantKinds, x, i - 1, v)
      BY <3>1, DenotesAgree
    <3> QED BY <3>1, <3>2 DEF QuantsExact
  <2> QED BY <2>1, <2>2
<1> QED BY <1>1, <1>2, <1>3 DEF QuantsExact

(* when it binds a name that it has not bound,                               *)
LEMMA BindQuants ==
    ASSUME TypeOK, QuantsExact, NEW f, WritesTop(f), f.kind \in QuantKinds, NEW x \in Name,
           f.binds[x] # Absent, Top.binds[x] = Absent,
           \A y \in Name : y # x => f.binds[y] = Top.binds[y] /\ f.shadowed[y] = Top.shadowed[y],
           f.kind = "quant" => f.shadowed[x] = quants[x],
           f.kind = "match" => quants[x] = Absent,
           quants'[x] = f.binds[x], \A y \in Name : y # x => quants'[y] = quants[y],
           quantDepth' = quantDepth
    PROVE  QuantsExact'
<1> DEFINE n == Len(open)
<1>1. /\ n \in Nat \ {0} /\ n - 1 \in Nat /\ Top = open[n] /\ Len(open') = n
      /\ \A i \in 1 .. n - 1 : open'[i] = open[i]
      /\ open'[n] = f /\ f.kind = open[n].kind
      /\ QuantFrames' = QuantFrames
  BY TopWritten, OpenFacts
<1>2. ASSUME NEW y \in Name PROVE Denotes(open', QuantKinds, y, n, quants'[y])
  <2>1. Denotes(open, QuantKinds, y, n, quants[y])
    BY DEF QuantsExact
  <2>2. Denotes(open', QuantKinds, y, Len(open'), IF y = x THEN f.binds[x] ELSE quants[y])
    BY <2>1, TopBinds
  <2> QED BY <2>2, <1>1
<1>3. ASSUME NEW i \in 1 .. n, NEW y \in Name
      PROVE  /\ open'[i].kind = "quant" =>
                   IF open'[i].binds[y] = Absent THEN open'[i].shadowed[y] = Absent
                   ELSE Denotes(open', QuantKinds, y, i - 1, open'[i].shadowed[y])
             /\ open'[i].kind = "match" /\ open'[i].binds[y] # Absent =>
                   Denotes(open', QuantKinds, y, i - 1, Absent)
  <2>1. \A v : Denotes(open, QuantKinds, y, i - 1, v) => Denotes(open', QuantKinds, y, i - 1, v)
    BY WriteBelow
  <2>2. CASE i = n /\ y = x
    <3>1. Denotes(open, QuantKinds, x, n, quants[x])
      BY DEF QuantsExact
    <3>2. n - 1 + 1 = n /\ open[n - 1 + 1].binds[x] = Absent
      BY <1>1
    <3>3. Denotes(open, QuantKinds, x, n - 1 + 1, quants[x])
      BY <3>1, <3>2
    <3>4. Denotes(open, QuantKinds, x, n - 1, quants[x])
      BY <3>2, <3>3, <1>1, DenotesSkip
    <3> QED BY <2>1, <2>2, <3>4, <1>1
  <2>3. CASE i = n /\ y # x
    <3>1. /\ open'[i].kind = open[i].kind
          /\ open'[i].binds[y] = open[i].binds[y] /\ open'[i].shadowed[y] = open[i].shadowed[y]
      BY <2>3, <1>1
    <3> QED BY <2>1, <3>1 DEF QuantsExact
  <2>4. CASE i # n
    <3>1. open'[i] = open[i]
      BY <2>4, <1>1
    <3> QED BY <2>1, <3>1 DEF QuantsExact
  <2> QED BY <2>2, <2>3, <2>4
<1> QED BY <1>1, <1>2, <1>3 DEF QuantsExact

(* and when it is left.                                                      *)
LEMMA LeaveQuants ==
    ASSUME TypeOK, QuantsExact, open # << >>, Leave,
           \A x \in Name : Denotes(open, QuantKinds, x, Len(open) - 1, quants'[x]),
           Cardinality(QuantFrames') = quantDepth'
    PROVE  QuantsExact'
<1> DEFINE n == Len(open)
<1>1. /\ n \in Nat \ {0} /\ n \in 1 .. n /\ Len(open') = n - 1
      /\ \A i \in 1 .. n - 1 : open'[i] = open[i] /\ i \in 1 .. n
  BY LeaveFacts, OpenFacts
<1>2. \A x \in Name : Denotes(open', QuantKinds, x, n - 1, quants'[x])
  BY <1>1, LeaveBelow
<1>3. \A i \in 1 .. n - 1 : \A x, v :
         Denotes(open, QuantKinds, x, i - 1, v) => Denotes(open', QuantKinds, x, i - 1, v)
  BY <1>1, LeaveBelow
<1> QED BY <1>1, <1>2, <1>3 DEF QuantsExact

(* A quantifier is opened in a case of a match only if one is around it. *)
LEMMA OpenQuantScopes ==
    ASSUME BindersInv, ScopesInv, OpenQuant,
           quantDepth = 0 => \A i \in DOMAIN open : open[i].kind # "match"
    PROVE  ScopesInv'
<1> DEFINE n == Len(open)
<1>1. /\ TypeOK /\ LetsExact /\ QuantsExact /\ ParamsExact /\ OnlyLetsRebind /\ ModeExact
      /\ Enter("quant", FALSE) /\ UNCHANGED letVars /\ quants' = quants /\ params' = params
      /\ quantDepth' = quantDepth + 1 /\ inQuant'
      /\ n \in Nat /\ DOMAIN open = 1 .. n /\ QuantFrames \in SUBSET (1 .. n)
  BY OpenFacts DEF BindersInv, ScopesInv, OpenQuant
<1>2. /\ open' \in Seq(Frame) /\ Len(open') = n + 1
      /\ \A i \in 1 .. n : open'[i] = open[i]
      /\ open'[n + 1] = Opened("quant", FALSE)
      /\ QuantFrames' = QuantFrames \cup {n + 1}
  BY <1>1, EnterFacts
<1>3. LetsExact' /\ ParamsExact'
  <2>1. Keeps({"let"}) /\ Keeps({"fun"})
    BY <1>1, EnterKeeps
  <2> QED BY <2>1, <1>1, <1>2, LetsExactKept, ParamsExactKept
<1>4. OnlyLetsRebind'
  BY <1>1, EnterRebinds
<1>5. ModeExact'
  <2>1. \/ \E k \in 1 .. n : open[k].kind = "quant"
        \/ \A i \in 1 .. n : open[i].kind # "match"
    <3>1. CASE quantDepth = 0
      BY <3>1, <1>1
    <3>2. CASE quantDepth # 0
      <4>1. QuantFrames # {}
        BY <3>2, <1>1, FS_EmptySet DEF QuantsExact
      <4> QED BY <4>1, <1>1 DEF QuantFrames
    <3> QED BY <3>1, <3>2
  <2> QED BY <2>1, <1>1, EnterMode
<1>6. Cardinality(QuantFrames') = quantDepth'
  <2>1. Cardinality(QuantFrames \cup {n + 1}) = Cardinality(QuantFrames) + 1
    BY <1>1, CountLast
  <2> QED BY <2>1, <1>1, <1>2 DEF QuantsExact
<1>7. /\ open'[n + 1].kind = "quant"
      /\ \A x \in Name : open'[n + 1].binds[x] = Absent /\ open'[n + 1].shadowed[x] = Absent
  BY <1>2 DEF Opened, Nothing
<1>8. QuantsExact'
  BY <1>1, <1>2, <1>6, <1>7, EnterQuants
<1> QED BY <1>3, <1>4, <1>5, <1>8 DEF ScopesInv

(* Nothing around the innermost binder binds x, if no table has it but that  *)
(* of the quantified variables.                                              *)
LEMMA UnboundAround ==
    ASSUME TypeOK, LetsExact, ParamsExact, NEW x \in Name, Unbound(x)
    PROVE  /\ Top.binds[x] = Absent
           /\ \A j \in 1 .. Len(open) - 1 :
                 open[j].kind \in {"let", "fun"} => open[j].binds[x] = Absent
<1>1. lets[x] = Absent /\ params[x] = Absent /\ Top.binds[x] = Absent
  BY DEF Unbound, NamesOf
<1>2. /\ Denotes(open, {"let"}, x, Len(open), Absent)
      /\ Denotes(open, {"fun"}, x, Len(open), Absent)
  BY <1>1 DEF LetsExact, ParamsExact
<1>3. /\ \A j \in 1 .. Len(open) : open[j].kind \in {"let"} => open[j].binds[x] = Absent
      /\ \A j \in 1 .. Len(open) : open[j].kind \in {"fun"} => open[j].binds[x] = Absent
  BY <1>2, DenotesNone
<1>4. \A j \in 1 .. Len(open) - 1 : j \in 1 .. Len(open)
  BY OpenFacts
<1> QED BY <1>1, <1>3, <1>4

(* A quantifier or a pattern binds a name. *)
LEMMA QuantBinds ==
    ASSUME BindersInv, ScopesInv, NEW f, WritesTop(f), f.kind \in QuantKinds, f.phase = Top.phase,
           Top.phase = "list", NEW x \in Name, Unbound(x), f.binds[x] # Absent,
           \A y \in Name : y # x => f.binds[y] = Top.binds[y] /\ f.shadowed[y] = Top.shadowed[y],
           f.kind = "quant" => f.shadowed[x] = quants[x],
           f.kind = "match" => quants[x] = Absent,
           quants'[x] = f.binds[x], \A y \in Name : y # x => quants'[y] = quants[y],
           quantDepth' = quantDepth, inQuant' = inQuant, params' = params, UNCHANGED letVars
    PROVE  ScopesInv'
<1>1. /\ TypeOK /\ LetsExact /\ QuantsExact /\ ParamsExact /\ OnlyLetsRebind /\ ModeExact
      /\ open' \in Seq(Frame) /\ f.kind = Top.kind
  BY TopWritten DEF BindersInv, ScopesInv
<1>2. /\ Top.binds[x] = Absent
      /\ \A j \in 1 .. Len(open) - 1 :
            open[j].kind \in {"let", "fun"} => open[j].binds[x] = Absent
  BY <1>1, UnboundAround
<1>3. LetsExact' /\ ParamsExact'
  <2>1. f.kind \notin {"let"} /\ f.kind \notin {"fun"}
    BY Kinds
  <2>2. Keeps({"let"}) /\ Keeps({"fun"})
    BY <2>1, <1>1, WriteKeeps
  <2> QED BY <2>2, <1>1, LetsExactKept, ParamsExactKept
<1>4. QuantsExact'
  BY <1>1, <1>2, BindQuants
<1>5. OnlyLetsRebind'
  <2>1. ASSUME NEW y \in Name, f.binds[y] # Absent
        PROVE  \/ Top.binds[y] # Absent
               \/ \A j \in 1 .. Len(open) - 1 :
                     open[j].kind \in {"let", "fun"} => open[j].binds[y] = Absent
    <3>1. CASE y = x
      BY <3>1, <1>2
    <3>2. CASE y # x
      BY <3>2, <2>1
    <3> QED BY <3>1, <3>2
  <2> QED BY <2>1, <1>1, WriteRebinds
<1>6. ModeExact'
  BY <1>1, WriteMode DEF LooksUp
<1> QED BY <1>3, <1>4, <1>5, <1>6 DEF ScopesInv

LEMMA BindQuantScopes ==
    ASSUME BindersInv, ScopesInv, NEW x \in Name, NEW s \in Sort, Unbound(x),
           quants[x] # QuantNode(x, s), BindQuant(x, s)
    PROVE  ScopesInv'
<1> DEFINE node == QuantNode(x, s)
           shadow == IF Top.shadowed[x] = Absent /\ quants[x] # node THEN quants[x] ELSE Top.shadowed[x]
           f == [Top EXCEPT !.binds = [Top.binds EXCEPT ![x] = node],
                            !.shadowed = [Top.shadowed EXCEPT ![x] = shadow]]
<1>1. /\ TypeOK /\ open # << >> /\ UNCHANGED letVars
      /\ quantDepth' = quantDepth /\ inQuant' = inQuant /\ params' = params
      /\ quants' = [quants EXCEPT ![x] = node]
      /\ Top \in Frame /\ Top.kind = "quant" /\ Top.phase = "list"
      /\ Top = open[Len(open)] /\ Len(open) \in 1 .. Len(open) /\ Top.binds[x] = Absent
      /\ QuantsExact
  BY OpenFacts DEF BindersInv, ScopesInv, BindQuant, Reading, Unbound, NamesOf
<1>2. node \in BoundNode /\ quants \in Table /\ Top.binds \in Table /\ Top.shadowed \in Table
  BY <1>1, BoundNodes DEF TypeOK, Frame
<1>3. shadow \in BoundNode \cup {Absent} /\ node # Absent
  BY <1>2, AbsentAssumption DEF Table
<1>4. Top.shadowed[x] = Absent
  BY <1>1 DEF QuantsExact
<1>5. shadow = quants[x]
  BY <1>4
<1>6. /\ WritesTop(f) /\ f.phase = "list" /\ f.kind = "quant"
      /\ f.binds[x] = node /\ f.shadowed[x] = shadow
      /\ \A y \in Name : y # x => f.binds[y] = Top.binds[y] /\ f.shadowed[y] = Top.shadowed[y]
  <2>1. /\ [Top.binds EXCEPT ![x] = node] \in Table
        /\ [Top.shadowed EXCEPT ![x] = shadow] \in Table
    BY <1>2, <1>3, TableBinds
  <2>2. /\ f \in Frame /\ f.kind = Top.kind /\ f.chained = Top.chained
        /\ f.phase = "list" /\ f.kind = "quant"
        /\ f.binds = [Top.binds EXCEPT ![x] = node]
        /\ f.shadowed = [Top.shadowed EXCEPT ![x] = shadow]
    BY <2>1, <1>1 DEF Frame
  <2>3. open' = [open EXCEPT ![Len(open)] = f]
    BY ZenonT(40), <1>1 DEF TypeOK, BindQuant, Top
  <2>4. /\ f.binds[x] = node /\ f.shadowed[x] = shadow
        /\ \A y \in Name : y # x => f.binds[y] = Top.binds[y] /\ f.shadowed[y] = Top.shadowed[y]
    BY <2>2, <1>2 DEF Table
  <2> QED BY <2>2, <2>3, <2>4, <1>1 DEF WritesTop
<1>7. quants'[x] = node /\ \A y \in Name : y # x => quants'[y] = quants[y]
  BY <1>1, <1>2 DEF Table
<1>8. /\ UNCHANGED letVars /\ quantDepth' = quantDepth /\ inQuant' = inQuant /\ params' = params
      /\ Top.phase = "list" /\ "quant" \in QuantKinds
  BY <1>1, Kinds
<1> HIDE DEF f, node, shadow
<1> QED BY <1>3, <1>5, <1>6, <1>7, <1>8, QuantBinds

LEMMA BindPatternScopes ==
    ASSUME BindersInv, ScopesInv, NEW x \in Name, NEW s \in Sort, Unbound(x),
           quants[x] = Absent, BindPattern(x, s)
    PROVE  ScopesInv'
<1> DEFINE node == QuantNode(x, s)
           f == [Top EXCEPT !.binds = [Top.binds EXCEPT ![x] = node]]
<1>1. /\ TypeOK /\ open # << >> /\ UNCHANGED letVars
      /\ quantDepth' = quantDepth /\ inQuant' = inQuant /\ params' = params
      /\ quants' = [quants EXCEPT ![x] = node]
      /\ Top \in Frame /\ Top.kind = "match" /\ Top.phase = "list"
  BY OpenFacts DEF BindersInv, BindPattern, Reading
<1>2. node \in BoundNode /\ node # Absent /\ quants \in Table /\ Top.binds \in Table
  BY <1>1, BoundNodes, AbsentAssumption DEF TypeOK, Frame
<1>3. /\ WritesTop(f) /\ f.phase = "list" /\ f.kind = "match"
      /\ f.binds[x] = node
      /\ \A y \in Name : y # x => f.binds[y] = Top.binds[y] /\ f.shadowed[y] = Top.shadowed[y]
  <2>1. [Top.binds EXCEPT ![x] = node] \in Table
    BY <1>2, TableBinds
  <2>2. /\ f \in Frame /\ f.kind = Top.kind /\ f.chained = Top.chained
        /\ f.phase = "list" /\ f.kind = "match"
        /\ f.binds = [Top.binds EXCEPT ![x] = node] /\ f.shadowed = Top.shadowed
    BY <2>1, <1>1 DEF Frame
  <2>3. open' = [open EXCEPT ![Len(open)] = f]
    BY <1>1 DEF TypeOK, BindPattern, Binds, Top
  <2>4. /\ f.binds[x] = node
        /\ \A y \in Name : y # x => f.binds[y] = Top.binds[y] /\ f.shadowed[y] = Top.shadowed[y]
    BY <2>2, <1>2 DEF Table
  <2> QED BY <2>2, <2>3, <2>4, <1>1 DEF WritesTop
<1>4. quants'[x] = node /\ \A y \in Name : y # x => quants'[y] = quants[y]
  BY <1>1, <1>2 DEF Table
<1>5. /\ UNCHANGED letVars /\ quantDepth' = quantDepth /\ inQuant' = inQuant /\ params' = params
      /\ Top.phase = "list" /\ "match" \in QuantKinds
  BY <1>1, Kinds
<1> HIDE DEF f, node
<1> QED BY <1>2, <1>3, <1>4, <1>5, QuantBinds

(* The last binder of the table of quantified variables is left. *)
LEMMA CountLeft ==
    ASSUME TypeOK, open # << >>, Leave
    PROVE  /\ Top.kind = "quant" => Cardinality(QuantFrames') = Cardinality(QuantFrames) - 1
           /\ Top.kind # "quant" => QuantFrames' = QuantFrames
<1> DEFINE n == Len(open)
<1>1. /\ n \in Nat /\ n \in Nat \ {0} /\ QuantFrames \in SUBSET (1 .. n)
      /\ Top = open[n] /\ DOMAIN open = 1 .. n /\ QuantFrames' = QuantFrames \ {n}
  BY LeaveFacts, OpenFacts
<1>2. n \in QuantFrames <=> Top.kind = "quant"
  BY <1>1 DEF QuantFrames
<1>3. Cardinality(QuantFrames \ {n}) =
        IF n \in QuantFrames THEN Cardinality(QuantFrames) - 1 ELSE Cardinality(QuantFrames)
  BY <1>1, CountLast
<1>4. n \notin QuantFrames => QuantFrames \ {n} = QuantFrames
  OBVIOUS
<1> QED BY <1>1, <1>2, <1>3, <1>4

(* A quantifier is left: what it shadowed is what is bound around it. *)
LEMMA CloseQuantScopes ==
    ASSUME BindersInv, ScopesInv, CloseQuant
    PROVE  ScopesInv'
<1> DEFINE n == Len(open)
<1>1. /\ TypeOK /\ LetsExact /\ QuantsExact /\ ParamsExact /\ OnlyLetsRebind /\ ModeExact
      /\ open # << >> /\ Leave /\ UNCHANGED letVars /\ params' = params
      /\ n \in Nat \ {0} /\ n \in Nat /\ n - 1 \in Nat /\ n - 1 + 1 = n
      /\ DOMAIN open = 1 .. n /\ QuantFrames \in SUBSET (1 .. n)
      /\ Top = open[n] /\ Top.kind = "quant" /\ Top.phase = "body"
      /\ quantDepth' = quantDepth - 1
      /\ \A x \in Name : quants'[x] = IF x \in NamesOf(Top) THEN Top.shadowed[x] ELSE quants[x]
  BY OpenFacts DEF BindersInv, ScopesInv, CloseQuant, Reading
<1>2. open' \in Seq(Frame)
  BY <1>1, LeaveFacts
<1>3. LetsExact' /\ ParamsExact'
  <2>1. Keeps({"let"}) /\ Keeps({"fun"})
    BY <1>1, LeaveKeeps
  <2> QED BY <2>1, <1>1, <1>2, LetsExactKept, ParamsExactKept
<1>4. OnlyLetsRebind'
  BY <1>1, LeaveRebinds
<1>5. n \in QuantFrames /\ LooksUp(open[n])
  BY <1>1 DEF QuantFrames, LooksUp
<1>6. ModeExact'
  <2>1. CASE quantDepth = 1
    <3>1. inQuant' = FALSE
      BY <2>1 DEF CloseQuant, LeavesQuantifiers
    <3>2. QuantFrames = {n}
      <4>1. Cardinality(QuantFrames \ {n}) = 0 /\ IsFiniteSet(QuantFrames \ {n})
        <5>1. Cardinality(QuantFrames \ {n}) = Cardinality(QuantFrames) - 1
          BY <1>1, <1>5, CountLast
        <5>3. Cardinality(QuantFrames) = 1
          BY <2>1, <1>1 DEF QuantsExact
        <5>4. IsFiniteSet(QuantFrames)
          BY <1>1, CountLast
        <5>5. IsFiniteSet(QuantFrames \ {n})
          BY <5>4, FS_RemoveElement
        <5> QED BY <5>1, <5>3, <5>5
      <4> QED BY <4>1, <1>5, FS_EmptySet
    <3>3. ASSUME NEW i \in 1 .. n - 1, LooksUp(open[i]) PROVE FALSE
      <4>0. n \in Nat \ {0}
        BY <1>1
      <4>1. i \in 1 .. n /\ i # n /\ i < n /\ n \in 1 .. n
        BY <4>0
      <4>2. open[i].kind # "quant"
        BY <4>1, <3>2, <1>1 DEF QuantFrames
      <4>3. open[i].kind = "match"
        BY <4>2, <3>3 DEF LooksUp
      <4>4. PICK k \in 1 .. i - 1 : open[k].kind = "quant"
        BY <4>1, <4>3, <1>1 DEF ModeExact
      <4>5. k \in 1 .. n /\ k # n
        BY <4>0
      <4> QED BY <4>4, <4>5, <3>2, <1>1 DEF QuantFrames
    <3> QED BY <3>1, <3>3, <1>1, LeaveMode
  <2>2. CASE quantDepth # 1
    <3>1. inQuant' = inQuant
      BY <2>2 DEF CloseQuant, LeavesQuantifiers
    <3>2. QuantFrames # {n}
      BY <2>2, <1>1, FS_Singleton DEF QuantsExact
    <3>3. PICK i \in QuantFrames : i # n
      BY <3>2, <1>5
    <3>4. i \in 1 .. n - 1 /\ LooksUp(open[i])
      BY <3>3, <1>1 DEF QuantFrames, LooksUp
    <3>5. inQuant
      BY <1>1, <1>5 DEF ModeExact
    <3> QED BY <3>1, <3>4, <3>5, <1>1, LeaveMode
  <2> QED BY <2>1, <2>2
<1>7. QuantsExact'
  <2>1. ASSUME NEW x \in Name PROVE Denotes(open, QuantKinds, x, n - 1, quants'[x])
    <3>1. CASE x \in NamesOf(Top)
      <4>1. open[n].binds[x] # Absent /\ quants'[x] = open[n].shadowed[x] /\ n \in 1 .. n
        BY <3>1, <1>1 DEF NamesOf
      <4> QED BY <4>1, <1>1 DEF QuantsExact
    <3>2. CASE x \notin NamesOf(Top)
      <4>1. open[n - 1 + 1].binds[x] = Absent /\ quants'[x] = quants[x]
        BY <3>2, <1>1 DEF NamesOf
      <4>2. Denotes(open, QuantKinds, x, n - 1 + 1, quants[x])
        BY <1>1 DEF QuantsExact
      <4>3. Denotes(open, QuantKinds, x, n - 1, quants[x])
        BY <4>1, <4>2, <1>1, DenotesSkip
      <4> QED BY <4>1, <4>3
    <3> QED BY <3>1, <3>2
  <2>2. Cardinality(QuantFrames') = quantDepth'
    BY <1>1, CountLeft DEF QuantsExact
  <2> QED BY <2>1, <2>2, <1>1, LeaveQuants
<1> QED BY <1>3, <1>4, <1>6, <1>7 DEF ScopesInv
-----------------------------------------------------------------------------

(* A case of a match is opened, or a function: nothing is bound yet. *)
LEMMA OpenCaseScopes ==
    ASSUME BindersInv, ScopesInv, OpenCase
    PROVE  ScopesInv'
<1>1. /\ TypeOK /\ LetsExact /\ QuantsExact /\ ParamsExact /\ OnlyLetsRebind /\ ModeExact
      /\ Enter("match", FALSE) /\ UNCHANGED letVars /\ quants' = quants /\ params' = params
      /\ quantDepth' = quantDepth /\ inQuant' = inQuant
  BY DEF BindersInv, ScopesInv, OpenCase, quantVars
<1>2. open' \in Seq(Frame) /\ QuantFrames' = QuantFrames
  BY <1>1, EnterFacts
<1>3. LetsExact' /\ ParamsExact'
  <2>1. Keeps({"let"}) /\ Keeps({"fun"})
    BY <1>1, EnterKeeps
  <2> QED BY <2>1, <1>1, <1>2, LetsExactKept, ParamsExactKept
<1>4. OnlyLetsRebind' /\ ModeExact'
  BY <1>1, EnterRebinds, EnterMode
<1>5. QuantsExact'
  <2>1. Cardinality(QuantFrames') = quantDepth'
    BY <1>1, <1>2 DEF QuantsExact
  <2> QED BY <2>1, <1>1, EnterQuants
<1> QED BY <1>3, <1>4, <1>5 DEF ScopesInv

LEMMA OpenFunScopes ==
    ASSUME BindersInv, ScopesInv, OpenFun
    PROVE  ScopesInv'
<1>1. /\ TypeOK /\ LetsExact /\ QuantsExact /\ ParamsExact /\ OnlyLetsRebind /\ ModeExact
      /\ Enter("fun", FALSE) /\ UNCHANGED letVars /\ quants' = quants /\ params' = params
      /\ quantDepth' = quantDepth /\ inQuant' = inQuant /\ Len(open) = 0
  BY OpenFacts DEF BindersInv, ScopesInv, OpenFun, quantVars
<1>2. open' \in Seq(Frame) /\ Len(open') = 1 /\ open'[1] = Opened("fun", FALSE)
  <2>1. /\ open' \in Seq(Frame) /\ Len(open') = Len(open) + 1
        /\ open'[Len(open) + 1] = Opened("fun", FALSE)
    BY <1>1, EnterFacts
  <2>2. Len(open) + 1 = 1
    BY <1>1
  <2> QED BY <2>1, <2>2
<1>3. LetsExact' /\ QuantsExact'
  <2>1. Keeps({"let"}) /\ Keeps(QuantKinds)
    BY <1>1, Kinds, EnterKeeps
  <2> QED BY <2>1, <1>1, <1>2, LetsExactKept, QuantsExactKept
<1>4. OnlyLetsRebind' /\ ModeExact'
  BY <1>1, EnterRebinds, EnterMode
<1>5. ParamsExact'
  <2>1. \A x \in Name : params[x] = Absent
    BY <1>1 DEF ParamsExact, Denotes
  <2>2. \A x \in Name : \A i \in 1 .. 1 : open'[i].binds[x] = Absent
    BY <1>2 DEF Opened, Nothing
  <2>3. \A x \in Name : Denotes(open', {"fun"}, x, 1, params'[x])
    BY <2>1, <2>2, <1>1 DEF Denotes
  <2> QED BY <2>3, <1>2 DEF ParamsExact
<1> QED BY <1>3, <1>4, <1>5 DEF ScopesInv

(* The body of a case is read: in it, variables are looked up. *)
LEMMA CaseBodyScopes ==
    ASSUME BindersInv, ScopesInv, CaseBody
    PROVE  ScopesInv'
<1> DEFINE n == Len(open)
           f == [Top EXCEPT !.phase = "body", !.saved = inQuant]
<1>1. /\ TypeOK /\ LetsExact /\ QuantsExact /\ ParamsExact /\ OnlyLetsRebind /\ ModeExact
      /\ open # << >> /\ UNCHANGED letVars
      /\ quantDepth' = quantDepth /\ inQuant' = TRUE /\ quants' = quants /\ params' = params
      /\ Top \in Frame /\ Top.kind = "match" /\ Top.phase = "list" /\ inQuant \in BOOLEAN
  BY OpenFacts DEF BindersInv, ScopesInv, CaseBody, Reading, TypeOK
<1>2. /\ WritesTop(f) /\ f.phase = "body" /\ f.saved = inQuant /\ f.kind = "match"
      /\ f.binds = Top.binds /\ f.shadowed = Top.shadowed
  <2>1. /\ f \in Frame /\ f.kind = Top.kind /\ f.chained = Top.chained
        /\ f.phase = "body" /\ f.saved = inQuant /\ f.kind = "match"
        /\ f.binds = Top.binds /\ f.shadowed = Top.shadowed
    BY <1>1 DEF Frame
  <2>2. open' = [open EXCEPT ![Len(open)] = f]
    BY <1>1 DEF TypeOK, CaseBody, Top
  <2> QED BY <2>1, <2>2, <1>1 DEF WritesTop
<1> HIDE DEF f
<1>3. open' \in Seq(Frame) /\ \A K : Keeps(K)
  BY <1>1, <1>2, WriteKeeps, TopWritten
<1>4. LetsExact' /\ QuantsExact' /\ ParamsExact'
  BY <1>1, <1>3, LetsExactKept, QuantsExactKept, ParamsExactKept
<1>5. OnlyLetsRebind'
  BY <1>1, <1>2, WriteRebinds
<1>6. ModeExact'
  <2>1. /\ n \in Nat \ {0} /\ Top = open[n] /\ Len(open') = n
        /\ \A i \in 1 .. n - 1 : open'[i] = open[i]
        /\ open'[n] = f /\ f.kind = open[n].kind
    BY <1>1, <1>2, TopWritten, OpenFacts
  <2>2. /\ n \in 1 .. n
        /\ \A i \in 1 .. n : i # n => i \in 1 .. n - 1
        /\ \A i \in 1 .. n - 1 : i \in 1 .. n
        /\ \A i \in 1 .. n : \A j \in 1 .. i - 1 : j \in 1 .. n - 1
    BY <2>1
  <2>3. \A i \in 1 .. n : open'[i].kind = open[i].kind
    BY <2>1, <2>2
  <2>4. \E i \in 1 .. n : LooksUp(open'[i])
    BY <2>1, <2>2, <1>2 DEF LooksUp
  <2>5. inQuant <=> \E i \in 1 .. n - 1 : LooksUp(open[i])
    <3>1. ~ LooksUp(open[n])
      BY <2>1, <1>1 DEF LooksUp
    <3> QED BY <3>1, <2>2, <1>1 DEF ModeExact
  <2>6. ASSUME NEW i \in 1 .. n, open'[i].kind = "match", open'[i].phase = "body"
        PROVE  open'[i].saved <=> \E j \in 1 .. i - 1 : LooksUp(open'[j])
    <3>1. CASE i = n
      BY <3>1, <2>1, <2>5, <1>2
    <3>2. CASE i # n
      <4>1. open'[i] = open[i] /\ \A j \in 1 .. i - 1 : open'[j] = open[j]
        BY <3>2, <2>1, <2>2
      <4> QED BY <4>1, <2>6, <1>1 DEF ModeExact
    <3> QED BY <3>1, <3>2
  <2>7. ASSUME NEW i \in 1 .. n, NEW j \in 1 .. n, i < j, open'[i].kind = "match",
               open'[j].kind = "quant"
        PROVE  \E k \in 1 .. i - 1 : open'[k].kind = "quant"
    <3>1. open[i].kind = "match" /\ open[j].kind = "quant"
      BY <2>3, <2>7
    <3>2. PICK k \in 1 .. i - 1 : open[k].kind = "quant"
      BY <3>1, <2>7, <1>1 DEF ModeExact
    <3>3. k \in 1 .. n
      BY <2>2
    <3> QED BY <3>2, <3>3, <2>3
  <2> QED BY <2>1, <2>4, <2>6, <2>7, <1>1 DEF ModeExact
<1> QED BY <1>4, <1>5, <1>6 DEF ScopesInv

LEMMA CloseCaseScopes ==
    ASSUME BindersInv, ScopesInv, CloseCase
    PROVE  ScopesInv'
<1> DEFINE n == Len(open)
<1>1. /\ TypeOK /\ LetsExact /\ QuantsExact /\ ParamsExact /\ OnlyLetsRebind /\ ModeExact
      /\ open # << >> /\ Leave /\ UNCHANGED letVars /\ params' = params
      /\ n \in Nat \ {0} /\ n \in 1 .. n /\ n - 1 \in Nat /\ n - 1 + 1 = n
      /\ Top = open[n] /\ Top.kind = "match" /\ Top.phase = "body"
      /\ quantDepth' = quantDepth /\ inQuant' = Top.saved
      /\ \A x \in Name : quants'[x] = IF x \in NamesOf(Top) THEN Absent ELSE quants[x]
  BY OpenFacts DEF BindersInv, ScopesInv, CloseCase, Reading
<1>2. open' \in Seq(Frame)
  BY <1>1, LeaveFacts
<1>3. LetsExact' /\ ParamsExact'
  <2>1. Keeps({"let"}) /\ Keeps({"fun"})
    BY <1>1, LeaveKeeps
  <2> QED BY <2>1, <1>1, <1>2, LetsExactKept, ParamsExactKept
<1>4. OnlyLetsRebind'
  BY <1>1, LeaveRebinds
<1>5. ModeExact'
  <2>1. open[n].saved <=> \E j \in 1 .. n - 1 : LooksUp(open[j])
    BY <1>1 DEF ModeExact
  <2> QED BY <2>1, <1>1, LeaveMode
<1>6. QuantsExact'
  <2>1. ASSUME NEW x \in Name PROVE Denotes(open, QuantKinds, x, n - 1, quants'[x])
    <3>1. CASE x \in NamesOf(Top)
      <4>1. open[n].binds[x] # Absent /\ quants'[x] = Absent
        BY <3>1, <1>1 DEF NamesOf
      <4> QED BY <4>1, <1>1 DEF QuantsExact
    <3>2. CASE x \notin NamesOf(Top)
      <4>1. open[n - 1 + 1].binds[x] = Absent /\ quants'[x] = quants[x]
        BY <3>2, <1>1 DEF NamesOf
      <4>2. Denotes(open, QuantKinds, x, n - 1 + 1, quants[x])
        BY <1>1 DEF QuantsExact
      <4>3. Denotes(open, QuantKinds, x, n - 1, quants[x])
        BY <4>1, <4>2, <1>1, DenotesSkip
      <4> QED BY <4>1, <4>3
    <3> QED BY <3>1, <3>2
  <2>2. Cardinality(QuantFrames') = quantDepth'
    <3>1. QuantFrames' = QuantFrames
      BY <1>1, CountLeft
    <3> QED BY <3>1, <1>1 DEF QuantsExact
  <2> QED BY <2>1, <2>2, <1>1, LeaveQuants
<1> QED BY <1>3, <1>4, <1>5, <1>6 DEF ScopesInv
-----------------------------------------------------------------------------

(* A parameter is bound: a function's frame is the only one. *)
LEMMA BindParamScopes ==
    ASSUME BindersInv, ScopesInv, NEW x \in Name, NEW s \in Sort, BindParam(x, s, FALSE)
    PROVE  ScopesInv'
<1> DEFINE n == Len(open)
           node == ParamNode(x, s)
           f == [Top EXCEPT !.binds = [Top.binds EXCEPT ![x] = node]]
<1>1. /\ TypeOK /\ LetsExact /\ QuantsExact /\ ParamsExact /\ OnlyLetsRebind /\ ModeExact
      /\ open # << >> /\ UNCHANGED letVars
      /\ quantDepth' = quantDepth /\ inQuant' = inQuant /\ quants' = quants
      /\ params' = [params EXCEPT ![x] = node]
      /\ Top \in Frame /\ Top.kind = "fun" /\ Top.phase = "list"
  BY OpenFacts DEF BindersInv, ScopesInv, BindParam, Reading, quantVars
<1>2. node \in BoundNode /\ node # Absent /\ params \in Table /\ Top.binds \in Table
  BY <1>1, BoundNodes, AbsentAssumption DEF TypeOK, Frame
<1>3. /\ WritesTop(f) /\ f.phase = "list" /\ f.kind = "fun"
      /\ f.binds[x] = node /\ \A y \in Name : y # x => f.binds[y] = Top.binds[y]
  <2>1. [Top.binds EXCEPT ![x] = node] \in Table
    BY <1>2, TableBinds
  <2>2. /\ f \in Frame /\ f.kind = Top.kind /\ f.chained = Top.chained
        /\ f.phase = "list" /\ f.kind = "fun"
        /\ f.binds = [Top.binds EXCEPT ![x] = node]
    BY <2>1, <1>1 DEF Frame
  <2>3. open' = [open EXCEPT ![Len(open)] = f]
    BY <1>1 DEF TypeOK, BindParam, Binds, Top
  <2>4. f.binds[x] = node /\ \A y \in Name : y # x => f.binds[y] = Top.binds[y]
    BY <2>2, <1>2 DEF Table
  <2> QED BY <2>2, <2>3, <2>4, <1>1 DEF WritesTop
<1>4. params'[x] = node /\ \A y \in Name : y # x => params'[y] = params[y]
  BY <1>1, <1>2 DEF Table
<1>5. /\ TypeOK /\ LetsExact /\ QuantsExact /\ ParamsExact /\ OnlyLetsRebind /\ ModeExact
      /\ UNCHANGED letVars /\ quantDepth' = quantDepth /\ inQuant' = inQuant /\ quants' = quants
      /\ Top.kind = "fun" /\ Top.phase = "list"
  BY <1>1
<1> HIDE DEF f, node
<1>6. open' \in Seq(Frame) /\ Len(open') = n /\ \A i \in 1 .. n : open'[i].kind = open[i].kind
  <2>1. /\ n \in Nat \ {0} /\ Top = open[n] /\ open' \in Seq(Frame) /\ Len(open') = n
        /\ \A i \in 1 .. n - 1 : open'[i] = open[i]
        /\ open'[n] = f
    BY <1>3, <1>5, TopWritten, OpenFacts
  <2>2. \A i \in 1 .. n : i # n => i \in 1 .. n - 1
    BY <2>1
  <2> QED BY <2>1, <2>2, <1>3, <1>5
<1>7. LetsExact' /\ QuantsExact'
  <2>1. Keeps({"let"}) /\ Keeps(QuantKinds)
    BY <1>3, <1>5, Kinds, WriteKeeps
  <2> QED BY <2>1, <1>5, <1>6, LetsExactKept, QuantsExactKept
<1>8. OnlyLetsRebind' /\ ModeExact'
  <2>1. LooksUp(f) <=> LooksUp(Top)
    BY <1>3, <1>5 DEF LooksUp
  <2> QED BY <2>1, <1>3, <1>5, Kinds, WriteRebinds, WriteMode
<1>9. ParamsExact'
  <2>1. ASSUME NEW y \in Name PROVE Denotes(open', {"fun"}, y, Len(open'), params'[y])
    <3>1. Denotes(open, {"fun"}, y, Len(open), params[y])
      BY <1>5 DEF ParamsExact
    <3>2. Denotes(open', {"fun"}, y, Len(open'), IF y = x THEN node ELSE params[y])
      BY <3>1, <1>2, <1>3, <1>5, TopBinds
    <3> QED BY <3>2, <1>4
  <2> QED BY <2>1, <1>5, <1>6 DEF ParamsExact
<1> QED BY <1>7, <1>8, <1>9 DEF ScopesInv

LEMMA CloseFunScopes ==
    ASSUME BindersInv, ScopesInv, CloseFun
    PROVE  ScopesInv'
<1> DEFINE n == Len(open)
<1>1. /\ TypeOK /\ LetsExact /\ QuantsExact /\ ParamsExact /\ OnlyLetsRebind /\ ModeExact
      /\ open # << >> /\ Leave /\ UNCHANGED letVars /\ quants' = quants
      /\ n \in Nat \ {0} /\ n \in 1 .. n
      /\ Top = open[n] /\ Top.kind = "fun"
      /\ quantDepth' = quantDepth /\ inQuant' = inQuant
      /\ \A x \in Name : params'[x] = IF x \in NamesOf(Top) THEN Absent ELSE params[x]
  BY OpenFacts DEF BindersInv, ScopesInv, CloseFun, Reading, quantVars
<1>2. n = 1
  BY <1>1 DEF ParamsExact
<1>3. open' \in Seq(Frame) /\ Len(open') = 0
  <2>1. open' \in Seq(Frame) /\ Len(open') = n - 1
    BY <1>1, LeaveFacts
  <2> QED BY <2>1, <1>2
<1>4. LetsExact' /\ QuantsExact'
  <2>1. Keeps({"let"}) /\ Keeps(QuantKinds)
    BY <1>1, Kinds, LeaveKeeps
  <2> QED BY <2>1, <1>1, <1>3, LetsExactKept, QuantsExactKept
<1>5. OnlyLetsRebind'
  BY <1>1, LeaveRebinds
<1>6. ModeExact'
  <2>1. ~ LooksUp(open[1])
    BY <1>1, <1>2 DEF LooksUp
  <2>2. ~ inQuant
    BY <2>1, <1>1, <1>2 DEF ModeExact
  <2>3. inQuant' <=> \E i \in 1 .. n - 1 : LooksUp(open[i])
    BY <2>2, <1>1, <1>2
  <2> QED BY <2>3, <1>1, LeaveMode
<1>7. ParamsExact'
  <2>1. ASSUME NEW x \in Name PROVE params'[x] = Absent
    <3>1. CASE open[1].binds[x] = Absent
      <4>1. Denotes(open, {"fun"}, x, 1, params[x])
        BY <1>1, <1>2 DEF ParamsExact
      <4>2. params[x] = Absent
        BY <3>1, <4>1 DEF Denotes
      <4> QED BY <4>2, <1>1
    <3>2. CASE open[1].binds[x] # Absent
      BY <3>2, <1>1, <1>2 DEF NamesOf
    <3> QED BY <3>1, <3>2
  <2> QED BY <2>1, <1>3 DEF ParamsExact, Denotes
<1> QED BY <1>4, <1>5, <1>6, <1>7 DEF ScopesInv

(* The session is reset between two terms, when nothing but the modes can be *)
(* left, and they are not.                                                   *)
LEMMA ResetScopes ==
    ASSUME BindersInv, ScopesInv, Reset
    PROVE  Emptied'
<1>1. /\ LetsExact /\ QuantsExact /\ ModeExact /\ open = << >> /\ Len(open) = 0
      /\ open' = open /\ lets' = Nothing /\ checkpoints' = << >> /\ quants' = Nothing /\ params' = Nothing
      /\ quantDepth' = quantDepth /\ inQuant' = inQuant
  BY DEF BindersInv, ScopesInv, Reset
<1>2. QuantFrames = {}
  BY <1>1 DEF QuantFrames
<1>3. quantDepth = 0
  BY <1>1, <1>2, FS_EmptySet DEF QuantsExact
<1>4. ~ inQuant
  BY <1>1 DEF ModeExact
<1> QED BY <1>1, <1>3, <1>4 DEF Emptied

LEMMA StutterScopes ==
    ASSUME ScopesInv, UNCHANGED binderVars
    PROVE  ScopesInv'
<1>1. UNCHANGED <<lets, letBackup, checkpoints, letDepth, letMode, quants, quantDepth,
                  inQuant, params, open>>
  BY DEF binderVars, letVars, quantVars
<1>2. LetFrames' = LetFrames /\ QuantFrames' = QuantFrames /\ Saved' = Saved
  BY <1>1 DEF LetFrames, QuantFrames, Saved, LetsBefore
<1>3. \A i : Rank(i)' = Rank(i)
  BY <1>2 DEF Rank
<1>4. LetsExact' /\ QuantsExact'
  BY <1>1, <1>2, <1>3 DEF ScopesInv, LetsExact, QuantsExact
<1>5. ParamsExact' /\ OnlyLetsRebind' /\ ModeExact'
  BY <1>1 DEF ScopesInv, ParamsExact, OnlyLetsRebind, ModeExact
<1> QED BY <1>4, <1>5 DEF ScopesInv

(* Every step of a disciplined session. *)
LEMMA DisciplinedKeeps ==
    ASSUME BindersInv, ScopesInv, DisciplinedNext \/ UNCHANGED binderVars
    PROVE  ScopesInv' \/ Emptied'
<1>1. CASE Lets
  <2>1. ASSUME NEW chained \in BOOLEAN, OpenLet(chained) PROVE ScopesInv'
    BY <2>1, OpenLetScopes
  <2>2. ASSUME NEW x \in Name, LetName(x) PROVE ScopesInv'
    BY <2>2, LetNameScopes
  <2> QED BY <1>1, <2>1, <2>2, BindLetScopes, BodyScopes, CloseLetScopes DEF Lets
<1>2. CASE FailLet /\ \A i \in 2 .. Len(open) : open[i].chained
  BY <1>2, FailLetScopes
<1>3. CASE OpenQuant /\ (quantDepth = 0 => \A i \in DOMAIN open : open[i].kind # "match")
  BY <1>3, OpenQuantScopes
<1>4. ASSUME NEW x \in Name, NEW s \in Sort, Unbound(x),
             \/ quants[x] # QuantNode(x, s) /\ BindQuant(x, s)
             \/ quants[x] = Absent /\ BindPattern(x, s)
             \/ BindParam(x, s, FALSE)
      PROVE  ScopesInv'
  BY <1>4, BindQuantScopes, BindPatternScopes, BindParamScopes
<1>5. CASE Bodies
  BY <1>5, BodyScopes, CloseQuantScopes, OpenCaseScopes, CaseBodyScopes, CloseCaseScopes,
     OpenFunScopes, CloseFunScopes DEF Bodies
<1>6. CASE Reset
  BY <1>6, ResetScopes
<1>7. CASE UNCHANGED binderVars
  BY <1>7, StutterScopes
<1> QED BY <1>1, <1>2, <1>3, <1>4, <1>5, <1>6, <1>7 DEF DisciplinedNext
-----------------------------------------------------------------------------
(* The sessions *)

MCInv == BindersInv /\ (disciplined => ScopesInv)

LEMMA DisciplinedIsNext == DisciplinedNext => Next
BY DEF DisciplinedNext, Next, ReadingNext

LEMMA MCInitInv == MCInit => MCInv
<1> SUFFICES ASSUME MCInit PROVE MCInv
  OBVIOUS
<1>1. BindersInv
  BY InitInv DEF MCInit
<1>2. Emptied
  BY DEF MCInit, Init, Emptied
<1> QED BY <1>1, <1>2, EmptiedScopes DEF MCInv

LEMMA MCNextInv == MCInv /\ [MCNext]_mcVars => MCInv'
<1> SUFFICES ASSUME MCInv, [MCNext]_mcVars PROVE MCInv'
  OBVIOUS
<1>1. /\ BindersInv /\ (disciplined => ScopesInv) /\ disciplined' = disciplined
      /\ [Next]_binderVars
      /\ disciplined => DisciplinedNext \/ UNCHANGED binderVars
  BY DisciplinedIsNext DEF MCInv, MCNext, mcVars
<1>2. BindersInv'
  BY <1>1, NextInv
<1>3. Emptied' => ScopesInv'
  BY EmptiedScopes, PTL
<1>4. disciplined => ScopesInv' \/ Emptied'
  BY <1>1, DisciplinedKeeps
<1> QED BY <1>1, <1>2, <1>3, <1>4 DEF MCInv

LEMMA MCInvariant == MCSpec => []MCInv
<1>1. MCInv /\ [MCNext]_<<binderVars, disciplined>> => MCInv'
  BY MCNextInv DEF mcVars
<1> QED BY MCInitInv, <1>1, PTL DEF MCSpec
-----------------------------------------------------------------------------
(* What the invariant says of the sessions *)

(* The innermost of the open binders of x decides. *)
LEMMA InnermostBinder ==
    ASSUME TypeOK, NEW x
    PROVE  /\ (\A i \in 1 .. Len(open) : open[i].binds[x] = Absent) => BoundWithin(x, Len(open)) = Absent
           /\ \A i \in 1 .. Len(open) :
                 /\ open[i].binds[x] # Absent
                 /\ \A j \in i + 1 .. Len(open) : open[j].binds[x] = Absent
                 => BoundWithin(x, Len(open)) = open[i].binds[x]
<1> DEFINE n == Len(open)
           S == {i \in 1 .. n : open[i].binds[x] # Absent}
<1>1. BoundWithin(x, n) = IF S = {} THEN Absent ELSE open[Max(S)].binds[x]
  BY DEF BoundWithin
<1>2. ASSUME NEW i \in 1 .. n, open[i].binds[x] # Absent,
             \A j \in i + 1 .. n : open[j].binds[x] = Absent
      PROVE  S # {} /\ Max(S) = i
  <2>1. i \in S /\ S \in SUBSET (1 .. n) /\ n \in Nat
    BY <1>2, OpenFacts
  <2>2. \A j \in S : j <= i
    <3> TAKE j \in S
    <3>1. j \in 1 .. n /\ j \notin i + 1 .. n /\ n \in Nat
      BY <1>2, <2>1
    <3> QED BY <3>1
  <2>3. Max(S) \in S /\ \A j \in S : j <= Max(S)
    <3> HIDE DEF S
    <3> QED BY <2>1, MaxIndex
  <2> HIDE DEF S
  <2>4. Max(S) \in 1 .. n /\ Max(S) <= i /\ i <= Max(S)
    BY <2>1, <2>2, <2>3
  <2> QED BY <2>1, <2>4
<1>3. (\A i \in 1 .. n : open[i].binds[x] = Absent) => S = {}
  OBVIOUS
<1> HIDE DEF S
<1> QED BY <1>1, <1>2, <1>3

LEMMA ScopesResolve == BindersInv /\ ScopesInv => ResolvesLexically
<1> SUFFICES ASSUME BindersInv, ScopesInv, TermExpected, NEW x \in Name
             PROVE  Resolve(x) = BoundWithin(x, Len(open))
  BY DEF ResolvesLexically
<1> DEFINE n == Len(open)
<1>1. /\ TypeOK /\ WellNested /\ LetsExact /\ QuantsExact /\ ParamsExact /\ OnlyLetsRebind /\ ModeExact
      /\ n \in Nat /\ \A i \in 1 .. n : open[i].kind \in {"let", "quant", "match", "fun"}
  BY OpenFacts DEF BindersInv, ScopesInv, Frame
<1>2. \A i \in 1 .. n : \/ open[i].kind \in {"let"} \/ open[i].kind \in {"fun"}
                        \/ open[i].kind \in QuantKinds
  BY <1>1 DEF QuantKinds
<1>3. lets[x] # Absent => letMode # "non"
  BY InvSees DEF BindersSeen
<1>4. /\ Denotes(open, {"let"}, x, n, lets[x]) /\ Denotes(open, QuantKinds, x, n, quants[x])
      /\ Denotes(open, {"fun"}, x, n, params[x])
  BY <1>1 DEF LetsExact, QuantsExact, ParamsExact
<1>5. \A i \in 1 .. n : \A j \in i + 1 .. n : /\ j \in 1 .. n /\ i \in 1 .. j - 1 /\ j # 1
  BY <1>1
<1>6. ASSUME lets[x] # Absent PROVE Resolve(x) = BoundWithin(x, n)
  <2>1. PICK i \in 1 .. n : /\ open[i].kind \in {"let"} /\ open[i].binds[x] = lets[x]
                            /\ \A j \in i + 1 .. n : open[j].kind \in {"let"} => open[j].binds[x] = Absent
    BY <1>4, <1>6 DEF Denotes
  <2>2. ASSUME NEW j \in i + 1 .. n PROVE open[j].binds[x] = Absent
    <3>1. j \in 1 .. n /\ i \in 1 .. j - 1 /\ j # 1
      BY <1>5
    <3>2. open[j].kind \notin {"fun"}
      BY <3>1, <1>1 DEF ParamsExact
    <3>3. open[j].kind \in QuantKinds => open[j].binds[x] = Absent
      BY <3>1, <2>1, <1>1, <1>6 DEF OnlyLetsRebind
    <3> QED BY <3>1, <3>2, <3>3, <2>1, <1>2
  <2>3. BoundWithin(x, n) = lets[x]
    BY <2>1, <2>2, <1>1, <1>6, InnermostBinder
  <2> QED BY <2>3, <1>3, <1>6 DEF Resolve
<1>7. ASSUME lets[x] = Absent PROVE \A i \in 1 .. n : open[i].kind \in {"let"} => open[i].binds[x] = Absent
  BY <1>4, <1>7, DenotesNone
<1>8. ASSUME lets[x] = Absent, params[x] # Absent PROVE Resolve(x) = BoundWithin(x, n)
  <2>1. PICK i \in 1 .. n : open[i].kind \in {"fun"} /\ open[i].binds[x] = params[x]
    BY <1>4, <1>8 DEF Denotes
  <2>2. ASSUME NEW j \in i + 1 .. n PROVE open[j].binds[x] = Absent
    <3>1. j \in 1 .. n /\ i \in 1 .. j - 1 /\ j # 1
      BY <1>5
    <3>2. open[j].kind \notin {"fun"}
      BY <3>1, <1>1 DEF ParamsExact
    <3>3. open[j].kind \in QuantKinds => open[j].binds[x] = Absent
      BY <3>1, <2>1, <1>1, <1>8 DEF OnlyLetsRebind
    <3> QED BY <3>1, <3>2, <3>3, <1>2, <1>7, <1>8
  <2>3. BoundWithin(x, n) = params[x]
    BY <2>1, <2>2, <1>1, <1>8, InnermostBinder
  <2> QED BY <2>3, <1>8 DEF Resolve
<1>9. ASSUME lets[x] = Absent, params[x] = Absent PROVE Resolve(x) = BoundWithin(x, n)
  <2>1. \A i \in 1 .. n : open[i].kind \in {"fun"} => open[i].binds[x] = Absent
    BY <1>4, <1>9, DenotesNone
  <2>2. \A i \in 1 .. n : open[i].kind \notin QuantKinds => open[i].binds[x] = Absent
    BY <2>1, <1>2, <1>7, <1>9
  <2>3. Resolve(x) = IF inQuant THEN quants[x] ELSE Absent
    BY <1>9 DEF Resolve
  <2>4. CASE quants[x] = Absent
    <3>1. \A i \in 1 .. n : open[i].binds[x] = Absent
      BY <2>2, <2>4, <1>4, DenotesNone
    <3> QED BY <3>1, <2>3, <2>4, <1>1, InnermostBinder
  <2>5. CASE quants[x] # Absent
    <3>1. PICK i \in 1 .. n : /\ open[i].kind \in QuantKinds /\ open[i].binds[x] = quants[x]
                              /\ \A j \in i + 1 .. n : open[j].kind \in QuantKinds => open[j].binds[x] = Absent
      BY <2>5, <1>4 DEF Denotes
    <3>2. \A j \in i + 1 .. n : open[j].binds[x] = Absent
      BY <3>1, <2>2, <1>5
    <3>3. BoundWithin(x, n) = quants[x]
      BY <3>1, <3>2, <2>5, <1>1, InnermostBinder
    <3>4. open[i].phase # "list"
      <4>1. CASE i = n
        BY <4>1, <1>1 DEF TermExpected, Top
      <4>2. CASE i < n
        BY <4>2, <1>1 DEF WellNested
      <4> QED BY <4>1, <4>2, <1>1
    <3>5. open[i].kind = "match" => open[i].phase # "value"
      BY <1>1 DEF WellNested
    <3>6. open[i].phase \in {"list", "value", "body"}
      BY <1>1, OpenFacts DEF Frame
    <3>7. LooksUp(open[i])
      BY <3>1, <3>4, <3>5, <3>6 DEF LooksUp, QuantKinds
    <3>8. inQuant
      BY <3>7, <1>1 DEF ModeExact
    <3> QED BY <3>3, <3>8, <2>3
  <2> QED BY <2>4, <2>5
<1> QED BY <1>6, <1>8, <1>9

LEMMA ScopesBalanced == BindersInv /\ ScopesInv => Balanced
<1> SUFFICES ASSUME BindersInv, ScopesInv, open = << >>
             PROVE  /\ lets = Nothing /\ letBackup = << >> /\ checkpoints = << >>
                    /\ quants = Nothing /\ params = Nothing /\ quantDepth = 0 /\ ~inQuant
  BY DEF Balanced
<1>1. /\ TypeOK /\ BackupsNested /\ LetsExact /\ QuantsExact /\ ParamsExact /\ ModeExact
      /\ Len(open) = 0
  BY DEF BindersInv, ScopesInv
<1>2. LetFrames = {} /\ QuantFrames = {}
  BY DEF LetFrames, QuantFrames
<1>3. Len(checkpoints) = 0 /\ quantDepth = 0
  BY <1>1, <1>2, FS_EmptySet DEF LetsExact, QuantsExact
<1>4. checkpoints = << >> /\ letBackup = << >>
  BY <1>1, <1>3, LetsFacts DEF BackupsNested
<1>5. \A x \in Name : lets[x] = Absent /\ quants[x] = Absent /\ params[x] = Absent
  BY <1>1 DEF LetsExact, QuantsExact, ParamsExact, Denotes
<1>6. lets = Nothing /\ quants = Nothing /\ params = Nothing
  BY <1>1, <1>5 DEF TypeOK, Table, Nothing
<1>7. ~inQuant
  BY <1>1 DEF ModeExact
<1> QED BY <1>3, <1>4, <1>6, <1>7

(* In a session that keeps to the scripts of DisciplinedNext, a name denotes *)
(* the binding of the innermost open binder that binds it, of any kind, for  *)
(* any names, sorts and nesting.                                             *)
THEOREM NamesResolve == MCSpec => []DisciplinedResolves
<1>1. MCInv => DisciplinedResolves
  BY ScopesResolve DEF MCInv, DisciplinedResolves
<1> QED BY <1>1, MCInvariant, PTL

(* And between two terms nothing is bound, also after a let that failed.     *)
THEOREM ScopesUndone == MCSpec => []DisciplinedBalanced
<1>1. MCInv => DisciplinedBalanced
  BY ScopesBalanced DEF MCInv, DisciplinedBalanced
<1> QED BY <1>1, MCInvariant, PTL

(* The sessions of MCBinders are sessions of Binders: what BindersProofs says *)
(* of those holds of them.                                                   *)
THEOREM SessionsAreBinders == MCSpec => Spec
<1>1. MCInit => Init
  BY DEF MCInit
<1>2. [MCNext]_<<binderVars, disciplined>> => [Next]_binderVars
  BY DisciplinedIsNext DEF MCNext
<1> QED BY <1>1, <1>2, PTL DEF MCSpec, Spec
=============================================================================
