---------------------------- MODULE SessionProofs ----------------------------
(***************************************************************************)
(* For any texts and any length of a session: the state of the parser stays *)
(* well typed, a kept verdict is right, and in orderly sessions the log     *)
(* replays to the state and its numbers locate the commands.                *)
(***************************************************************************)
EXTENDS MCSession, DataProofs, SequenceTheorems

-----------------------------------------------------------------------------
(* The effect of a command *)

(* One iteration of popScope, field by field. *)
LEMMA PoppedOneFields ==
    ASSUME NEW c \in Context, c.frames # << >>
    PROVE  /\ PoppedOne(c) \in Context
           /\ PoppedOne(c).assertions = Resize(c.assertions, Last(c.frames))
           /\ PoppedOne(c).frames = Front(c.frames)
           /\ Len(PoppedOne(c).frames) = Len(c.frames) - 1
           /\ PoppedOne(c).removed
<1>1. /\ c.assertions \in Seq(Term \cup {NULL}) /\ c.frames \in Seq(Nat)
      /\ Len(c.frames) \in Nat \ {0}
  BY DEF Context
<1>2. Last(c.frames) \in Nat
  BY <1>1 DEF Last
<1>3. Front(c.frames) \in Seq(Nat) /\ Len(Front(c.frames)) = Len(c.frames) - 1
  BY <1>1 DEF Front
<1>4. Resize(c.assertions, Last(c.frames)) \in Seq(Term \cup {NULL})
  BY <1>1, <1>2 DEF Resize
<1> DEFINE kept == Resize(c.assertions, Last(c.frames))
           left == Front(c.frames)
<1>5. PoppedOne(c) = [c EXCEPT !.assertions = kept, !.frames = left, !.removed = TRUE]
  BY DEF PoppedOne
<1>6. kept \in Seq(Term \cup {NULL}) /\ left \in Seq(Nat)
  BY <1>3, <1>4
<1> HIDE DEF kept, left
<1>7. /\ PoppedOne(c) \in Context
      /\ PoppedOne(c).assertions = kept /\ PoppedOne(c).frames = left /\ PoppedOne(c).removed
  BY <1>5, <1>6 DEF Context
<1> QED BY <1>3, <1>7 DEF kept, left

(* The levels popScope takes away. *)
Levels(c, n) == IF n > Len(c.frames) THEN Len(c.frames) ELSE n

(* popScope, iteration by iteration. *)
LEMMA PoppedTurns ==
    ASSUME NEW c \in Context, NEW n \in Nat
    PROVE  /\ Levels(c, n) \in Nat
           /\ \E h : /\ h[0] = c
                     /\ \A k \in 1 .. Levels(c, n) : h[k] = PoppedOne(h[k - 1])
                     /\ \A k \in 0 .. Levels(c, n) :
                            h[k] \in Context /\ Len(h[k].frames) = Len(c.frames) - k
                     /\ Popped(c, n) = h[Levels(c, n)]
<1> DEFINE m == Levels(c, n)
           T(f) == f = [k \in 0 .. m |-> IF k = 0 THEN c ELSE PoppedOne(f[k - 1])]
           S == [k \in 0 .. m |-> {d \in Context : Len(d.frames) = Len(c.frames) - k}]
           g == [p \in (1 .. m) \X Context |-> PoppedOne(p[2])]
           h == CHOOSE f : T(f)
<1>1. m \in Nat /\ m <= Len(c.frames) /\ Len(c.frames) \in Nat
  BY DEF Levels, Context
<1>2. Popped(c, n) = h[m]
  BY DEF Popped, Levels
<1> HIDE DEF m
<1>3. ASSUME NEW k \in 1 .. m, NEW d \in S[k - 1]
      PROVE  PoppedOne(d) \in S[k] /\ g[<<k, d>>] = PoppedOne(d)
  <2>1. k \in 0 .. m /\ k - 1 \in 0 .. m /\ k - 1 < Len(c.frames) /\ k \in Nat
    BY <1>1
  <2>2. d \in Context /\ Len(d.frames) = Len(c.frames) - (k - 1)
    BY <2>1
  <2>3. d.frames # << >>
    BY <2>1, <2>2, <1>1
  <2>4. PoppedOne(d) \in Context /\ Len(PoppedOne(d).frames) = Len(d.frames) - 1
    BY <2>2, <2>3, PoppedOneFields
  <2>5. Len(PoppedOne(d).frames) = Len(c.frames) - k
    BY <2>1, <2>2, <2>4, <1>1
  <2> QED BY <2>1, <2>2, <2>4, <2>5
<1>4. c \in S[0]
  BY <1>1
<1>5. PICK f : Turns(f, m, c, g) /\ Throughout(f, m, S)
  <2> HIDE DEF S, g
  <2>1. Leads(g, m, S)
    BY <1>3 DEF Leads
  <2> QED BY <1>1, <1>4, <2>1, TurnsExist
<1>6. T([k \in 0 .. m |-> f[k]])
  <2>1. \A k \in 0 .. m : k # 0 => k \in 1 .. m /\ k - 1 \in 0 .. m
    BY <1>1
  <2>2. \A k \in 0 .. m : f[k] = IF k = 0 THEN c ELSE PoppedOne(f[k - 1])
    <3> HIDE DEF g, S
    <3> QED BY <2>1, <1>3, <1>5 DEF Turns, Throughout
  <2> QED BY <2>1, <2>2
<1>7. T(h)
  <2> HIDE DEF T
  <2> QED BY <1>6
<1> HIDE DEF h
<1>8. h[0] = c /\ \A k \in 1 .. m : h[k] = PoppedOne(h[k - 1])
  BY <1>7, <1>1
<1>9. Throughout(h, m, S)
  <2> HIDE DEF S
  <2>1. \A k \in 1 .. m : h[k - 1] \in S[k - 1] => h[k] \in S[k]
    BY <1>3, <1>8
  <2> QED BY <1>1, <1>4, <1>8, <2>1, TurnsKeep
<1>10. \A k \in 0 .. m : h[k] \in Context /\ Len(h[k].frames) = Len(c.frames) - k
  BY <1>9 DEF Throughout
<1>11. \A k \in 0 .. Levels(c, n) : h[k] \in Context /\ Len(h[k].frames) = Len(c.frames) - k
  BY <1>10 DEF m
<1>12. h[0] = c /\ \A k \in 1 .. Levels(c, n) : h[k] = PoppedOne(h[k - 1])
  BY <1>8 DEF m
<1> QED BY <1>1, <1>2, <1>11, <1>12 DEF m

(* A verdict is one of checkSat's results, and an assertion that comes after *)
(* the one that decided does not change it.                                  *)
LEMMA VerdictType ==
    ASSUME NEW s \in Seq(Term \cup {NULL})
    PROVE  Verdict(s) \in {"unknown", "sat", "unsat", "error"}
BY DEF Verdict

LEMMA VerdictStays ==
    ASSUME NEW s \in Seq(Term \cup {NULL}), NEW t \in Term \cup {NULL},
           Verdict(s) \in {"unsat", "error"}
    PROVE  Verdict(Append(s, t)) = Verdict(s)
<1> DEFINE Open(r) == {i \in DOMAIN r : r[i] # "true"}
           First(r, i) == i \in Open(r) /\ \A j \in Open(r) : i <= j
           long == Append(s, t)
<1>1. /\ DOMAIN s = 1 .. Len(s) /\ DOMAIN long = 1 .. Len(s) + 1 /\ Len(s) \in Nat
      /\ \A i \in 1 .. Len(s) : long[i] = s[i]
  OBVIOUS
<1>2. Open(s) # {}
  BY DEF Verdict
<1>3. PICK i \in Open(s) : \A j \in Open(s) : i <= j
  <2>1. Open(s) \in SUBSET Nat
    BY <1>1
  <2> HIDE DEF Open
  <2> QED BY <1>2, <2>1, LeastNat
<1> HIDE DEF long
<1>4. First(s, i) /\ i \in 1 .. Len(s)
  BY <1>1, <1>3
<1>5. First(long, i)
  BY <1>1, <1>3
<1>6. \A j : (First(s, j) => j = i) /\ (First(long, j) => j = i)
  BY <1>1, <1>4, <1>5
<1>7. (CHOOSE j : First(s, j)) = i /\ (CHOOSE j : First(long, j)) = i
  <2> HIDE DEF First
  <2> QED BY <1>4, <1>5, <1>6
<1>8. /\ (CHOOSE j \in Open(s) : \A k \in Open(s) : j <= k) = i
      /\ (CHOOSE j \in Open(long) : \A k \in Open(long) : j <= k) = i
  BY <1>7, Zenon
<1>9. Open(s) # {} /\ Open(long) # {} /\ long[i] = s[i]
  BY <1>1, <1>2, <1>4, <1>5
<1> QED BY <1>8, <1>9, Zenon DEF Verdict, long

(* What CachedRefutes says of one state of the parser. *)
Refuted(c) ==
    (c.result \in {"unsat", "error"} /\ ~c.removed) => Verdict(c.assertions) = c.result

LEMMA FreshFields == Fresh \in Context /\ Fresh.result = "unknown"
BY EmptySeq DEF Fresh, Context

LEMMA PushedFields ==
    ASSUME NEW c \in Context, NEW n \in Nat
    PROVE  /\ Pushed(c, n) \in Context
           /\ Pushed(c, n).assertions = c.assertions
           /\ Pushed(c, n).frames = c.frames \o [i \in 1 .. n |-> Len(c.assertions)]
           /\ Pushed(c, n).result = c.result /\ Pushed(c, n).removed = c.removed
<1> DEFINE deeper == c.frames \o [i \in 1 .. n |-> Len(c.assertions)]
<1>1. deeper \in Seq(Nat)
  <2>1. c.frames \in Seq(Nat) /\ Len(c.assertions) \in Nat
    BY DEF Context
  <2>2. [i \in 1 .. n |-> Len(c.assertions)] \in Seq(Nat)
    BY <2>1
  <2> QED BY <2>1, <2>2
<1>2. Pushed(c, n) = [c EXCEPT !.frames = deeper]
  BY DEF Pushed
<1> HIDE DEF deeper
<1>3. /\ Pushed(c, n) \in Context
      /\ Pushed(c, n).assertions = c.assertions /\ Pushed(c, n).frames = deeper
      /\ Pushed(c, n).result = c.result /\ Pushed(c, n).removed = c.removed
  BY <1>1, <1>2 DEF Context
<1> QED BY <1>3 DEF deeper

LEMMA AssertedFields ==
    ASSUME NEW c \in Context, NEW t \in Term \cup {NULL}
    PROVE  /\ Asserted(c, t) \in Context
           /\ Asserted(c, t).assertions = Append(c.assertions, t)
           /\ Asserted(c, t).frames = c.frames
           /\ Asserted(c, t).result = c.result /\ Asserted(c, t).removed = c.removed
<1> DEFINE longer == Append(c.assertions, t)
<1>1. longer \in Seq(Term \cup {NULL})
  BY DEF Context
<1>2. Asserted(c, t) = [c EXCEPT !.assertions = longer]
  BY DEF Asserted
<1> HIDE DEF longer
<1>3. /\ Asserted(c, t) \in Context
      /\ Asserted(c, t).assertions = longer /\ Asserted(c, t).frames = c.frames
      /\ Asserted(c, t).result = c.result /\ Asserted(c, t).removed = c.removed
  BY <1>1, <1>2 DEF Context
<1> QED BY <1>3 DEF longer

LEMMA ClearedFields ==
    ASSUME NEW c \in Context
    PROVE  /\ Cleared(c) \in Context
           /\ Cleared(c).assertions = << >> /\ Cleared(c).frames = c.frames
           /\ Cleared(c).removed
BY EmptySeq DEF Cleared, Context

(* Popping takes assertions out unless it pops no level at all. *)
LEMMA PoppedType ==
    ASSUME NEW c \in Context, NEW n \in Nat
    PROVE  Popped(c, n) \in Context /\ (Refuted(c) => Refuted(Popped(c, n)))
<1> DEFINE m == Levels(c, n)
<1>1. PICK h : /\ h[0] = c
               /\ \A k \in 1 .. m : h[k] = PoppedOne(h[k - 1])
               /\ \A k \in 0 .. m : h[k] \in Context /\ Len(h[k].frames) = Len(c.frames) - k
               /\ Popped(c, n) = h[m]
  BY PoppedTurns
<1>2. m \in Nat /\ m <= Len(c.frames) /\ Len(c.frames) \in Nat
  BY DEF Levels, Context
<1> HIDE DEF m
<1>3. Popped(c, n) \in Context
  BY <1>1, <1>2
<1>4. CASE m = 0
  BY <1>1, <1>3, <1>4
<1>5. CASE m # 0
  <2>1. m \in 1 .. m /\ m - 1 \in 0 .. m /\ Len(c.frames) - (m - 1) > 0
    BY <1>2, <1>5
  <2>2. h[m - 1] \in Context /\ h[m - 1].frames # << >>
    BY <1>1, <2>1
  <2>3. Popped(c, n).removed
    BY <1>1, <2>1, <2>2, PoppedOneFields
  <2> QED BY <1>3, <2>3 DEF Refuted
<1> QED BY <1>4, <1>5

(* Every command leaves a context, and a kept verdict right if it was. *)
LEMMA EffectType ==
    ASSUME NEW c \in Context, NEW cmd \in Commands
    PROVE  Effect(c, cmd) \in Context /\ (Refuted(c) => Refuted(Effect(c, cmd)))
<1>1. cmd.term \in Term \cup {NULL} /\ cmd.n \in Nat
  BY DEF Commands
<1>2. CASE cmd.op \in {"assert", "assert-bad-keyword"}
  <2>1. Effect(c, cmd) = Asserted(c, cmd.term)
    BY <1>2 DEF Effect
  <2>2. c.assertions \in Seq(Term \cup {NULL})
    BY DEF Context
  <2>3. /\ Effect(c, cmd) \in Context
        /\ Effect(c, cmd).assertions = Append(c.assertions, cmd.term)
        /\ Effect(c, cmd).result = c.result /\ Effect(c, cmd).removed = c.removed
    BY <1>1, <2>1, AssertedFields
  <2>4. Verdict(c.assertions) \in {"unsat", "error"} =>
            Verdict(Append(c.assertions, cmd.term)) = Verdict(c.assertions)
    BY <1>1, <2>2, VerdictStays
  <2> QED BY <2>3, <2>4 DEF Refuted
<1>3. CASE cmd.op = "push"
  BY <1>1, <1>3, PushedFields DEF Effect, Refuted
<1>4. CASE cmd.op = "pop"
  BY <1>1, <1>4, PoppedType DEF Effect
<1>5. CASE cmd.op = "reset-assertions"
  BY <1>5, ClearedFields DEF Effect, Refuted
<1>6. CASE cmd.op = "reset"
  BY <1>6, FreshFields DEF Effect, Refuted, ResetAll
<1>7. CASE cmd.op \notin {"assert", "assert-bad-keyword", "push", "pop", "reset-assertions", "reset"}
  BY <1>7 DEF Effect
<1> QED BY <1>2, <1>3, <1>4, <1>5, <1>6, <1>7

(* The commands of a text, one after the other. *)
LEMMA EffectsTurns ==
    ASSUME NEW c \in Context, NEW cmds \in Seq(Commands)
    PROVE  \E h : /\ h[0] = c
                  /\ \A k \in 1 .. Len(cmds) : h[k] = Effect(h[k - 1], cmds[k])
                  /\ \A k \in 0 .. Len(cmds) : h[k] \in Context
                  /\ Effects(c, cmds) = h[Len(cmds)]
<1> DEFINE m == Len(cmds)
           T(f) == f = [k \in 0 .. m |-> IF k = 0 THEN c ELSE Effect(f[k - 1], cmds[k])]
           S == [k \in 0 .. m |-> Context]
           g == [p \in (1 .. m) \X Context |-> Effect(p[2], cmds[p[1]])]
           h == CHOOSE f : T(f)
<1>1. m \in Nat
  OBVIOUS
<1>2. Effects(c, cmds) = h[m]
  BY DEF Effects
<1>3. \A k \in 1 .. m : cmds[k] \in Commands
  OBVIOUS
<1> HIDE DEF m
<1>4. \A k \in 0 .. m : S[k] = Context
  OBVIOUS
<1>5. ASSUME NEW k \in 1 .. m, NEW d \in Context
      PROVE  Effect(d, cmds[k]) \in Context /\ g[<<k, d>>] = Effect(d, cmds[k])
  BY <1>3, EffectType
<1>6. PICK f : Turns(f, m, c, g) /\ Throughout(f, m, S)
  <2>1. c \in S[0]
    BY <1>1, <1>4
  <2> HIDE DEF S, g
  <2>2. ASSUME NEW k \in 1 .. m, NEW d \in S[k - 1] PROVE g[<<k, d>>] \in S[k]
    <3>1. k \in 0 .. m /\ k - 1 \in 0 .. m
      BY <1>1
    <3>2. S[k - 1] = Context /\ S[k] = Context
      BY <1>4, <3>1
    <3>3. g[<<k, d>>] = Effect(d, cmds[k]) /\ Effect(d, cmds[k]) \in Context
      BY <1>5, <3>2
    <3> QED BY <3>2, <3>3
  <2>3. Leads(g, m, S)
    BY <2>2 DEF Leads
  <2> QED BY <1>1, <2>1, <2>3, TurnsExist
<1>7. T([k \in 0 .. m |-> f[k]])
  <2>1. \A k \in 0 .. m : k # 0 => k \in 1 .. m /\ k - 1 \in 0 .. m
    BY <1>1
  <2>2. \A k \in 0 .. m : f[k] = IF k = 0 THEN c ELSE Effect(f[k - 1], cmds[k])
    <3> HIDE DEF g, S
    <3> QED BY <2>1, <1>4, <1>5, <1>6 DEF Turns, Throughout
  <2> QED BY <2>1, <2>2
<1>8. T(h)
  <2> HIDE DEF T
  <2> QED BY <1>7
<1> HIDE DEF h
<1>9. h[0] = c /\ \A k \in 1 .. m : h[k] = Effect(h[k - 1], cmds[k])
  BY <1>8, <1>1
<1>10. Throughout(h, m, S)
  <2>1. h[0] \in S[0]
    BY <1>1, <1>4, <1>9
  <2>2. ASSUME NEW k \in 1 .. m, h[k - 1] \in S[k - 1] PROVE h[k] \in S[k]
    <3>1. k \in 0 .. m /\ k - 1 \in 0 .. m
      BY <1>1
    <3>2. h[k - 1] \in Context /\ h[k] = Effect(h[k - 1], cmds[k])
      BY <1>4, <1>9, <2>2, <3>1
    <3>3. h[k] \in Context
      BY <1>5, <3>2
    <3> QED BY <1>4, <3>1, <3>3
  <2> HIDE DEF S
  <2> QED BY <1>1, <2>1, <2>2, TurnsKeep
<1>11. \A k \in 0 .. m : h[k] \in Context
  BY <1>4, <1>10 DEF Throughout
<1> QED BY <1>2, <1>9, <1>11 DEF m

LEMMA EffectsType ==
    ASSUME NEW c \in Context, NEW cmds \in Seq(Commands)
    PROVE  Effects(c, cmds) \in Context /\ (Refuted(c) => Refuted(Effects(c, cmds)))
<1>1. PICK h : /\ h[0] = c
               /\ \A k \in 1 .. Len(cmds) : h[k] = Effect(h[k - 1], cmds[k])
               /\ \A k \in 0 .. Len(cmds) : h[k] \in Context
               /\ Effects(c, cmds) = h[Len(cmds)]
  BY EffectsTurns
<1> DEFINE m == Len(cmds)
           Good == {k \in 0 .. m : Refuted(c) => Refuted(h[k])}
<1>2. m \in Nat /\ \A k \in 1 .. m : cmds[k] \in Commands /\ k - 1 \in 0 .. m
  OBVIOUS
<1>3. 0 \in Good
  BY <1>1, <1>2
<1>4. ASSUME NEW k \in 1 .. m, k - 1 \in Good PROVE k \in Good
  <2>1. h[k - 1] \in Context /\ h[k] = Effect(h[k - 1], cmds[k])
    BY <1>1, <1>2
  <2> QED BY <1>2, <1>4, <2>1, EffectType
<1>5. \A k \in 0 .. m : k \in Good
  <2> HIDE DEF Good, m
  <2> QED BY <1>2, <1>3, <1>4, CountUp
<1> QED BY <1>1, <1>2, <1>5

(* Whatever goes through the same turns ends where the commands end. *)
LEMMA EffectsAre ==
    ASSUME NEW c \in Context, NEW cmds \in Seq(Commands), NEW h, h[0] = c,
           \A k \in 1 .. Len(cmds) : h[k] = Effect(h[k - 1], cmds[k])
    PROVE  Effects(c, cmds) = h[Len(cmds)]
<1>1. PICK f : /\ f[0] = c
               /\ \A k \in 1 .. Len(cmds) : f[k] = Effect(f[k - 1], cmds[k])
               /\ Effects(c, cmds) = f[Len(cmds)]
  BY EffectsTurns
<1> DEFINE m == Len(cmds)
           Good == {k \in 0 .. m : f[k] = h[k]}
<1>2. m \in Nat
  OBVIOUS
<1>3. 0 \in Good
  BY <1>1, <1>2
<1>4. ASSUME NEW k \in 1 .. m, k - 1 \in Good PROVE k \in Good
  <2>1. f[k] = Effect(f[k - 1], cmds[k]) /\ h[k] = Effect(h[k - 1], cmds[k])
    BY <1>1
  <2>2. f[k - 1] = h[k - 1] /\ k \in 0 .. m
    BY <1>4
  <2> QED BY <2>1, <2>2
<1>5. \A k \in 0 .. m : k \in Good
  <2> HIDE DEF Good, m
  <2> QED BY <1>2, <1>3, <1>4, CountUp
<1> QED BY <1>1, <1>2, <1>5

LEMMA EffectsEmpty == ASSUME NEW c \in Context PROVE Effects(c, << >>) = c
<1> DEFINE h == [k \in {0} |-> c]
           none == << >>
<1>1. none \in Seq(Commands) /\ h[0] = c /\ Len(none) = 0
  BY EmptySeq
<1>2. \A k \in 1 .. Len(none) : h[k] = Effect(h[k - 1], none[k])
  BY <1>1
<1> HIDE DEF none, h
<1>3. Effects(c, none) = h[Len(none)]
  BY <1>1, <1>2, EffectsAre
<1> QED BY <1>1, <1>3 DEF none

(* Commands given in two goes. *)
LEMMA EffectsConcat ==
    ASSUME NEW c \in Context, NEW s \in Seq(Commands), NEW t \in Seq(Commands)
    PROVE  Effects(c, s \o t) = Effects(Effects(c, s), t)
<1>1. PICK f : /\ f[0] = c
               /\ \A k \in 1 .. Len(s) : f[k] = Effect(f[k - 1], s[k])
               /\ \A k \in 0 .. Len(s) : f[k] \in Context
               /\ Effects(c, s) = f[Len(s)]
  BY EffectsTurns
<1>2. Effects(c, s) \in Context
  BY EffectsType
<1>3. PICK g : /\ g[0] = Effects(c, s)
               /\ \A k \in 1 .. Len(t) : g[k] = Effect(g[k - 1], t[k])
               /\ Effects(Effects(c, s), t) = g[Len(t)]
  BY <1>2, EffectsTurns
<1> DEFINE n == Len(s)
           m == Len(t)
           all == s \o t
           h == [k \in 0 .. n + m |-> IF k <= n THEN f[k] ELSE g[k - n]]
<1>4. /\ n \in Nat /\ m \in Nat /\ all \in Seq(Commands) /\ Len(all) = n + m
      /\ \A k \in 1 .. n : all[k] = s[k]
      /\ \A k \in 1 .. m : all[n + k] = t[k]
  OBVIOUS
<1>5. f[n] = g[0]
  BY <1>1, <1>3
<1> HIDE DEF all
<1>6. h[0] = c
  BY <1>1, <1>4
<1>7. ASSUME NEW k \in 1 .. n + m PROVE h[k] = Effect(h[k - 1], all[k])
  <2>1. CASE k <= n
    <3>1. k \in 1 .. n /\ k - 1 \in 0 .. n + m /\ k \in 0 .. n + m /\ k - 1 <= n
      BY <1>4, <2>1
    <3>2. h[k] = f[k] /\ h[k - 1] = f[k - 1] /\ all[k] = s[k]
      BY <1>4, <3>1
    <3> QED BY <1>1, <3>1, <3>2
  <2>2. CASE k = n + 1
    <3>1. 1 \in 1 .. m /\ n \in 0 .. n + m /\ k \in 0 .. n + m /\ k - 1 = n /\ ~ (k <= n) /\ k - n = 1
      BY <1>4, <2>2
    <3>2. h[k] = g[1] /\ h[k - 1] = g[0] /\ all[k] = t[1]
      BY <1>4, <1>5, <2>2, <3>1
    <3>3. g[1] = Effect(g[0], t[1])
      BY <1>3, <3>1
    <3> QED BY <3>2, <3>3
  <2>3. CASE k > n + 1
    <3> DEFINE i == k - n
    <3>1. /\ i \in 1 .. m /\ k - 1 \in 0 .. n + m /\ k \in 0 .. n + m
          /\ ~ (k <= n) /\ ~ (k - 1 <= n) /\ (k - 1) - n = i - 1 /\ k = n + i
      BY <1>4, <2>3
    <3>2. h[k] = g[i] /\ h[k - 1] = g[i - 1]
      BY <3>1
    <3>3. all[k] = t[i]
      BY <1>4, <3>1
    <3>4. g[i] = Effect(g[i - 1], t[i])
      <4> HIDE DEF i
      <4> QED BY <1>3, <3>1
    <3> QED BY <3>2, <3>3, <3>4
  <2> QED BY <1>4, <2>1, <2>2, <2>3
<1>8. h[n + m] = g[m]
  BY <1>4, <1>5
<1>9. Effects(c, all) = h[n + m]
  <2> HIDE DEF h, n, m
  <2> QED BY <1>4, <1>6, <1>7, EffectsAre
<1> QED BY <1>3, <1>8, <1>9 DEF all

LEMMA EffectsAppend ==
    ASSUME NEW c \in Context, NEW s \in Seq(Commands), NEW cmd \in Commands
    PROVE  Effects(c, Append(s, cmd)) = Effect(Effects(c, s), cmd)
<1> DEFINE d == Effects(c, s)
           h == [k \in 0 .. 1 |-> IF k = 0 THEN d ELSE Effect(d, cmd)]
           one == <<cmd>>
<1>1. one \in Seq(Commands) /\ Len(one) = 1 /\ one[1] = cmd /\ Append(s, cmd) = s \o one
  OBVIOUS
<1>2. d \in Context
  BY EffectsType
<1>3. h[0] = d /\ h[1] = Effect(d, cmd)
  OBVIOUS
<1> HIDE DEF one, h
<1>4. \A k \in 1 .. Len(one) : h[k] = Effect(h[k - 1], one[k])
  BY <1>1, <1>3
<1>5. Effects(d, one) = h[1]
  <2> HIDE DEF d
  <2> QED BY <1>1, <1>2, <1>3, <1>4, EffectsAre
<1>6. Effects(c, s \o one) = Effects(d, one)
  BY <1>1, EffectsConcat
<1> QED BY <1>1, <1>3, <1>5, <1>6
-----------------------------------------------------------------------------
(* Texts *)

LEMMA LastRunBound ==
    ASSUME NEW cmds \in Seq(Commands)
    PROVE  /\ LastRun(cmds) \in 0 .. Len(cmds)
           /\ \A i \in DOMAIN cmds : i < LastRun(cmds) => ~Throws(cmds[i])
<1> DEFINE stops == {i \in DOMAIN cmds : Throws(cmds[i]) \/ cmds[i].op = "exit"}
<1>1. DOMAIN cmds = 1 .. Len(cmds) /\ Len(cmds) \in Nat
  OBVIOUS
<1>2. CASE stops = {}
  <2>1. LastRun(cmds) = Len(cmds)
    BY <1>2 DEF LastRun
  <2> QED BY <1>1, <1>2, <2>1
<1>3. CASE stops # {}
  <2>1. \E i \in stops : \A j \in stops : i <= j
    <3>1. stops \in SUBSET Nat
      BY <1>1
    <3> HIDE DEF stops
    <3> QED BY <1>3, <3>1, LeastNat
  <2>2. LastRun(cmds) = CHOOSE i \in stops : \A j \in stops : i <= j
    BY <1>3 DEF LastRun
  <2>3. LastRun(cmds) \in stops /\ \A j \in stops : LastRun(cmds) <= j
    <3> HIDE DEF stops
    <3> QED BY <2>1, <2>2
  <2> QED BY <1>1, <2>3
<1> QED BY <1>2, <1>3

(* What is read to its end is what ran, but for a last command that threw. *)
LEMMA CompletedRan ==
    ASSUME NEW cmds \in Seq(Commands)
    PROVE  \E m \in 0 .. Len(cmds) :
               /\ Completed(cmds) = SubSeq(cmds, 1, m)
               /\ \/ m = LastRun(cmds)
                  \/ m + 1 = LastRun(cmds) /\ Throws(cmds[m + 1])
<1> DEFINE last == LastRun(cmds)
           m == IF last > 0 /\ Throws(cmds[last]) THEN last - 1 ELSE last
<1>1. last \in 0 .. Len(cmds) /\ Len(cmds) \in Nat
  BY LastRunBound
<1>2. Completed(cmds) = SubSeq(cmds, 1, m)
  BY DEF Completed
<1> HIDE DEF last
<1>3. CASE last > 0 /\ Throws(cmds[last])
  <2>1. m = last - 1 /\ m \in 0 .. Len(cmds) /\ m + 1 = last
    BY <1>1, <1>3
  <2> QED BY <1>2, <1>3, <2>1 DEF last
<1>4. CASE ~ (last > 0 /\ Throws(cmds[last]))
  <2>1. m = last
    BY <1>4
  <2> QED BY <1>1, <1>2, <2>1 DEF last
<1> QED BY <1>3, <1>4

(* A beginning of a text is a text. *)
LEMMA PrefixOfText ==
    ASSUME NEW cmds \in Seq(Commands), NEW m \in 0 .. Len(cmds)
    PROVE  /\ SubSeq(cmds, 1, m) \in Seq(Commands) /\ Len(SubSeq(cmds, 1, m)) = m
           /\ \A i \in 1 .. m : SubSeq(cmds, 1, m)[i] = cmds[i]
OBVIOUS

EntrySet == [command : Commands, index : Nat]

(* The log entries of k commands read: each has the number of its command in *)
(* the text, and all are there when everything is logged.                    *)
EntriesOf(s, cmds, k, all) ==
    /\ s \in Seq(EntrySet)
    /\ \A i \in 1 .. Len(s) : s[i].index < k /\ s[i].command = cmds[s[i].index + 1]
    /\ all => Len(s) = k /\ \A i \in 1 .. k : s[i].command = cmds[i]

LEMMA EntriesAppend ==
    ASSUME NEW cmds \in Seq(Commands), NEW k \in 1 .. Len(cmds), NEW all \in BOOLEAN, NEW s,
           EntriesOf(s, cmds, k - 1, all)
    PROVE  /\ EntriesOf(Append(s, Entry(cmds[k], k - 1)), cmds, k, all)
           /\ ~all => EntriesOf(s, cmds, k, all)
<1> DEFINE e == Entry(cmds[k], k - 1)
           r == Append(s, e)
<1>1. cmds[k] \in Commands /\ k \in Nat \ {0} /\ k - 1 \in Nat /\ (k - 1) + 1 = k
  OBVIOUS
<1>2. e \in EntrySet /\ e.command = cmds[k] /\ e.index = k - 1
  BY <1>1 DEF Entry, EntrySet
<1>3. s \in Seq(EntrySet) /\ \A i \in 1 .. Len(s) : s[i].index \in Nat
  <2>1. s \in Seq(EntrySet)
    BY DEF EntriesOf
  <2>2. \A i \in 1 .. Len(s) : s[i] \in EntrySet
    BY <2>1
  <2> QED BY <2>1, <2>2 DEF EntrySet
<1> HIDE DEF e
<1>4. /\ r \in Seq(EntrySet) /\ Len(r) = Len(s) + 1 /\ Len(s) \in Nat
      /\ \A i \in 1 .. Len(s) : r[i] = s[i]
      /\ r[Len(s) + 1] = e
  BY <1>2, <1>3
<1> HIDE DEF r
<1>5. \A i \in 1 .. Len(r) : r[i].index < k /\ r[i].command = cmds[r[i].index + 1]
  <2> SUFFICES ASSUME NEW i \in 1 .. Len(r)
               PROVE  r[i].index < k /\ r[i].command = cmds[r[i].index + 1]
    OBVIOUS
  <2>1. CASE i \in 1 .. Len(s)
    BY SMTT(20), <1>1, <1>3, <1>4, <2>1 DEF EntriesOf
  <2>2. CASE i = Len(s) + 1
    BY <1>1, <1>2, <1>4, <2>2
  <2> QED BY <1>4, <2>1, <2>2
<1>6. all => Len(r) = k /\ \A i \in 1 .. k : r[i].command = cmds[i]
  <2> SUFFICES ASSUME all PROVE Len(r) = k /\ \A i \in 1 .. k : r[i].command = cmds[i]
    OBVIOUS
  <2>1. Len(s) = k - 1 /\ \A i \in 1 .. k - 1 : s[i].command = cmds[i]
    BY DEF EntriesOf
  <2>2. \A i \in 1 .. k : i \in 1 .. k - 1 \/ i = k
    BY <1>1
  <2>3. Len(r) = k /\ r[k] = e
    BY <1>1, <1>4, <2>1
  <2> QED BY <1>2, <1>4, <2>1, <2>2, <2>3
<1>7. EntriesOf(r, cmds, k, all)
  BY <1>4, <1>5, <1>6 DEF EntriesOf
<1>8. ~all => EntriesOf(s, cmds, k, all)
  BY <1>1, <1>3 DEF EntriesOf
<1> QED BY <1>7, <1>8 DEF r, e

LEMMA EntriesLocate ==
    ASSUME NEW cmds \in Seq(Commands), logging \in BOOLEAN
    PROVE  EntriesOf(Entries(cmds), cmds, Len(cmds), logging)
<1> DEFINE m == Len(cmds)
           next(s, k) == IF logging \/ IsResponse(cmds[k])
                         THEN Append(s, Entry(cmds[k], k - 1)) ELSE s
           T(f) == f = [k \in 0 .. m |->
                          IF k = 0 THEN << >>
                          ELSE IF logging \/ IsResponse(cmds[k])
                               THEN Append(f[k - 1], Entry(cmds[k], k - 1))
                          ELSE f[k - 1]]
           S == [k \in 0 .. m |-> {s \in Seq(EntrySet) : EntriesOf(s, cmds, k, logging)}]
           g == [p \in (1 .. m) \X Seq(EntrySet) |-> next(p[2], p[1])]
           h == CHOOSE f : T(f)
<1>1. m \in Nat /\ \A k \in 1 .. m : k \in 0 .. m /\ k - 1 \in 0 .. m
  OBVIOUS
<1>2. Entries(cmds) = h[m]
  BY DEF Entries
<1>3. << >> \in S[0]
  BY <1>1, EmptySeq DEF EntriesOf
<1>4. ASSUME NEW k \in 1 .. m, NEW s \in S[k - 1]
      PROVE  next(s, k) \in S[k] /\ g[<<k, s>>] = next(s, k)
  <2>1. s \in Seq(EntrySet) /\ EntriesOf(s, cmds, k - 1, logging)
    BY <1>1
  <2>2. EntriesOf(next(s, k), cmds, k, logging)
    <3>1. CASE logging \/ IsResponse(cmds[k])
      BY <2>1, <3>1, EntriesAppend
    <3>2. CASE ~ (logging \/ IsResponse(cmds[k]))
      BY <2>1, <3>2, EntriesAppend
    <3> QED BY <3>1, <3>2
  <2>3. next(s, k) \in S[k]
    <3> HIDE DEF next
    <3> QED BY <1>1, <2>2 DEF EntriesOf
  <2>4. g[<<k, s>>] = next(s, k)
    <3> HIDE DEF next
    <3> QED BY <2>1
  <2> QED BY <2>3, <2>4
<1> HIDE DEF m
<1>5. PICK f : Turns(f, m, << >>, g) /\ Throughout(f, m, S)
  <2> HIDE DEF S, g, next
  <2>1. Leads(g, m, S)
    BY <1>4 DEF Leads
  <2> QED BY <1>1, <1>3, <2>1, TurnsExist
<1>6. \A k \in 1 .. m : f[k] = next(f[k - 1], k)
  <2> HIDE DEF S, g, next
  <2> QED BY <1>1, <1>4, <1>5 DEF Turns, Throughout
<1>7. T([k \in 0 .. m |-> f[k]])
  <2>1. \A k \in 0 .. m : k # 0 => k \in 1 .. m /\ k - 1 \in 0 .. m
    BY <1>1
  <2>2. f[0] = << >>
    BY <1>5 DEF Turns
  <2> HIDE DEF g, S
  <2> QED BY <1>6, <2>1, <2>2
<1>8. T(h)
  <2> HIDE DEF T
  <2> QED BY <1>7
<1> HIDE DEF h
<1>9. h[0] = << >> /\ \A k \in 1 .. m : h[k] = next(h[k - 1], k)
  <2>1. \A k \in 0 .. m : h[k] = IF k = 0 THEN << >> ELSE next(h[k - 1], k)
    BY <1>8, Zenon
  <2>2. 0 \in 0 .. m /\ \A k \in 1 .. m : k \in 0 .. m /\ k # 0
    BY <1>1
  <2> HIDE DEF T, next
  <2> QED BY <2>1, <2>2
<1>10. Throughout(h, m, S)
  <2> HIDE DEF S, g, next
  <2>1. h[0] \in S[0]
    BY <1>3, <1>9
  <2>2. \A k \in 1 .. m : h[k - 1] \in S[k - 1] => h[k] \in S[k]
    BY <1>4, <1>9
  <2> QED BY <1>1, <2>1, <2>2, TurnsKeep
<1>11. EntriesOf(h[m], cmds, m, logging)
  BY <1>1, <1>10 DEF Throughout
<1> QED BY <1>2, <1>11 DEF m
-----------------------------------------------------------------------------
(* Steps *)

(* Next for other texts than Texts. *)
StepOn(texts) ==
    \/ \E cmds \in texts : ParseStr(cmds) \/ LoadStr(cmds)
    \/ Reading
    \/ \E left \in {<< >>, <<Close>>} : ReadAside(left)
    \/ \E t \in Term : AssertNode(t) \/ AssertText(t)
    \/ Calls
    \/ \E b \in BOOLEAN : SetCommandLogging(b)

LEMMA CommandTypes ==
    /\ \A op \in Op : Plain(op) \in Commands
    /\ \A n \in Nat : Push(n) \in Commands /\ Pop(n) \in Commands
    /\ Close \in Commands
<1>1. ASSUME NEW op \in Op, NEW n \in Nat PROVE Command(op, NULL, n) \in Commands
  BY DEF Command, Commands
<1>2. "push" \in Op /\ "pop" \in Op /\ "close" \in Op /\ 0 \in Nat
  BY DEF Op
<1> QED BY <1>1, <1>2 DEF Plain, Push, Pop, Close

(* What a throw leaves unread of the command. *)
LEMMA UnreadType ==
    ASSUME NEW cmd
    PROVE  Unread(cmd) \in Seq(Commands)
<1>1. Push(1) \in Commands /\ Close \in Commands
  BY CommandTypes
<1>2. <<Push(1), Close>> \in Seq(Commands) /\ <<Close>> \in Seq(Commands)
  BY <1>1
<1> QED BY <1>2 DEF Unread

LEMMA EntryType == EntrySet = [command : Commands, index : Nat]
BY DEF EntrySet

(* A longer log keeps its type and what since says of it. *)
LEMMA LogGrows ==
    ASSUME NEW s \in Seq(EntrySet), NEW n \in 0 .. Len(s), NEW cmd \in Commands, NEW i \in Nat
    PROVE  /\ Append(s, Entry(cmd, i)) \in Seq(EntrySet)
           /\ Len(Append(s, Entry(cmd, i))) = Len(s) + 1
           /\ n \in 0 .. Len(Append(s, Entry(cmd, i)))
<1>1. Entry(cmd, i) \in EntrySet
  BY DEF Entry, EntrySet
<1> QED BY <1>1

(* A logged call keeps the log's type. *)
LEMMA CallLogged ==
    ASSUME TypeOK, NEW cmd \in Commands, LoggedCall(cmd)
    PROVE  script' \in Seq(EntrySet) /\ since \in 0 .. Len(script')
<1>1. script \in Seq(EntrySet) /\ since \in 0 .. Len(script)
  BY DEF TypeOK, EntrySet
<1>2. CASE logging
  <2>1. script' = Append(script, Entry(cmd, 0))
    BY <1>2 DEF LoggedCall
  <2> QED BY <1>1, <2>1, LogGrows
<1>3. CASE ~logging
  BY <1>1, <1>3 DEF LoggedCall
<1> QED BY <1>2, <1>3

(* The state keeps its type and its verdict in every step. *)
LEMMA StepType ==
    ASSUME TypeOK, Refuted(ctx), NEW texts \in SUBSET Seq(Commands), StepOn(texts)
    PROVE  TypeOK' /\ Refuted(ctx)'
<1>1. /\ ctx \in Context /\ logging \in BOOLEAN
      /\ text \in Seq(Commands) /\ source \in Seq(Commands)
      /\ script \in Seq(EntrySet) /\ index \in Nat /\ since \in 0 .. Len(script)
  BY DEF TypeOK, EntrySet
<1> DEFINE Good == /\ ctx' \in Context /\ Refuted(ctx') /\ logging' \in BOOLEAN
                   /\ text' \in Seq(Commands) /\ source' \in Seq(Commands)
                   /\ script' \in Seq(EntrySet) /\ index' \in Nat
                   /\ since' \in 0 .. Len(script')
<1>2. SUFFICES Good
  <2>1. Good => TypeOK'
    BY DEF TypeOK, EntrySet
  <2>2. Good => Refuted(ctx)'
    BY DEF Refuted
  <2> QED BY <2>1, <2>2
<1> USE DEF sessionVars
<1>3. ASSUME NEW cmds \in texts, ParseStr(cmds) PROVE Good
  <2>1. cmds \in Seq(Commands)
    OBVIOUS
  <2>2. PICK m \in 0 .. Len(cmds) : Completed(cmds) = SubSeq(cmds, 1, m)
    BY <2>1, CompletedRan
  <2>3. Completed(cmds) \in Seq(Commands) /\ Len(Completed(cmds)) \in Nat
    BY <2>1, <2>2, PrefixOfText
  <2>4. Entries(Completed(cmds)) \in Seq(EntrySet)
    BY <1>1, <2>3, EntriesLocate DEF EntriesOf
  <2>5. SubSeq(cmds, 1, LastRun(cmds)) \in Seq(Commands)
    BY <2>1, LastRunBound, PrefixOfText
  <2>6. ctx' \in Context /\ Refuted(ctx')
    BY <1>1, <1>3, <2>5, EffectsType DEF ParseStr
  <2>7. script' \in Seq(EntrySet) /\ since' \in 0 .. Len(script')
    <3> DEFINE new == Entries(Completed(cmds))
    <3>1. script' = script \o new /\ since' = Len(script)
      BY <1>3 DEF ParseStr
    <3> HIDE DEF new
    <3>2. new \in Seq(EntrySet)
      BY <2>4 DEF new
    <3> QED BY <1>1, <3>1, <3>2
  <2> QED BY <1>1, <1>3, <2>1, <2>3, <2>6, <2>7, EmptySeq DEF ParseStr
<1>4. ASSUME NEW cmds \in texts, LoadStr(cmds) PROVE Good
  <2>1. Len(script) \in 0 .. Len(script)
    BY <1>1
  <2> QED BY <1>1, <1>4, <2>1 DEF LoadStr
<1>5. CASE NextCommand
  <2>1. Head(text) \in Commands /\ Tail(text) \in Seq(Commands)
    BY <1>1, <1>5 DEF NextCommand
  <2>2. ctx' \in Context /\ Refuted(ctx')
    BY <1>1, <1>5, <2>1, EffectType DEF NextCommand
  <2>3. script' \in Seq(EntrySet) /\ since' \in 0 .. Len(script')
    <3>1. \/ script' = Append(script, Entry(Head(text), index))
          \/ script' = script
      BY <1>5 DEF NextCommand, Logged
    <3>2. since' = since
      BY <1>5 DEF NextCommand
    <3> QED BY <1>1, <2>1, <3>1, <3>2, LogGrows
  <2>4. index' = index + 1 /\ text' = Tail(text)
    BY <1>5 DEF NextCommand, Logged
  <2> QED BY <1>1, <1>5, <2>1, <2>2, <2>3, <2>4 DEF NextCommand
<1>6. CASE NextCommandThrows
  <2>1. Head(text) \in Commands /\ Tail(text) \in Seq(Commands)
    BY <1>1, <1>6 DEF NextCommandThrows
  <2>2. Unread(Head(text)) \o Tail(text) \in Seq(Commands)
    BY <2>1, UnreadType
  <2>3. ctx' \in Context /\ Refuted(ctx')
    BY <1>1, <1>6, <2>1, EffectType DEF NextCommandThrows
  <2> QED BY <1>1, <1>6, <2>2, <2>3 DEF NextCommandThrows
<1>7. ASSUME NEW left \in {<< >>, <<Close>>}, ReadAside(left) PROVE Good
  <2>1. left \in Seq(Commands)
    <3>1. <<Close>> \in Seq(Commands) /\ << >> \in Seq(Commands)
      <4>1. Close \in Commands
        BY CommandTypes
      <4> QED BY <4>1, EmptySeq
    <3> QED BY <3>1
  <2> QED BY <1>1, <1>7, <2>1 DEF ReadAside
<1>8. ASSUME NEW t \in Term, AssertNode(t) \/ AssertText(t) PROVE Good
  <2>1. ctx' = Asserted(ctx, t)
    BY <1>8 DEF AssertNode, AssertText
  <2>2. ctx' \in Context /\ Refuted(ctx')
    <3>1. ctx.assertions \in Seq(Term \cup {NULL})
      BY <1>1 DEF Context
    <3>2. /\ ctx' \in Context /\ ctx'.assertions = Append(ctx.assertions, t)
          /\ ctx'.result = ctx.result /\ ctx'.removed = ctx.removed
      BY <1>1, <2>1, AssertedFields
    <3>3. Verdict(ctx.assertions) \in {"unsat", "error"} =>
              Verdict(Append(ctx.assertions, t)) = Verdict(ctx.assertions)
      BY <3>1, VerdictStays
    <3> QED BY <3>2, <3>3 DEF Refuted
  <2>3. text' = text \/ text' = << >>
    BY <1>8 DEF AssertNode, AssertText
  <2> QED BY <1>1, <1>8, <2>2, <2>3, EmptySeq DEF AssertNode, AssertText
<1>9. ASSUME NEW n \in 1 .. 2, CallPush(n) PROVE Good
  <2>1. n \in Nat /\ Push(n) \in Commands
    BY CommandTypes
  <2>2. ctx' \in Context /\ Refuted(ctx')
    BY <1>1, <1>9, <2>1, PushedFields DEF CallPush, Refuted
  <2>3. script' \in Seq(EntrySet) /\ since' \in 0 .. Len(script')
    BY <1>9, <2>1, CallLogged DEF CallPush
  <2> QED BY <1>1, <1>9, <2>2, <2>3 DEF CallPush
<1>10. ASSUME NEW n \in 1 .. 2, CallPop(n) PROVE Good
  <2>1. n \in Nat /\ Pop(n) \in Commands
    BY CommandTypes
  <2>2. ctx' \in Context /\ Refuted(ctx')
    BY <1>1, <1>10, <2>1, PoppedType DEF CallPop
  <2>3. script' \in Seq(EntrySet) /\ since' \in 0 .. Len(script')
    BY <1>10, <2>1, CallLogged DEF CallPop
  <2> QED BY <1>1, <1>10, <2>2, <2>3 DEF CallPop
<1>11. CASE CallResetAssertions
  <2>1. ctx' \in Context /\ Refuted(ctx')
    BY <1>1, <1>11, ClearedFields DEF CallResetAssertions, Refuted
  <2>2. script' \in Seq(EntrySet) /\ since' \in 0 .. Len(script')
    <3>1. "reset-assertions" \in Op
      BY DEF Op
    <3>2. Plain("reset-assertions") \in Commands
      BY <3>1, CommandTypes
    <3> QED BY <1>11, <3>2, CallLogged DEF CallResetAssertions
  <2> QED BY <1>1, <1>11, <2>1, <2>2 DEF CallResetAssertions
<1>12. CASE CallReset
  <2>1. ctx' \in Context /\ Refuted(ctx')
    BY <1>1, <1>12, FreshFields DEF CallReset, ResetAll, Refuted
  <2>2. script' \in Seq(EntrySet) /\ since' \in 0 .. Len(script')
    <3>1. "reset" \in Op
      BY DEF Op
    <3>2. Plain("reset") \in Commands
      BY <3>1, CommandTypes
    <3> QED BY <1>12, <3>2, CallLogged DEF CallReset
  <2> QED BY <1>1, <1>12, <2>1, <2>2 DEF CallReset
<1>13. CASE CheckSat
  <2>1. ctx' \in Context /\ Refuted(ctx')
    <3> DEFINE v == Verdict(ctx.assertions)
    <3>1. v \in {"unknown", "sat", "unsat", "error"}
      BY <1>1, VerdictType DEF Context
    <3>2. \/ ctx' = ctx
          \/ ctx' = [ctx EXCEPT !.result = v, !.removed = FALSE]
      BY <1>13 DEF CheckSat
    <3>3. v = Verdict(ctx.assertions)
      OBVIOUS
    <3> HIDE DEF v
    <3>4. \/ ctx' = ctx
          \/ ctx' \in Context /\ ctx'.assertions = ctx.assertions /\ ctx'.result = v
      BY <1>1, <3>1, <3>2 DEF Context
    <3> QED BY <1>1, <3>3, <3>4 DEF Refuted
  <2> QED BY <1>1, <1>13, <2>1 DEF CheckSat
<1>14. ASSUME NEW b \in BOOLEAN, SetCommandLogging(b) PROVE Good
  BY <1>1, <1>14 DEF SetCommandLogging
<1> QED
  BY <1>3, <1>4, <1>5, <1>6, <1>7, <1>8, <1>9, <1>10, <1>11, <1>12, <1>13, <1>14
  DEF StepOn, Reading, Calls

(* The state a session starts in, whatever else it fixes. *)
LEMMA InitType == Init => TypeOK /\ Refuted(ctx)
BY FreshFields, EmptySeq DEF Init, TypeOK, Refuted

(* The inductive invariant of a session of any texts and any length. *)
LEMMA SessionInvariant == Spec => [](TypeOK /\ Refuted(ctx))
<1>1. TypeOK /\ Refuted(ctx) /\ [Next]_sessionVars => TypeOK' /\ Refuted(ctx)'
  <2> SUFFICES ASSUME TypeOK, Refuted(ctx), [Next]_sessionVars PROVE TypeOK' /\ Refuted(ctx)'
    OBVIOUS
  <2>1. CASE Next
    <3>1. Texts \in SUBSET Seq(Commands)
      BY TextsAssumption
    <3>2. StepOn(Texts)
      BY <2>1 DEF Next, StepOn
    <3> QED BY <3>1, <3>2, StepType
  <2>2. CASE UNCHANGED sessionVars
    BY <2>2 DEF sessionVars, TypeOK, Refuted
  <2> QED BY <2>1, <2>2
<1> QED BY <1>1, InitType, PTL DEF Spec

(* Type correctness of such a session. *)
THEOREM TypeCorrect == Spec => []TypeOK
BY SessionInvariant, PTL

(* checkSat returns a kept "unsat" or "error" without a look at the          *)
(* assertions.  Whatever texts and calls come between, it is right as long   *)
(* as no assertion was taken out: the assertion that decided is still there, *)
(* and still is the first that is not true.                                  *)
THEOREM KeptVerdictHolds == Spec => []CachedRefutes
<1>1. Refuted(ctx) => CachedRefutes
  BY DEF Refuted, CachedRefutes
<1> QED BY <1>1, SessionInvariant, PTL
-----------------------------------------------------------------------------
(* Replaying *)

(* What LogReplays compares. *)
Same(c, d) == c.assertions = d.assertions /\ c.frames = d.frames

LEMMA PoppedSame ==
    ASSUME NEW c \in Context, NEW d \in Context, Same(c, d), NEW n \in Nat
    PROVE  Same(Popped(c, n), Popped(d, n))
<1> DEFINE m == Levels(c, n)
<1>1. Levels(d, n) = m /\ m \in Nat /\ m <= Len(c.frames) /\ Len(c.frames) \in Nat
      /\ Len(d.frames) = Len(c.frames)
  BY DEF Levels, Same, Context
<1>2. PICK f : /\ f[0] = c
               /\ \A k \in 1 .. m : f[k] = PoppedOne(f[k - 1])
               /\ \A k \in 0 .. m : f[k] \in Context /\ Len(f[k].frames) = Len(c.frames) - k
               /\ Popped(c, n) = f[m]
  BY PoppedTurns
<1>3. PICK g : /\ g[0] = d
               /\ \A k \in 1 .. Levels(d, n) : g[k] = PoppedOne(g[k - 1])
               /\ \A k \in 0 .. Levels(d, n) :
                      g[k] \in Context /\ Len(g[k].frames) = Len(d.frames) - k
               /\ Popped(d, n) = g[Levels(d, n)]
  BY PoppedTurns
<1> HIDE DEF m
<1>4. /\ g[0] = d
      /\ \A k \in 1 .. m : g[k] = PoppedOne(g[k - 1])
      /\ \A k \in 0 .. m : g[k] \in Context /\ Len(g[k].frames) = Len(d.frames) - k
      /\ Popped(d, n) = g[m]
  BY <1>1, <1>3
<1> DEFINE Good == {k \in 0 .. m : Same(f[k], g[k])}
<1>5. 0 \in Good
  BY <1>1, <1>2, <1>4
<1>6. ASSUME NEW k \in 1 .. m, k - 1 \in Good PROVE k \in Good
  <2> DEFINE x == f[k - 1]
             y == g[k - 1]
  <2>1. k - 1 \in 0 .. m /\ k \in 0 .. m /\ Len(c.frames) - (k - 1) > 0
    BY <1>1
  <2>2. x \in Context /\ x.frames # << >> /\ f[k] = PoppedOne(x)
    BY <1>2, <2>1
  <2>3. y \in Context /\ y.frames # << >> /\ g[k] = PoppedOne(y)
    BY <1>1, <1>4, <2>1
  <2>4. Same(x, y)
    BY <1>6
  <2> HIDE DEF x, y
  <2>5. Same(PoppedOne(x), PoppedOne(y))
    BY <2>2, <2>3, <2>4, PoppedOneFields DEF Same
  <2> QED BY <2>1, <2>2, <2>3, <2>5
<1>7. \A k \in 0 .. m : k \in Good
  <2> HIDE DEF Good
  <2> QED BY <1>1, <1>5, <1>6, CountUp
<1>8. m \in 0 .. m
  BY <1>1
<1> QED BY <1>2, <1>4, <1>7, <1>8

(* A command does not look at the cached verdict. *)
LEMMA EffectSame ==
    ASSUME NEW c \in Context, NEW d \in Context, Same(c, d), NEW cmd \in Commands
    PROVE  Same(Effect(c, cmd), Effect(d, cmd))
<1>1. cmd.term \in Term \cup {NULL} /\ cmd.n \in Nat
  BY DEF Commands
<1>2. CASE cmd.op \in {"assert", "assert-bad-keyword"}
  <2>1. Effect(c, cmd) = Asserted(c, cmd.term) /\ Effect(d, cmd) = Asserted(d, cmd.term)
    BY <1>2 DEF Effect
  <2>2. /\ Asserted(c, cmd.term).assertions = Append(c.assertions, cmd.term)
        /\ Asserted(d, cmd.term).assertions = Append(d.assertions, cmd.term)
        /\ Asserted(c, cmd.term).frames = c.frames
        /\ Asserted(d, cmd.term).frames = d.frames
    BY <1>1, AssertedFields
  <2> QED BY <2>1, <2>2 DEF Same
<1>3. CASE cmd.op = "push"
  <2> DEFINE added(s) == [i \in 1 .. cmd.n |-> Len(s)]
  <2>1. Effect(c, cmd) = Pushed(c, cmd.n) /\ Effect(d, cmd) = Pushed(d, cmd.n)
    BY <1>3 DEF Effect
  <2>2. /\ Pushed(c, cmd.n).assertions = c.assertions
        /\ Pushed(c, cmd.n).frames = c.frames \o added(c.assertions)
        /\ Pushed(d, cmd.n).assertions = d.assertions
        /\ Pushed(d, cmd.n).frames = d.frames \o added(d.assertions)
    BY <1>1, PushedFields
  <2> HIDE DEF added
  <2> QED BY <2>1, <2>2 DEF Same
<1>4. CASE cmd.op = "pop"
  BY <1>1, <1>4, PoppedSame DEF Effect
<1>5. CASE cmd.op = "reset-assertions"
  BY <1>5, ClearedFields DEF Effect, Same
<1>6. CASE cmd.op = "reset"
  BY <1>6 DEF Effect, ResetAll, Same
<1>7. CASE cmd.op \notin {"assert", "assert-bad-keyword", "push", "pop", "reset-assertions", "reset"}
  BY <1>7 DEF Effect
<1> QED BY <1>2, <1>3, <1>4, <1>5, <1>6, <1>7

LEMMA EffectsSame ==
    ASSUME NEW c \in Context, NEW d \in Context, Same(c, d), NEW cmds \in Seq(Commands)
    PROVE  Same(Effects(c, cmds), Effects(d, cmds))
<1>1. PICK f : /\ f[0] = c
               /\ \A k \in 1 .. Len(cmds) : f[k] = Effect(f[k - 1], cmds[k])
               /\ \A k \in 0 .. Len(cmds) : f[k] \in Context
               /\ Effects(c, cmds) = f[Len(cmds)]
  BY EffectsTurns
<1>2. PICK g : /\ g[0] = d
               /\ \A k \in 1 .. Len(cmds) : g[k] = Effect(g[k - 1], cmds[k])
               /\ \A k \in 0 .. Len(cmds) : g[k] \in Context
               /\ Effects(d, cmds) = g[Len(cmds)]
  BY EffectsTurns
<1> DEFINE m == Len(cmds)
           Good == {k \in 0 .. m : Same(f[k], g[k])}
<1>3. m \in Nat /\ \A k \in 1 .. m : cmds[k] \in Commands /\ k - 1 \in 0 .. m
  OBVIOUS
<1>4. 0 \in Good
  BY <1>1, <1>2, <1>3
<1>5. ASSUME NEW k \in 1 .. m, k - 1 \in Good PROVE k \in Good
  <2>1. f[k - 1] \in Context /\ f[k] = Effect(f[k - 1], cmds[k])
    BY <1>1, <1>3
  <2>2. g[k - 1] \in Context /\ g[k] = Effect(g[k - 1], cmds[k])
    BY <1>2, <1>3
  <2>3. Same(f[k], g[k])
    BY <1>3, <1>5, <2>1, <2>2, EffectSame
  <2> QED BY <1>3, <2>3
<1>6. \A k \in 0 .. m : k \in Good
  <2> HIDE DEF Good, m
  <2> QED BY <1>3, <1>4, <1>5, CountUp
<1> QED BY <1>1, <1>2, <1>3, <1>6

(* The commands of a log. *)
CommandsOf(s) == [i \in DOMAIN s |-> s[i].command]

LEMMA CommandsOfType ==
    ASSUME NEW s \in Seq(EntrySet)
    PROVE  /\ CommandsOf(s) \in Seq(Commands) /\ Len(CommandsOf(s)) = Len(s)
           /\ \A i \in 1 .. Len(s) : CommandsOf(s)[i] = s[i].command
<1>1. \A i \in 1 .. Len(s) : s[i].command \in Commands
  <2>1. \A i \in 1 .. Len(s) : s[i] \in EntrySet
    OBVIOUS
  <2> QED BY <2>1 DEF EntrySet
<1>2. DOMAIN s = 1 .. Len(s) /\ Len(s) \in Nat
  OBVIOUS
<1>3. CommandsOf(s) = [i \in 1 .. Len(s) |-> s[i].command]
  BY <1>2 DEF CommandsOf
<1> QED BY <1>1, <1>2, <1>3

LEMMA CommandsOfConcat ==
    ASSUME NEW s \in Seq(EntrySet), NEW r \in Seq(EntrySet)
    PROVE  CommandsOf(s \o r) = CommandsOf(s) \o CommandsOf(r)
<1> DEFINE all == s \o r
           p == CommandsOf(s)
           q == CommandsOf(r)
           x == CommandsOf(all)
           y == p \o q
<1>1. /\ all \in Seq(EntrySet) /\ Len(all) = Len(s) + Len(r)
      /\ \A i \in 1 .. Len(s) : all[i] = s[i]
      /\ \A i \in 1 .. Len(r) : all[Len(s) + i] = r[i]
      /\ Len(s) \in Nat /\ Len(r) \in Nat
  OBVIOUS
<1> HIDE DEF all
<1>2. x \in Seq(Commands) /\ Len(x) = Len(s) + Len(r)
      /\ \A i \in 1 .. Len(s) + Len(r) : x[i] = all[i].command
  BY <1>1, CommandsOfType
<1>3. /\ p \in Seq(Commands) /\ Len(p) = Len(s)
      /\ q \in Seq(Commands) /\ Len(q) = Len(r)
      /\ \A i \in 1 .. Len(s) : p[i] = s[i].command
      /\ \A i \in 1 .. Len(r) : q[i] = r[i].command
  BY CommandsOfType
<1> HIDE DEF p, q
<1>4. /\ y \in Seq(Commands) /\ Len(y) = Len(s) + Len(r)
      /\ \A i \in 1 .. Len(s) : y[i] = s[i].command
      /\ \A i \in 1 .. Len(r) : y[Len(s) + i] = r[i].command
  <2>1. p \in Seq(Commands) /\ q \in Seq(Commands)
    BY <1>3
  <2>2. /\ y \in Seq(Commands) /\ Len(y) = Len(p) + Len(q)
        /\ \A i \in 1 .. Len(p) : y[i] = p[i]
        /\ \A i \in 1 .. Len(q) : y[Len(p) + i] = q[i]
    BY <2>1
  <2> HIDE DEF y
  <2> QED BY <1>3, <2>2
<1> HIDE DEF x, y
<1>5. ASSUME NEW i \in 1 .. Len(s) + Len(r) PROVE x[i] = y[i]
  <2>1. CASE i <= Len(s)
    BY SMTT(20), <1>1, <1>2, <1>4, <2>1
  <2>2. CASE i > Len(s)
    <3> DEFINE j == i - Len(s)
    <3>1. j \in 1 .. Len(r) /\ i = Len(s) + j
      BY <1>1, <2>2
    <3> HIDE DEF j
    <3> QED BY <1>1, <1>2, <1>4, <3>1
  <2> QED BY <1>1, <2>1, <2>2
<1>6. x = y
  BY <1>2, <1>4, <1>5
<1> QED BY <1>6 DEF x, y, p, q, all

LEMMA CommandsOfAppend ==
    ASSUME NEW s \in Seq(EntrySet), NEW cmd \in Commands, NEW i \in Nat
    PROVE  CommandsOf(Append(s, Entry(cmd, i))) = Append(CommandsOf(s), cmd)
<1> DEFINE e == Entry(cmd, i)
           r == <<e>>
<1>1. e \in EntrySet /\ e.command = cmd
  BY DEF Entry, EntrySet
<1> HIDE DEF e
<1>2. r \in Seq(EntrySet) /\ Len(r) = 1 /\ r[1] = e /\ Append(s, e) = s \o r
  BY <1>1
<1> HIDE DEF r
<1> DEFINE x == CommandsOf(s)
           y == CommandsOf(r)
<1>3. y \in Seq(Commands) /\ Len(y) = 1 /\ y[1] = cmd
  BY <1>1, <1>2, CommandsOfType
<1>4. x \in Seq(Commands)
  BY CommandsOfType
<1>5. CommandsOf(s \o r) = x \o y
  BY <1>2, CommandsOfConcat
<1> HIDE DEF x, y
<1>6. x \o y = Append(x, cmd)
  <2>1. y = <<cmd>>
    BY <1>3
  <2>2. x \o <<cmd>> = Append(x, cmd)
    BY <1>4
  <2> QED BY <2>1, <2>2
<1> QED BY <1>2, <1>5, <1>6 DEF x, e

(* The log of c's commands, with one command more, replays to its effect. *)
LEMMA ReplayAppend ==
    ASSUME NEW c \in Context, NEW s \in Seq(EntrySet), NEW cmd \in Commands, NEW i \in Nat,
           Same(Effects(Fresh, CommandsOf(s)), c)
    PROVE  Same(Effects(Fresh, CommandsOf(Append(s, Entry(cmd, i)))), Effect(c, cmd))
<1>1. CommandsOf(s) \in Seq(Commands) /\ Fresh \in Context
  BY CommandsOfType, FreshFields
<1>2. Effects(Fresh, CommandsOf(s)) \in Context
  BY <1>1, EffectsType
<1>3. Same(Effect(Effects(Fresh, CommandsOf(s)), cmd), Effect(c, cmd))
  BY <1>2, EffectSame
<1>4. CommandsOf(Append(s, Entry(cmd, i))) = Append(CommandsOf(s), cmd)
  BY CommandsOfAppend
<1>5. Effects(Fresh, Append(CommandsOf(s), cmd)) = Effect(Effects(Fresh, CommandsOf(s)), cmd)
  BY <1>1, EffectsAppend
<1> QED BY <1>3, <1>4, <1>5

(* The same for the commands of a text that is logged to the last. *)
LEMMA ReplayConcat ==
    ASSUME NEW c \in Context, NEW s \in Seq(EntrySet), NEW cmds \in Seq(Commands), NEW r,
           EntriesOf(r, cmds, Len(cmds), TRUE),
           Same(Effects(Fresh, CommandsOf(s)), c)
    PROVE  Same(Effects(Fresh, CommandsOf(s \o r)), Effects(c, cmds))
<1>1. CommandsOf(s) \in Seq(Commands) /\ Fresh \in Context
  BY CommandsOfType, FreshFields
<1>2. Effects(Fresh, CommandsOf(s)) \in Context
  BY <1>1, EffectsType
<1>3. Same(Effects(Effects(Fresh, CommandsOf(s)), cmds), Effects(c, cmds))
  BY <1>2, EffectsSame
<1>4. /\ r \in Seq(EntrySet) /\ Len(r) = Len(cmds)
      /\ \A i \in 1 .. Len(cmds) : r[i].command = cmds[i]
  BY DEF EntriesOf
<1>5. CommandsOf(r) = cmds
  <2>1. /\ CommandsOf(r) \in Seq(Commands) /\ Len(CommandsOf(r)) = Len(cmds)
        /\ \A i \in 1 .. Len(cmds) : CommandsOf(r)[i] = cmds[i]
    BY <1>4, CommandsOfType
  <2> DEFINE x == CommandsOf(r)
  <2> HIDE DEF x
  <2>2. x = cmds
    BY <2>1 DEF x
  <2> QED BY <2>2 DEF x
<1>6. CommandsOf(s \o r) = CommandsOf(s) \o cmds
  BY <1>4, <1>5, CommandsOfConcat
<1>7. Effects(Fresh, CommandsOf(s) \o cmds) = Effects(Effects(Fresh, CommandsOf(s)), cmds)
  BY <1>1, EffectsConcat
<1> QED BY <1>3, <1>6, <1>7

(* A command that throws before it took effect need not be in the log. *)
LEMMA RanIsCompleted ==
    ASSUME NEW c \in Context, NEW cmds \in Seq(Commands),
           \A i \in DOMAIN cmds : cmds[i].op # "assert-bad-keyword"
    PROVE  /\ Completed(cmds) \in Seq(Commands)
           /\ Effects(c, SubSeq(cmds, 1, LastRun(cmds))) = Effects(c, Completed(cmds))
<1>1. PICK m \in 0 .. Len(cmds) :
          /\ Completed(cmds) = SubSeq(cmds, 1, m)
          /\ \/ m = LastRun(cmds)
             \/ m + 1 = LastRun(cmds) /\ Throws(cmds[m + 1])
  BY CompletedRan
<1>2. Completed(cmds) \in Seq(Commands)
  BY <1>1, PrefixOfText
<1>3. CASE m = LastRun(cmds)
  BY <1>1, <1>2, <1>3
<1>4. CASE m + 1 = LastRun(cmds) /\ Throws(cmds[m + 1])
  <2>1. m + 1 \in 1 .. Len(cmds) /\ m + 1 \in DOMAIN cmds
    BY <1>4, LastRunBound
  <2>2. cmds[m + 1] \in Commands /\ cmds[m + 1].op \in {"unknown", "close"}
    BY <1>4, <2>1 DEF Throws
  <2>3. SubSeq(cmds, 1, m + 1) = Append(SubSeq(cmds, 1, m), cmds[m + 1])
    BY <2>1
  <2> DEFINE read == SubSeq(cmds, 1, m)
             thrown == cmds[m + 1]
  <2>4. Effects(c, Append(read, thrown)) = Effect(Effects(c, read), thrown)
    <3>1. read \in Seq(Commands) /\ thrown \in Commands
      BY <2>2, PrefixOfText
    <3> HIDE DEF read, thrown
    <3> QED BY <3>1, EffectsAppend
  <2>5. \A d : Effect(d, thrown) = d
    BY <2>2 DEF Effect
  <2>6. /\ SubSeq(cmds, 1, LastRun(cmds)) = Append(read, thrown)
        /\ Completed(cmds) = read
    BY <1>1, <1>4, <2>3
  <2> HIDE DEF read, thrown
  <2> QED BY <1>2, <2>4, <2>5, <2>6
<1> QED BY <1>1, <1>3, <1>4
-----------------------------------------------------------------------------
(* Orderly sessions *)

(* What is left to read is the end of the source, from index on. *)
Positioned ==
    /\ \A i \in DOMAIN text : ~Throws(text[i])
    /\ text # << >> => /\ Len(text) + index = Len(source)
                       /\ \A i \in 1 .. Len(text) : text[i] = source[index + i]

Replayed == logging => Same(Effects(Fresh, CommandsOf(script)), ctx)

OrderlyInv == orderly => Positioned /\ Replayed /\ IndexLocates

SessionsInv == TypeOK /\ Refuted(ctx) /\ OrderlyInv

(* An orderly text throws only what did not take effect. *)
LEMMA OrderlyText ==
    ASSUME NEW cmds \in Scripts \cup {<<Plain("unknown")>>}
    PROVE  /\ cmds \in Seq(Commands)
           /\ \A i \in DOMAIN cmds : cmds[i].op # "assert-bad-keyword"
<1>1. CASE cmds \in Scripts
  BY <1>1, ScriptsAssumption DEF Throws
<1>2. CASE cmds = <<Plain("unknown")>>
  <2>1. Plain("unknown") \in Commands
    BY CommandTypes DEF Op
  <2>2. Plain("unknown").op = "unknown"
    BY DEF Plain, Command
  <2> DEFINE one == Plain("unknown")
  <2> HIDE DEF one
  <2>3. <<one>> \in Seq(Commands) /\ \A i \in DOMAIN <<one>> : <<one>>[i] = one
    BY <2>1 DEF one
  <2> QED BY <1>2, <2>2, <2>3 DEF one
<1> QED BY <1>1, <1>2

(* Steps after which the commands read keep their numbers: at most something *)
(* that is no response is put at the end of the log.                         *)
LEMMA LocatesStays ==
    ASSUME IndexLocates, TypeOK, UNCHANGED <<source, since>>, NEW cmd \in Commands, NEW i \in Nat,
           \/ script' = script
           \/ /\ script' = Append(script, Entry(cmd, i))
              /\ IsResponse(cmd) => i + 1 \in DOMAIN source /\ source[i + 1] = cmd
    PROVE  IndexLocates'
<1> SUFFICES ASSUME NEW j \in since + 1 .. Len(script'), IsResponse(script'[j].command)
             PROVE  /\ script'[j].index + 1 \in DOMAIN source
                    /\ source[script'[j].index + 1] = script'[j].command
  BY DEF IndexLocates
<1>1. script \in Seq(EntrySet) /\ since \in 0 .. Len(script) /\ Len(script) \in Nat
  BY DEF TypeOK, EntrySet
<1>2. CASE script' = script
  BY <1>2 DEF IndexLocates
<1>3. CASE /\ script' = Append(script, Entry(cmd, i))
           /\ IsResponse(cmd) => i + 1 \in DOMAIN source /\ source[i + 1] = cmd
  <2> DEFINE e == Entry(cmd, i)
  <2>1. e \in EntrySet /\ e.command = cmd /\ e.index = i
    BY DEF Entry, EntrySet
  <2> HIDE DEF e
  <2>2. script' = Append(script, e)
    BY <1>3 DEF e
  <2>3. /\ Len(script') = Len(script) + 1 /\ script'[Len(script) + 1] = e
        /\ \A k \in 1 .. Len(script) : script'[k] = script[k]
    BY <1>1, <2>1, <2>2
  <2>4. CASE j <= Len(script)
    <3>1. j \in since + 1 .. Len(script) /\ j \in 1 .. Len(script)
      BY <1>1, <2>3, <2>4
    <3>2. script'[j] = script[j]
      BY <2>3, <3>1
    <3> QED BY <3>1, <3>2 DEF IndexLocates
  <2>5. CASE j = Len(script) + 1
    BY <1>3, <2>1, <2>3, <2>5
  <2> QED BY <1>1, <2>3, <2>4, <2>5
<1> QED BY <1>2, <1>3

(* A call that is logged as the command it amounts to. *)
LEMMA CallOrderly ==
    ASSUME TypeOK, Positioned, Replayed, IndexLocates, NEW cmd \in Commands,
           ~IsResponse(cmd), LoggedCall(cmd), ctx' = Effect(ctx, cmd),
           UNCHANGED <<text, source, index, logging, since>>
    PROVE  Positioned' /\ Replayed' /\ IndexLocates'
<1>1. ctx \in Context /\ script \in Seq(EntrySet)
  BY DEF TypeOK, EntrySet
<1>2. \/ ~logging /\ script' = script
      \/ logging /\ script' = Append(script, Entry(cmd, 0))
  BY DEF LoggedCall
<1>3. Positioned'
  BY DEF Positioned
<1>4. Replayed'
  <2> SUFFICES ASSUME logging PROVE Same(Effects(Fresh, CommandsOf(script')), ctx')
    BY DEF Replayed
  <2>1. Same(Effects(Fresh, CommandsOf(script)), ctx)
    BY DEF Replayed
  <2>2. script' = Append(script, Entry(cmd, 0))
    BY <1>2
  <2>3. 0 \in Nat
    OBVIOUS
  <2> QED BY <1>1, <2>1, <2>2, <2>3, ReplayAppend
<1>5. IndexLocates'
  <2>1. 0 \in Nat
    OBVIOUS
  <2> QED BY <1>2, <2>1, LocatesStays
<1> QED BY <1>3, <1>4, <1>5

LEMMA NextCommandOrderly ==
    ASSUME TypeOK, Positioned, Replayed, IndexLocates, NextCommand
    PROVE  Positioned' /\ Replayed' /\ IndexLocates'
<1> DEFINE cmd == Head(text)
<1>1. /\ ctx \in Context /\ script \in Seq(EntrySet) /\ index \in Nat
      /\ text \in Seq(Commands) /\ source \in Seq(Commands)
  BY DEF TypeOK, EntrySet
<1>2. text # << >> /\ Len(text) \in Nat \ {0} /\ cmd = text[1] /\ cmd \in Commands
  BY <1>1 DEF NextCommand
<1>3. /\ Len(text) + index = Len(source)
      /\ \A i \in 1 .. Len(text) : text[i] = source[index + i]
  BY <1>2 DEF Positioned
<1>4. index + 1 \in DOMAIN source /\ source[index + 1] = cmd
  <2>1. 1 \in 1 .. Len(text) /\ index + 1 \in 1 .. Len(source)
    BY <1>1, <1>2, <1>3
  <2> QED BY <1>1, <1>2, <1>3, <2>1
<1>5. /\ ctx' = Effect(ctx, cmd) /\ text' = Tail(text) /\ index' = index + 1
      /\ source' = source /\ logging' = logging /\ since' = since
      /\ script' = IF logging \/ IsResponse(cmd) THEN Append(script, Entry(cmd, index)) ELSE script
  BY DEF NextCommand, Logged
<1>6. /\ Len(text') = Len(text) - 1 /\ text' \in Seq(Commands)
      /\ \A i \in 1 .. Len(text') : text'[i] = text[i + 1] /\ i + 1 \in 1 .. Len(text)
  BY <1>1, <1>2, <1>5
<1> HIDE DEF cmd
<1>7. Positioned'
  <2>1. \A i \in DOMAIN text' : ~Throws(text'[i])
    <3>1. \A i \in 1 .. Len(text) : ~Throws(text[i])
      BY <1>1 DEF Positioned
    <3> QED BY <1>6, <3>1
  <2>2. Len(text') + index' = Len(source')
    BY <1>1, <1>2, <1>3, <1>5, <1>6
  <2>3. \A i \in 1 .. Len(text') : text'[i] = source'[index' + i]
    <3> SUFFICES ASSUME NEW i \in 1 .. Len(text') PROVE text'[i] = source[(index + 1) + i]
      BY <1>5
    <3>1. text'[i] = text[i + 1] /\ i + 1 \in 1 .. Len(text)
      BY <1>6
    <3>2. text[i + 1] = source[index + (i + 1)]
      BY <1>3, <3>1
    <3>3. index + (i + 1) = (index + 1) + i
      BY <1>1
    <3> QED BY <3>1, <3>2, <3>3
  <2> QED BY <2>1, <2>2, <2>3 DEF Positioned
<1>8. Replayed'
  <2> SUFFICES ASSUME logging PROVE Same(Effects(Fresh, CommandsOf(script')), ctx')
    BY <1>5 DEF Replayed
  <2>1. Same(Effects(Fresh, CommandsOf(script)), ctx)
    BY DEF Replayed
  <2>2. script' = Append(script, Entry(cmd, index))
    BY <1>5
  <2> QED BY <1>1, <1>2, <1>5, <2>1, <2>2, ReplayAppend
<1>9. IndexLocates'
  <2>1. \/ script' = script
        \/ script' = Append(script, Entry(cmd, index))
    BY <1>5
  <2> QED BY <1>1, <1>2, <1>4, <1>5, <2>1, LocatesStays
<1> QED BY <1>7, <1>8, <1>9

LEMMA ParseStrOrderly ==
    ASSUME TypeOK, Replayed, NEW cmds \in Scripts \cup {<<Plain("unknown")>>}, ParseStr(cmds)
    PROVE  Positioned' /\ Replayed' /\ IndexLocates'
<1> DEFINE read == Completed(cmds)
           new == Entries(read)
           n == Len(script)
<1>1. /\ ctx \in Context /\ script \in Seq(EntrySet) /\ logging \in BOOLEAN
  BY DEF TypeOK, EntrySet
<1>2. cmds \in Seq(Commands)
  BY OrderlyText
<1>3. PICK m \in 0 .. Len(cmds) : read = SubSeq(cmds, 1, m)
  BY <1>2, CompletedRan
<1>4. /\ read \in Seq(Commands) /\ Len(read) = m /\ m \in Nat
      /\ \A i \in 1 .. m : read[i] = cmds[i]
  BY <1>2, <1>3, PrefixOfText
<1>5. Effects(ctx, SubSeq(cmds, 1, LastRun(cmds))) = Effects(ctx, read)
  BY <1>1, <1>2, OrderlyText, RanIsCompleted
<1>6. EntriesOf(new, read, Len(read), logging)
  BY <1>1, <1>4, EntriesLocate
<1>7. /\ ctx' = Effects(ctx, read) /\ text' = << >> /\ source' = cmds /\ logging' = logging
      /\ script' = script \o new /\ since' = n
  BY <1>5 DEF ParseStr
<1> HIDE DEF read, new
<1>8. Positioned'
  BY <1>7 DEF Positioned
<1>9. Replayed'
  <2> SUFFICES ASSUME logging PROVE Same(Effects(Fresh, CommandsOf(script')), ctx')
    BY <1>7 DEF Replayed
  <2>1. Same(Effects(Fresh, CommandsOf(script)), ctx)
    BY DEF Replayed
  <2>2. EntriesOf(new, read, Len(read), TRUE)
    BY <1>6
  <2> QED BY <1>1, <1>4, <1>7, <2>1, <2>2, ReplayConcat
<1>10. IndexLocates'
  <2> SUFFICES ASSUME NEW j \in n + 1 .. Len(script')
               PROVE  /\ script'[j].index + 1 \in DOMAIN cmds
                      /\ cmds[script'[j].index + 1] = script'[j].command
    BY <1>7 DEF IndexLocates
  <2>1. /\ new \in Seq(EntrySet)
        /\ \A i \in 1 .. Len(new) : new[i].index < Len(read)
                                    /\ new[i].command = read[new[i].index + 1]
    BY <1>6 DEF EntriesOf
  <2>2. n \in Nat /\ Len(new) \in Nat /\ Len(script') = n + Len(new)
        /\ \A i \in 1 .. Len(new) : script'[n + i] = new[i]
    <3> DEFINE s == script \o new
    <3>1. n \in Nat /\ Len(new) \in Nat /\ Len(s) = n + Len(new)
      BY <1>1, <2>1
    <3>2. \A i \in 1 .. Len(new) : s[n + i] = new[i]
      <4> SUFFICES ASSUME NEW i \in 1 .. Len(new) PROVE s[n + i] = new[i]
        OBVIOUS
      <4> QED BY <1>1, <2>1
    <3> HIDE DEF s, n
    <3>3. script' = s
      BY <1>7 DEF s, n
    <3> QED BY <3>1, <3>2, <3>3
  <2> DEFINE i == j - n
  <2>3. i \in 1 .. Len(new) /\ j = n + i
    BY <2>2
  <2> HIDE DEF i, n
  <2>4. script'[j] = new[i]
    BY <2>2, <2>3
  <2>5. new[i].index \in Nat
    <3>1. new[i] \in EntrySet
      BY <2>1, <2>3
    <3> QED BY <3>1 DEF EntrySet
  <2>6. new[i].index + 1 \in 1 .. m
    BY <1>4, <2>1, <2>3, <2>5
  <2>7. new[i].command = cmds[new[i].index + 1]
    BY <1>4, <2>1, <2>3, <2>6
  <2>8. 1 .. m \subseteq DOMAIN cmds
    BY <1>2
  <2> QED BY <2>4, <2>6, <2>7, <2>8
<1> QED BY <1>8, <1>9, <1>10

LEMMA LoadStrOrderly ==
    ASSUME Replayed, TypeOK, NEW cmds \in Scripts, LoadStr(cmds)
    PROVE  Positioned' /\ Replayed' /\ IndexLocates'
<1>1. /\ text' = cmds /\ source' = cmds /\ index' = 0 /\ since' = Len(script)
      /\ ctx' = ctx /\ script' = script /\ logging' = logging
  BY DEF LoadStr
<1>2. cmds \in Seq(Commands) /\ \A i \in DOMAIN cmds : ~Throws(cmds[i])
  BY ScriptsAssumption
<1>3. Positioned'
  <2>1. Len(cmds) + 0 = Len(cmds) /\ \A i \in 1 .. Len(cmds) : cmds[i] = cmds[0 + i]
    BY <1>2
  <2> QED BY <1>1, <1>2, <2>1 DEF Positioned
<1>4. Replayed'
  BY <1>1 DEF Replayed
<1>5. IndexLocates'
  <2>1. script \in Seq(EntrySet)
    BY DEF TypeOK, EntrySet
  <2>2. Len(script) + 1 .. Len(script) = {}
    BY <2>1
  <2> QED BY <1>1, <2>2 DEF IndexLocates
<1> QED BY <1>3, <1>4, <1>5

(* Calls other than those that are logged. *)
LEMMA CheckSatOrderly ==
    ASSUME TypeOK, Positioned, Replayed, IndexLocates, CheckSat
    PROVE  Positioned' /\ Replayed' /\ IndexLocates'
<1>1. ctx \in Context
  BY DEF TypeOK
<1>2. ctx'.assertions = ctx.assertions /\ ctx'.frames = ctx.frames
  BY <1>1 DEF CheckSat, Context
<1>3. UNCHANGED <<text, source, index, script, logging, since>>
  BY DEF CheckSat
<1> QED BY <1>2, <1>3 DEF Positioned, Replayed, Same, IndexLocates

LEMMA CallsOrderly ==
    ASSUME TypeOK, Positioned, Replayed, IndexLocates, Calls
    PROVE  Positioned' /\ Replayed' /\ IndexLocates'
<1>1. ASSUME NEW n \in 1 .. 2, CallPush(n) PROVE Positioned' /\ Replayed' /\ IndexLocates'
  <2> DEFINE cmd == Push(n)
  <2>1. n \in Nat /\ cmd \in Commands /\ ~IsResponse(cmd)
    BY CommandTypes DEF Push, Command, IsResponse
  <2>2. Effect(ctx, cmd) = Pushed(ctx, n)
    BY DEF Effect, Push, Command
  <2>3. /\ LoggedCall(cmd) /\ ctx' = Effect(ctx, cmd)
        /\ UNCHANGED <<text, source, index, logging, since>>
    BY <1>1, <2>2 DEF CallPush
  <2> HIDE DEF cmd
  <2> QED BY <2>1, <2>3, CallOrderly
<1>2. ASSUME NEW n \in 1 .. 2, CallPop(n) PROVE Positioned' /\ Replayed' /\ IndexLocates'
  <2> DEFINE cmd == Pop(n)
  <2>1. n \in Nat /\ cmd \in Commands /\ ~IsResponse(cmd)
    BY CommandTypes DEF Pop, Command, IsResponse
  <2>2. Effect(ctx, cmd) = Popped(ctx, n)
    BY DEF Effect, Pop, Command
  <2>3. /\ LoggedCall(cmd) /\ ctx' = Effect(ctx, cmd)
        /\ UNCHANGED <<text, source, index, logging, since>>
    BY <1>2, <2>2 DEF CallPop
  <2> HIDE DEF cmd
  <2> QED BY <2>1, <2>3, CallOrderly
<1>3. CASE CallResetAssertions
  <2> DEFINE cmd == Plain("reset-assertions")
  <2>1. cmd \in Commands /\ ~IsResponse(cmd)
    BY CommandTypes DEF Op, Plain, Command, IsResponse
  <2>2. Effect(ctx, cmd) = Cleared(ctx)
    BY DEF Effect, Plain, Command
  <2>3. /\ LoggedCall(cmd) /\ ctx' = Effect(ctx, cmd)
        /\ UNCHANGED <<text, source, index, logging, since>>
    BY <1>3, <2>2 DEF CallResetAssertions
  <2> HIDE DEF cmd
  <2> QED BY <2>1, <2>3, CallOrderly
<1>4. CASE CallReset
  <2> DEFINE cmd == Plain("reset")
  <2>1. cmd \in Commands /\ ~IsResponse(cmd)
    BY CommandTypes DEF Op, Plain, Command, IsResponse
  <2>2. Effect(ctx, cmd) = ResetAll(ctx)
    BY DEF Effect, Plain, Command
  <2>3. /\ LoggedCall(cmd) /\ ctx' = Effect(ctx, cmd)
        /\ UNCHANGED <<text, source, index, logging, since>>
    BY <1>4, <2>2 DEF CallReset
  <2> HIDE DEF cmd
  <2> QED BY <2>1, <2>3, CallOrderly
<1>5. CASE CheckSat
  BY <1>5, CheckSatOrderly
<1> QED BY <1>1, <1>2, <1>3, <1>4, <1>5 DEF Calls

(* The inductive invariant of the sessions, free and orderly. *)
LEMMA SessionsInvariant == MCSpec => []SessionsInv
<1> DEFINE vars == <<sessionVars, orderly>>
           Texts2 == Texts \cup Scripts \cup {<<Plain("unknown")>>}
<1>1. MCInit => SessionsInv
  <2> SUFFICES ASSUME MCInit PROVE SessionsInv
    OBVIOUS
  <2>1. TypeOK /\ Refuted(ctx)
    BY InitType DEF MCInit
  <2>2. ctx = Fresh /\ text = << >> /\ script = << >> /\ since = 0
    BY DEF MCInit, Init
  <2>3. Positioned
    BY <2>2 DEF Positioned
  <2>4. IndexLocates
    <3>1. Len(script) = 0 /\ 0 + 1 .. 0 = {}
      BY <2>2
    <3> QED BY <2>2, <3>1 DEF IndexLocates
  <2>5. Replayed
    <3>1. CommandsOf(script) = << >>
      BY <2>2 DEF CommandsOf
    <3>2. Effects(Fresh, << >>) = Fresh
      BY FreshFields, EffectsEmpty
    <3> QED BY <2>2, <3>1, <3>2 DEF Replayed, Same
  <2> QED BY <2>1, <2>3, <2>4, <2>5 DEF SessionsInv, OrderlyInv
<1>2. SessionsInv /\ [MCNext]_vars => SessionsInv'
  <2> SUFFICES ASSUME SessionsInv, [MCNext]_vars PROVE SessionsInv'
    OBVIOUS
  <2>1. TypeOK /\ Refuted(ctx) /\ OrderlyInv
    BY DEF SessionsInv
  <2>2. CASE UNCHANGED vars
    <3>1. UNCHANGED <<ctx, text, source, index, script, logging, since, orderly>>
      BY <2>2 DEF sessionVars
    <3>2. TypeOK' /\ Refuted(ctx)'
      BY <2>1, <3>1 DEF TypeOK, Refuted
    <3>3. OrderlyInv'
      BY <2>1, <3>1 DEF OrderlyInv, Positioned, Replayed, IndexLocates
    <3> QED BY <3>2, <3>3 DEF SessionsInv
  <2>3. CASE MCNext
    <3>1. orderly' = orderly
      BY <2>3 DEF MCNext
    <3>2. \/ Reading
          \/ orderly /\ Orderly
          \/ ~orderly /\ Next
      BY <2>3 DEF MCNext
    <3>3. TypeOK' /\ Refuted(ctx)'
      <4>1. Texts2 \in SUBSET Seq(Commands)
        BY TextsAssumption, OrderlyText
      <4>2. StepOn(Texts2)
        <5>1. CASE Reading
          BY <5>1 DEF StepOn
        <5>2. CASE Orderly
          BY <5>2 DEF StepOn, Orderly
        <5>3. CASE Next
          BY <5>3 DEF StepOn, Next
        <5> QED BY <3>2, <5>1, <5>2, <5>3
      <4> HIDE DEF Texts2
      <4> QED BY <2>1, <4>1, <4>2, StepType
    <3>4. OrderlyInv'
      <4> SUFFICES ASSUME orderly PROVE Positioned' /\ Replayed' /\ IndexLocates'
        BY <3>1 DEF OrderlyInv
      <4>1. Positioned /\ Replayed /\ IndexLocates
        BY <2>1 DEF OrderlyInv
      <4>2. CASE NextCommand
        BY <2>1, <4>1, <4>2, NextCommandOrderly
      <4>3. ~NextCommandThrows
        <5> SUFFICES ASSUME NextCommandThrows PROVE FALSE
          OBVIOUS
        <5>1. text \in Seq(Commands) /\ text # << >> /\ Throws(Head(text))
          BY <2>1 DEF NextCommandThrows, TypeOK
        <5>2. 1 \in DOMAIN text /\ Head(text) = text[1]
          BY <5>1
        <5> QED BY <4>1, <5>1, <5>2 DEF Positioned
      <4>4. ASSUME NEW cmds \in Scripts \cup {<<Plain("unknown")>>}, ParseStr(cmds)
            PROVE  Positioned' /\ Replayed' /\ IndexLocates'
        BY <2>1, <4>1, <4>4, ParseStrOrderly
      <4>5. ASSUME NEW cmds \in Scripts, LoadStr(cmds)
            PROVE  Positioned' /\ Replayed' /\ IndexLocates'
        BY <2>1, <4>1, <4>5, LoadStrOrderly
      <4>6. CASE ReadAside(<< >>)
        BY <4>1, <4>6 DEF ReadAside, Positioned, Replayed, IndexLocates
      <4>7. CASE Calls
        BY <2>1, <4>1, <4>7, CallsOrderly
      <4> QED BY <3>2, <4>2, <4>3, <4>4, <4>5, <4>6, <4>7 DEF Reading, Orderly
    <3> QED BY <3>3, <3>4 DEF SessionsInv
  <2> QED BY <2>2, <2>3
<1> QED BY <1>1, <1>2, PTL DEF MCSpec

(* Whatever scripts an orderly session reads, at one go, command by command  *)
(* or by calls in between, its full log replays to its assertions and        *)
(* scopes: no step is logged that took no effect, and none takes effect that *)
(* is not logged.                                                            *)
THEOREM LogsReplay == MCSpec => []OrderlyLogReplays
<1>1. SessionsInv => OrderlyLogReplays
  BY DEF SessionsInv, OrderlyInv, Replayed, Same, CommandsOf, OrderlyLogReplays, LogReplays
<1> QED BY <1>1, SessionsInvariant, PTL

(* In such a session the number of a logged answer is the position of its    *)
(* command in the source, also where the log leaves commands out.            *)
THEOREM NumbersLocate == MCSpec => []OrderlyIndexLocates
<1>1. SessionsInv => OrderlyIndexLocates
  BY DEF SessionsInv, OrderlyInv, OrderlyIndexLocates
<1> QED BY <1>1, SessionsInvariant, PTL
=============================================================================
