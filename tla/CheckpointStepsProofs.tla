----------------------- MODULE CheckpointStepsProofs -----------------------
(***************************************************************************)
(* What CheckpointSteps promises for histories, undo limits and numbers of *)
(* steps of any size.                                                      *)
(*                                                                         *)
(* What a file opens as, and what a plan reads of it, are recursive        *)
(* functions over its steps.  Each has one solution (AssemblyExists,       *)
(* AssembliesAgree), so a file with one more step opens as one application *)
(* of Take to what the file without it gives (AssembledNext).  A step that *)
(* is planned from what is held of a document makes the next one           *)
(* (PlannedStep, TakeOK): a revision that compares equal is the same with  *)
(* its program, because the ids of a history are given out once (Kin).     *)
(* So every file is clean, or clean but for a last step cut short (Sane),  *)
(* and a plan that exists is one for a clean file.                         *)
(***************************************************************************)
EXTENDS CheckpointSteps, TLAPS, FiniteSetTheorems, WellFoundedInduction

-----------------------------------------------------------------------------
(* Induction over the natural numbers, for sets *)

Below == {p \in Nat \X Nat : p[1] < p[2]}

\* A set of natural numbers that is not empty has a least element.
LEMMA LeastElement ==
    ASSUME NEW T \in SUBSET Nat, T # {}
    PROVE  \E x \in T : \A y \in T : x <= y
<1>1. IsWellFoundedOn(Below, Nat)
  BY NatLessThanWellFounded, Zenon DEF OpToRel, Below
<1>2. \E x \in T : \A y \in T : ~(<<y, x>> \in Below)
  BY <1>1, WFMin, Zenon
<1>3. PICK x \in T : \A y \in T : ~(<<y, x>> \in Below)
  BY <1>2
<1>4. ASSUME NEW y \in T PROVE x <= y
  <2>1. ~(<<y, x>> \in Below) /\ x \in Nat /\ y \in Nat
    BY <1>3
  <2> QED
    BY <2>1 DEF Below
<1> QED
  BY <1>4

\* One that is bounded has a greatest element.
LEMMA GreatestElement ==
    ASSUME NEW n \in Nat, NEW T \in SUBSET (1..n), T # {}
    PROVE  \E x \in T : \A y \in T : x >= y
<1>1. PICK U \in SUBSET Nat : U = {k \in Nat : n - k \in T}
  OBVIOUS
<1>2. PICK t : t \in T
  OBVIOUS
<1>3. n - t \in U
  <2>1. t \in 1..n
    BY <1>2
  <2>2. n - t \in Nat /\ n - (n - t) = t
    BY <2>1
  <2> QED
    BY <1>1, <1>2, <2>2
<1>4. PICK k \in U : \A j \in U : k <= j
  BY <1>3, LeastElement
<1>5. ASSUME NEW y \in T PROVE n - k >= y
  <2>1. y \in 1..n
    OBVIOUS
  <2>2. n - y \in Nat /\ n - (n - y) = y
    BY <2>1
  <2>3. n - y \in U
    BY <1>1, <2>2
  <2>4. k <= n - y
    BY <1>4, <2>3
  <2> QED
    BY <1>1, <2>1, <2>4
<1>6. n - k \in T
  BY <1>1
<1> QED
  BY <1>5, <1>6

\* A set that has 0, and n + 1 whenever it has n, has every natural number.
LEMMA SetInduction ==
    ASSUME NEW S, 0 \in S, \A n \in Nat : n \in S => n + 1 \in S
    PROVE  Nat \subseteq S
<1> SUFFICES ASSUME Nat \ S # {} PROVE FALSE
  OBVIOUS
<1>1. PICK x \in Nat \ S : \A y \in Nat \ S : x <= y
  <2>1. PICK T \in SUBSET Nat : T = Nat \ S
    OBVIOUS
  <2> QED
    BY <2>1, LeastElement
<1>2. x - 1 \in Nat /\ ~(x <= x - 1) /\ (x - 1) + 1 = x
  OBVIOUS
<1> QED
  BY <1>1, <1>2

-----------------------------------------------------------------------------
(* Reading a file *)

\* f is what is assembled of the document d and the steps up to each of the first n.
IsAssembly(f, d, steps, n) ==
    f = [i \in 0..n |-> IF i = 0 THEN Base(d) ELSE Take(f[i - 1], steps[i])]

\* The recursive definition of assemble has a solution.
LEMMA AssemblyExists ==
    ASSUME NEW d, NEW steps, NEW n \in Nat
    PROVE  \E f : IsAssembly(f, d, steps, n)
<1> DEFINE S == {k \in Nat : \E f : IsAssembly(f, d, steps, k)}
<1>1. 0 \in S
  <2>1. IsAssembly([i \in 0..0 |-> Base(d)], d, steps, 0)
    BY DEF IsAssembly
  <2> QED
    BY <2>1
<1>2. ASSUME NEW k \in Nat, k \in S PROVE k + 1 \in S
  <2>1. PICK f : IsAssembly(f, d, steps, k)
    BY <1>2
  <2>2. PICK last : last = Take(f[k], steps[k + 1])
    OBVIOUS
  <2>3. PICK g : g = [i \in 0..(k + 1) |-> IF i = k + 1 THEN last ELSE f[i]]
    OBVIOUS
  <2>4. ASSUME NEW i \in 0..(k + 1)
        PROVE  g[i] = IF i = 0 THEN Base(d) ELSE Take(g[i - 1], steps[i])
    <3>1. CASE i = k + 1
      <4>1. g[i] = last /\ i # 0 /\ i - 1 = k /\ k \in 0..(k + 1) /\ k # k + 1
        BY <2>3, <3>1
      <4>2. g[k] = f[k]
        BY <2>3, <4>1
      <4> QED
        BY <2>2, <4>1, <4>2, <3>1
    <3>2. CASE i # k + 1
      <4>1. i \in 0..k /\ g[i] = f[i]
        BY <2>3, <3>2
      <4>2. i # 0 => g[i - 1] = f[i - 1]
        BY <2>3, <4>1
      <4>3. f[i] = IF i = 0 THEN Base(d) ELSE Take(f[i - 1], steps[i])
        BY <2>1, <4>1 DEF IsAssembly
      <4> QED
        BY <4>1, <4>2, <4>3
    <3> QED
      BY <3>1, <3>2
  <2>5. IsAssembly(g, d, steps, k + 1)
    BY <2>3, <2>4 DEF IsAssembly
  <2> QED
    BY <2>5
<1> HIDE DEF S
<1>3. Nat \subseteq S
  BY <1>1, <1>2, SetInduction
<1>4. n \in S
  BY <1>3
<1> QED
  BY <1>4 DEF S

\* Two solutions agree as far as their steps do.
LEMMA AssembliesAgree ==
    ASSUME NEW d, NEW steps, NEW more, NEW n \in Nat, NEW m \in Nat, n <= m,
           \A i \in 1..n : steps[i] = more[i],
           NEW f, IsAssembly(f, d, steps, n), NEW g, IsAssembly(g, d, more, m)
    PROVE  f[n] = g[n]
<1> DEFINE S == {k \in Nat : k <= n => f[k] = g[k]}
<1>1. 0 \in S
  <2>1. 0 \in 0..n /\ 0 \in 0..m
    OBVIOUS
  <2>2. f[0] = Base(d)
    BY <2>1 DEF IsAssembly
  <2>3. g[0] = Base(d)
    BY <2>1 DEF IsAssembly
  <2> QED
    BY <2>2, <2>3
<1>2. ASSUME NEW k \in Nat, k \in S PROVE k + 1 \in S
  <2> SUFFICES ASSUME k + 1 <= n PROVE f[k + 1] = g[k + 1]
    OBVIOUS
  <2>1. /\ k + 1 \in 0..n /\ k + 1 \in 0..m /\ k + 1 \in 1..n /\ k + 1 # 0
        /\ (k + 1) - 1 = k /\ k <= n
    OBVIOUS
  <2>2. f[k + 1] = Take(f[k], steps[k + 1])
    BY <2>1 DEF IsAssembly
  <2>3. g[k + 1] = Take(g[k], more[k + 1])
    BY <2>1 DEF IsAssembly
  <2>4. f[k] = g[k] /\ steps[k + 1] = more[k + 1]
    BY <1>2, <2>1
  <2> QED
    BY <2>2, <2>3, <2>4
<1> HIDE DEF S
<1>3. Nat \subseteq S
  BY <1>1, <1>2, SetInduction
<1>4. n \in S
  BY <1>3
<1> QED
  BY <1>4 DEF S

\* assemble is its solution.
LEMMA AssembledIs ==
    ASSUME NEW file, NEW n \in Nat, Len(file.steps) = n
    PROVE  \E f : IsAssembly(f, file.payload, file.steps, n) /\ assemble(file) = f[n]
<1>1. \E f : IsAssembly(f, file.payload, file.steps, n)
  BY AssemblyExists
<1>2. PICK f : f = CHOOSE h : IsAssembly(h, file.payload, file.steps, n)
  OBVIOUS
<1>3. IsAssembly(f, file.payload, file.steps, n)
  BY <1>1, <1>2, Zenon
<1>4. assemble(file) = f[n]
  BY <1>2, Zenon DEF assemble, IsAssembly
<1> QED
  BY <1>3, <1>4, Zenon

\* A file with one more step.
Longer(file, s) == [file EXCEPT !.steps = Append(@, s)]

\* A file with one step more: the payload and the steps before are as they were.
LEMMA LongerIs ==
    ASSUME NEW file \in File, NEW s \in Step \cup {Torn}
    PROVE  /\ Longer(file, s) \in File
           /\ Longer(file, s).payload = file.payload /\ Longer(file, s).side = file.side
           /\ Longer(file, s).steps = Append(file.steps, s)
           /\ Len(file.steps) \in Nat /\ Len(Longer(file, s).steps) = Len(file.steps) + 1
           /\ \A i \in 1..Len(file.steps) : Longer(file, s).steps[i] = file.steps[i]
           /\ Longer(file, s).steps[Len(file.steps) + 1] = s
<1>1. file.steps \in Seq(Step \cup {Torn})
  BY DEF File
<1>2. PICK steps \in Seq(Step \cup {Torn}) : steps = file.steps
  BY <1>1
<1>3. PICK all : all = Append(steps, s)
  OBVIOUS
<1>4. /\ all \in Seq(Step \cup {Torn}) /\ Len(steps) \in Nat /\ Len(all) = Len(steps) + 1
      /\ \A i \in 1..Len(steps) : all[i] = steps[i]
      /\ all[Len(steps) + 1] = s
  BY <1>3
<1>5. /\ Longer(file, s) \in File /\ Longer(file, s).payload = file.payload
      /\ Longer(file, s).side = file.side /\ Longer(file, s).steps = all
  BY <1>2, <1>3, <1>4 DEF Longer, File
<1> QED
  BY <1>2, <1>3, <1>4, <1>5

\* Opening reads one step more.
LEMMA AssembledNext ==
    ASSUME NEW file \in File, NEW s \in Step \cup {Torn}
    PROVE  assemble(Longer(file, s)) = Take(assemble(file), s)
<1>1. PICK more : more = Longer(file, s)
  OBVIOUS
<1>2. PICK n \in Nat : n = Len(file.steps)
  BY LongerIs
<1>3. /\ more.payload = file.payload /\ Len(more.steps) = n + 1
      /\ \A i \in 1..n : file.steps[i] = more.steps[i]
      /\ more.steps[n + 1] = s
  BY <1>1, <1>2, LongerIs
<1>4. PICK f : IsAssembly(f, file.payload, file.steps, n) /\ assemble(file) = f[n]
  BY <1>2, AssembledIs
<1>5. PICK g : IsAssembly(g, file.payload, more.steps, n + 1) /\ assemble(more) = g[n + 1]
  BY <1>3, AssembledIs
<1>6. f[n] = g[n]
  BY <1>3, <1>4, <1>5, AssembliesAgree
<1>7. g[n + 1] = Take(g[n], more.steps[n + 1])
  <2>1. n + 1 \in 0..(n + 1) /\ n + 1 # 0 /\ (n + 1) - 1 = n
    OBVIOUS
  <2> QED
    BY <1>5, <2>1 DEF IsAssembly
<1> QED
  BY <1>1, <1>3, <1>4, <1>5, <1>6, <1>7

\* A file without steps opens as its base.
LEMMA AssembledBase ==
    ASSUME NEW file, file.steps = <<>>
    PROVE  assemble(file) = Base(file.payload)
<1>1. PICK f : IsAssembly(f, file.payload, file.steps, 0) /\ assemble(file) = f[0]
  BY AssembledIs
<1>2. 0 \in 0..0
  OBVIOUS
<1> QED
  BY <1>1, <1>2 DEF IsAssembly

\* What a plan holds after one more step.
Kept(held, s) ==
    Applied(s, held, [k \in 1..Len(s.added) |-> Planned(s.added[k].revision, FALSE)])

IsHeld(f, history, steps, n) ==
    f = [i \in 0..n |-> IF i = 0 THEN PlannedAll(history) ELSE Kept(f[i - 1], steps[i])]

\* The recursive definition of HeldAfter has a solution.
LEMMA HeldExists ==
    ASSUME NEW history, NEW steps, NEW n \in Nat
    PROVE  \E f : IsHeld(f, history, steps, n)
<1> DEFINE S == {k \in Nat : \E f : IsHeld(f, history, steps, k)}
<1>1. 0 \in S
  <2>1. IsHeld([i \in 0..0 |-> PlannedAll(history)], history, steps, 0)
    BY DEF IsHeld
  <2> QED
    BY <2>1
<1>2. ASSUME NEW k \in Nat, k \in S PROVE k + 1 \in S
  <2>1. PICK f : IsHeld(f, history, steps, k)
    BY <1>2
  <2>2. PICK last : last = Kept(f[k], steps[k + 1])
    OBVIOUS
  <2>3. PICK g : g = [i \in 0..(k + 1) |-> IF i = k + 1 THEN last ELSE f[i]]
    OBVIOUS
  <2>4. ASSUME NEW i \in 0..(k + 1)
        PROVE  g[i] = IF i = 0 THEN PlannedAll(history) ELSE Kept(g[i - 1], steps[i])
    <3>1. CASE i = k + 1
      <4>1. g[i] = last /\ i # 0 /\ i - 1 = k /\ k \in 0..(k + 1) /\ k # k + 1
        BY <2>3, <3>1
      <4>2. g[k] = f[k]
        BY <2>3, <4>1
      <4> QED
        BY <2>2, <4>1, <4>2, <3>1
    <3>2. CASE i # k + 1
      <4>1. i \in 0..k /\ g[i] = f[i]
        BY <2>3, <3>2
      <4>2. i # 0 => g[i - 1] = f[i - 1]
        BY <2>3, <4>1
      <4>3. f[i] = IF i = 0 THEN PlannedAll(history) ELSE Kept(f[i - 1], steps[i])
        BY <2>1, <4>1 DEF IsHeld
      <4> QED
        BY <4>1, <4>2, <4>3
    <3> QED
      BY <3>1, <3>2
  <2>5. IsHeld(g, history, steps, k + 1)
    BY <2>3, <2>4 DEF IsHeld
  <2> QED
    BY <2>5
<1> HIDE DEF S
<1>3. Nat \subseteq S
  BY <1>1, <1>2, SetInduction
<1>4. n \in S
  BY <1>3
<1> QED
  BY <1>4 DEF S

\* Two of its solutions agree as far as their steps do.
LEMMA HeldAgree ==
    ASSUME NEW history, NEW steps, NEW more, NEW n \in Nat, NEW m \in Nat, n <= m,
           \A i \in 1..n : steps[i] = more[i],
           NEW f, IsHeld(f, history, steps, n), NEW g, IsHeld(g, history, more, m)
    PROVE  f[n] = g[n]
<1> DEFINE S == {k \in Nat : k <= n => f[k] = g[k]}
<1>1. 0 \in S
  <2>1. 0 \in 0..n /\ 0 \in 0..m
    OBVIOUS
  <2>2. f[0] = PlannedAll(history)
    BY <2>1 DEF IsHeld
  <2>3. g[0] = PlannedAll(history)
    BY <2>1 DEF IsHeld
  <2> QED
    BY <2>2, <2>3
<1>2. ASSUME NEW k \in Nat, k \in S PROVE k + 1 \in S
  <2> SUFFICES ASSUME k + 1 <= n PROVE f[k + 1] = g[k + 1]
    OBVIOUS
  <2>1. /\ k + 1 \in 0..n /\ k + 1 \in 0..m /\ k + 1 \in 1..n /\ k + 1 # 0
        /\ (k + 1) - 1 = k /\ k <= n
    OBVIOUS
  <2>2. f[k + 1] = Kept(f[k], steps[k + 1])
    BY <2>1 DEF IsHeld
  <2>3. g[k + 1] = Kept(g[k], more[k + 1])
    BY <2>1 DEF IsHeld
  <2>4. f[k] = g[k] /\ steps[k + 1] = more[k + 1]
    BY <1>2, <2>1
  <2> QED
    BY <2>2, <2>3, <2>4
<1> HIDE DEF S
<1>3. Nat \subseteq S
  BY <1>1, <1>2, SetInduction
<1>4. n \in S
  BY <1>3
<1> QED
  BY <1>4 DEF S

\* HeldAfter is its solution.
LEMMA HeldIs ==
    ASSUME NEW history, NEW steps, NEW n \in Nat, Len(steps) = n
    PROVE  \E f : IsHeld(f, history, steps, n) /\ HeldAfter(history, steps) = f[n]
<1>1. \E f : IsHeld(f, history, steps, n)
  BY HeldExists
<1>2. PICK f : f = CHOOSE h : IsHeld(h, history, steps, n)
  OBVIOUS
<1>3. IsHeld(f, history, steps, n)
  BY <1>1, <1>2, Zenon
<1>4. HeldAfter(history, steps) = f[n]
  BY <1>2, Zenon DEF HeldAfter, IsHeld, Kept
<1> QED
  BY <1>3, <1>4, Zenon

\* A plan is read with one step more.
LEMMA HeldNext ==
    ASSUME NEW history, NEW file \in File, NEW s \in Step \cup {Torn}
    PROVE  HeldAfter(history, Longer(file, s).steps) = Kept(HeldAfter(history, file.steps), s)
<1>1. PICK steps, more : steps = file.steps /\ more = Longer(file, s).steps
  OBVIOUS
<1>2. PICK n \in Nat : n = Len(steps)
  BY <1>1, LongerIs
<1>3. /\ Len(more) = n + 1 /\ \A i \in 1..n : steps[i] = more[i]
      /\ more[n + 1] = s
  BY <1>1, <1>2, LongerIs
<1>4. PICK f : IsHeld(f, history, steps, n) /\ HeldAfter(history, steps) = f[n]
  BY <1>2, HeldIs
<1>5. PICK g : IsHeld(g, history, more, n + 1) /\ HeldAfter(history, more) = g[n + 1]
  BY <1>3, HeldIs
<1>6. f[n] = g[n]
  BY <1>3, <1>4, <1>5, HeldAgree
<1>7. g[n + 1] = Kept(g[n], more[n + 1])
  <2>1. n + 1 \in 0..(n + 1) /\ n + 1 # 0 /\ (n + 1) - 1 = n
    OBVIOUS
  <2> QED
    BY <1>5, <2>1 DEF IsHeld
<1> QED
  BY <1>1, <1>3, <1>4, <1>5, <1>6, <1>7

\* Of a file without steps a plan holds the base's history.
LEMMA HeldBase ==
    ASSUME NEW history PROVE HeldAfter(history, <<>>) = PlannedAll(history)
<1>1. PICK f : IsHeld(f, history, <<>>, 0) /\ HeldAfter(history, <<>>) = f[0]
  BY HeldIs
<1>2. 0 \in 0..0
  OBVIOUS
<1> QED
  BY <1>1, <1>2 DEF IsHeld

-----------------------------------------------------------------------------
(* Documents *)

\* The revisions of a history, with ids of their own, all given out already.
HistoryOK(history, next) ==
    /\ \A i, j \in 1..Len(history) : history[i].id = history[j].id => i = j
    /\ \A i \in 1..Len(history) : history[i].id < next

DocOK(d) ==
    /\ d \in Document
    /\ Len(d.history) \in 1..(UndoLimit + 1) /\ d.cursor \in 1..Len(d.history)
    /\ HistoryOK(d.history, d.next)

\* A revision that is in both is the same but for its name.
Kin(d, e) ==
    \A i \in 1..Len(d.history), j \in 1..Len(e.history) :
        d.history[i].id = e.history[j].id => d.history[i].program = e.history[j].program

\* The limits are natural numbers.
LEMMA Numbers ==
    MaxRevisionId \in Nat \ {0} /\ UndoLimit \in Nat /\ StepRoom \in Nat /\ Budget \in Nat
BY ConstantAssumption

\* The id of a revision is a number from 1.
LEMMA RevisionIs ==
    ASSUME NEW r \in Revision PROVE r.id \in Nat /\ r.id >= 1 /\ r # None
<1>1. r.id \in Nat /\ r.id >= 1
  BY Numbers DEF Revision
<1>2. r # None
  BY ConstantAssumption
<1> QED
  BY <1>1, <1>2

\* Sequences of one length that agree at every place are equal.
LEMMA SeqEqual ==
    ASSUME NEW S, NEW s \in Seq(S), NEW T, NEW t \in Seq(T), Len(s) = Len(t),
           \A i \in 1..Len(s) : s[i] = t[i]
    PROVE  s = t
OBVIOUS

\* The fields of a document.
LEMMA DocumentIs ==
    ASSUME NEW d \in Document
    PROVE  /\ d.history \in Seq(Revision) /\ d.cursor \in Nat /\ d.next \in Nat
           /\ d = [history |-> d.history, cursor |-> d.cursor, next |-> d.next]
           /\ Len(d.history) \in Nat
           /\ \A i \in 1..Len(d.history) : d.history[i] \in Revision
BY DEF Document

\* The file's own document is sound.
LEMMA SavedOK == DocOK(Saved)
<1>1. PICK r : r = [id |-> 1, snapshot |-> CHOOSE s \in Snapshots : TRUE,
                    program |-> None, name |-> None]
  OBVIOUS
<1>2. r \in Revision /\ r.id = 1
  BY <1>1, ConstantAssumption DEF Revision
<1>3. PICK h : h = <<r>>
  OBVIOUS
<1>4. h \in Seq(Revision) /\ Len(h) = 1 /\ h[1] = r
  BY <1>2, <1>3
<1>5. Saved = [history |-> h, cursor |-> 1, next |-> 2]
  BY <1>1, <1>3 DEF Saved
<1>6. Saved \in Document /\ Saved.history = h /\ Saved.cursor = 1 /\ Saved.next = 2
  BY <1>4, <1>5 DEF Document
<1>7. HistoryOK(h, 2)
  BY <1>2, <1>4 DEF HistoryOK
<1>8. Len(h) \in 1..(UndoLimit + 1) /\ 1 \in 1..Len(h)
  BY <1>4, Numbers
<1> QED
  BY <1>6, <1>7, <1>8, Zenon DEF DocOK

\* A step of the cursor.
LEMMA MovedOK ==
    ASSUME NEW d, DocOK(d), NEW c \in 1..Len(d.history)
    PROVE  DocOK([d EXCEPT !.cursor = c]) /\ Kin(d, [d EXCEPT !.cursor = c])
<1>1. PICK e : e = [d EXCEPT !.cursor = c]
  OBVIOUS
<1>2. e \in Document /\ e.history = d.history /\ e.next = d.next /\ e.cursor = c
  BY <1>1, DocumentIs DEF Document, DocOK
<1>3. DocOK(e)
  BY <1>2 DEF DocOK
<1>4. Kin(d, e)
  BY <1>2 DEF Kin, DocOK, HistoryOK
<1> QED
  BY <1>1, <1>3, <1>4

\* A checkpoint name on the current revision.
LEMMA NamedOK ==
    ASSUME NEW d, DocOK(d), NEW n \in Names
    PROVE  /\ DocOK([d EXCEPT !.history[d.cursor].name = n])
           /\ Kin(d, [d EXCEPT !.history[d.cursor].name = n])
<1>1. PICK e : e = [d EXCEPT !.history[d.cursor].name = n]
  OBVIOUS
<1>2. PICK h, c : h = d.history /\ c = d.cursor
  OBVIOUS
<1>3. h \in Seq(Revision) /\ c \in 1..Len(h) /\ h[c] \in Revision /\ Len(h) \in Nat
  BY <1>2, DocumentIs DEF DocOK
<1>4. PICK r : r = [h[c] EXCEPT !.name = n]
  OBVIOUS
<1>5. r \in Revision /\ r.id = h[c].id /\ r.program = h[c].program
  BY <1>3, <1>4 DEF Revision
<1>6. PICK g : g = [h EXCEPT ![c] = r]
  OBVIOUS
<1>7. /\ g \in Seq(Revision) /\ Len(g) = Len(h)
      /\ \A i \in 1..Len(h) : g[i] = IF i = c THEN r ELSE h[i]
  BY <1>3, <1>5, <1>6
<1>8. \A i \in 1..Len(h) : g[i].id = h[i].id /\ g[i].program = h[i].program
  BY <1>5, <1>7
<1>9. e = [d EXCEPT !.history = g]
  BY <1>1, <1>2, <1>4, <1>6
<1>10. e \in Document /\ e.history = g /\ e.cursor = d.cursor /\ e.next = d.next
  BY <1>7, <1>9, DocumentIs DEF Document, DocOK
<1>11. DocOK(e)
  BY <1>2, <1>7, <1>8, <1>10 DEF DocOK, HistoryOK
<1>12. Kin(d, e)
  BY <1>2, <1>7, <1>8, <1>10 DEF Kin, DocOK, HistoryOK
<1> QED
  BY <1>1, <1>11, <1>12

\* A function on 1..n is a sequence of its values.
LEMMA SequenceOf ==
    ASSUME NEW S, NEW n \in Nat, NEW f, f = [i \in 1..n |-> f[i]], \A i \in 1..n : f[i] \in S
    PROVE  f \in Seq(S) /\ Len(f) = n
<1>1. f \in [1..n -> S]
  OBVIOUS
<1> QED
  BY <1>1

\* A part of a sequence.
IsPart(part, A, h, k, m) ==
    part \in Seq(A) /\ Len(part) = m /\ \A i \in 1..m : part[i] = h[k + i]

\* The part of a sequence from k + 1 to k + m.
LEMMA SubSeqIs ==
    ASSUME NEW A, NEW h \in Seq(A), NEW k \in Nat, NEW m \in Nat, k + m <= Len(h)
    PROVE  IsPart(SubSeq(h, k + 1, k + m), A, h, k, m)
<1>1. PICK f : f = SubSeq(h, k + 1, k + m)
  OBVIOUS
<1>2. f = [i \in 1..((k + m) - (k + 1) + 1) |-> h[i + (k + 1) - 1]]
  BY <1>1
<1>3. (k + m) - (k + 1) + 1 = m
  OBVIOUS
<1>4. f = [i \in 1..m |-> h[i + (k + 1) - 1]]
  BY <1>2, <1>3
<1>5. ASSUME NEW i \in 1..m PROVE f[i] = h[k + i] /\ f[i] \in A
  <2>1. i + (k + 1) - 1 = k + i /\ k + i \in 1..Len(h)
    OBVIOUS
  <2>2. f[i] = h[i + (k + 1) - 1]
    BY <1>4
  <2> QED
    BY <2>1, <2>2
<1>6. f = [i \in 1..m |-> f[i]]
  BY <1>4
<1>7. f \in Seq(A) /\ Len(f) = m
  BY <1>5, <1>6, SequenceOf
<1> QED
  BY <1>1, <1>5, <1>7 DEF IsPart

\* An edit: the revisions up to the current one, without the oldest past the limit, and one
\* with a new id.
LEMMA PushedOK ==
    ASSUME NEW d, DocOK(d), NEW s \in Snapshots, NEW p \in Programs \cup {None},
           d.next <= MaxRevisionId
    PROVE  DocOK(Pushed(d, s, p)) /\ Kin(d, Pushed(d, s, p))
<1>1. PICK h, c, n : h = d.history /\ c = d.cursor /\ n = d.next
  OBVIOUS
<1>2. /\ h \in Seq(Revision) /\ Len(h) \in 1..(UndoLimit + 1) /\ c \in 1..Len(h) /\ n \in Nat
      /\ HistoryOK(h, n) /\ \A i \in 1..Len(h) : h[i] \in Revision
  BY <1>1, DocumentIs DEF DocOK
<1>3. PICK r : r = [id |-> n, snapshot |-> s, program |-> p, name |-> None]
  OBVIOUS
<1>4. n >= 1
  <2>1. h[1] \in Revision /\ h[1].id < n
    BY <1>2 DEF HistoryOK
  <2> QED
    BY <1>2, <2>1, RevisionIs
<1>5. r \in Revision /\ r.id = n
  BY <1>1, <1>2, <1>3, <1>4, Numbers DEF Revision
<1>6. PICK x : x = Max({0, c - UndoLimit})
  OBVIOUS
<1>7. x \in 0..c /\ c + 1 - x \in 1..(UndoLimit + 1)
  <2>1. x = IF c - UndoLimit > 0 THEN c - UndoLimit ELSE 0
    <3>1. PICK y : y = IF c - UndoLimit > 0 THEN c - UndoLimit ELSE 0
      OBVIOUS
    <3>2. y \in {0, c - UndoLimit} /\ \A z \in {0, c - UndoLimit} : y >= z
      BY <1>2, <3>1, Numbers
    <3>3. x \in {0, c - UndoLimit} /\ \A z \in {0, c - UndoLimit} : x >= z
      BY <1>6, <3>2 DEF Max
    <3>4. x >= y /\ y >= x /\ x \in Int /\ y \in Int
      BY <1>2, <3>2, <3>3, Numbers
    <3> QED
      BY <3>1, <3>4
  <2> QED
    BY <1>2, <2>1, Numbers
<1>8. PICK a : a = SubSeq(h, 1, c) \o <<r>>
  OBVIOUS
<1>9. /\ a \in Seq(Revision) /\ Len(a) = c + 1
      /\ \A i \in 1..c : a[i] = h[i]
      /\ a[c + 1] = r
  BY <1>2, <1>5, <1>8
<1>10. PICK b : b = SubSeq(a, x + 1, Len(a))
  OBVIOUS
<1>11. /\ b \in Seq(Revision) /\ Len(b) = c + 1 - x
       /\ \A i \in 1..Len(b) : b[i] = a[i + x]
  <2>1. PICK m \in Nat : m = c + 1 - x
    BY <1>2, <1>7
  <2>2. x \in Nat /\ x + m = c + 1 /\ x + m = Len(a)
    BY <1>2, <1>7, <1>9, <2>1
  <2>3. b = SubSeq(a, x + 1, x + m)
    BY <1>10, <2>2, Zenon
  <2>4. x + m <= Len(a)
    BY <1>9, <2>2
  <2>5. b \in Seq(Revision) /\ Len(b) = m /\ \A i \in 1..m : b[i] = a[x + i]
    <3>1. IsPart(b, Revision, a, x, m)
      BY <1>9, <2>2, <2>3, <2>4, SubSeqIs
    <3> QED
      BY <3>1, Zenon DEF IsPart
  <2>6. \A i \in 1..m : x + i = i + x
    BY <2>2
  <2> QED
    BY <2>1, <2>5, <2>6
<1>12. \A i \in 1..Len(b) :
          \/ i + x \in 1..c /\ b[i] = h[i + x] /\ i # c + 1 - x
          \/ i = c + 1 - x /\ b[i] = r
  <2> SUFFICES ASSUME NEW i \in 1..Len(b)
               PROVE  \/ i + x \in 1..c /\ b[i] = h[i + x] /\ i # c + 1 - x
                      \/ i = c + 1 - x /\ b[i] = r
    OBVIOUS
  <2>1. i \in 1..(c + 1 - x) /\ c \in Nat /\ x \in 0..c /\ b[i] = a[i + x]
    BY <1>2, <1>7, <1>11
  <2>2. CASE i = c + 1 - x
    <3>1. i + x = c + 1
      BY <2>1, <2>2
    <3> QED
      BY <1>9, <2>1, <2>2, <3>1
  <2>3. CASE i # c + 1 - x
    <3>1. i + x \in 1..c
      BY <2>1, <2>3
    <3> QED
      BY <1>9, <2>1, <2>3, <3>1
  <2> QED
    BY <2>2, <2>3
<1>13. PICK e : e = Pushed(d, s, p)
  OBVIOUS
<1>14. e = [history |-> b, cursor |-> c + 1 - x, next |-> n + 1]
  BY <1>1, <1>3, <1>6, <1>8, <1>10, <1>13 DEF Pushed
<1>15. e \in Document /\ e.history = b /\ e.cursor = c + 1 - x /\ e.next = n + 1
  BY <1>2, <1>7, <1>11, <1>14 DEF Document
<1>16. \A i \in 1..c : h[i].id < n /\ h[i].id \in Nat
  BY <1>2, RevisionIs DEF HistoryOK
<1>17. HistoryOK(b, n + 1)
  <2>0. n \in Nat
    BY <1>2
  <2>1. ASSUME NEW i \in 1..Len(b) PROVE b[i].id < n + 1
    <3>1. CASE i + x \in 1..c /\ b[i] = h[i + x]
      <4>1. PICK v \in Nat : v = h[i + x].id /\ v < n
        BY <1>16, <3>1
      <4>2. b[i].id = v
        BY <3>1, <4>1, Zenon
      <4> QED
        BY <2>0, <4>1, <4>2
    <3>2. CASE b[i] = r
      <4>1. b[i].id = n
        BY <1>5, <3>2, Zenon
      <4> QED
        BY <2>0, <4>1
    <3> QED
      BY <1>12, <3>1, <3>2, Zenon
  <2>2. ASSUME NEW i \in 1..Len(b), NEW j \in 1..Len(b), b[i].id = b[j].id PROVE i = j
    <3>1. CASE i # c + 1 - x /\ j # c + 1 - x
      <4>1. i + x \in 1..Len(h) /\ j + x \in 1..Len(h) /\ h[i + x].id = h[j + x].id
        BY <1>2, <1>12, <2>2, <3>1
      <4>2. i + x = j + x
        BY <1>2, <4>1 DEF HistoryOK
      <4> QED
        BY <1>7, <4>2, <1>11, <1>2
    <3>2. CASE i = c + 1 - x \/ j = c + 1 - x
      <4>1. ASSUME NEW k \in 1..Len(b) PROVE b[k].id = n <=> k = c + 1 - x
        <5>1. CASE k # c + 1 - x
          <6>1. k + x \in 1..c /\ b[k] = h[k + x]
            BY <1>12, <5>1, Zenon
          <6>2. PICK v \in Nat : v = h[k + x].id /\ v < n
            BY <1>16, <6>1
          <6> QED
            BY <2>0, <5>1, <6>1, <6>2
        <5>2. CASE k = c + 1 - x
          <6>1. b[k] = r
            BY <1>12, <5>2, Zenon
          <6> QED
            BY <1>5, <5>2, <6>1, Zenon
        <5> QED
          BY <5>1, <5>2, Zenon
      <4> QED
        BY <2>2, <3>2, <4>1, Zenon
    <3> QED
      BY <3>1, <3>2
  <2> QED
    BY <2>1, <2>2 DEF HistoryOK
<1>18. DocOK(e)
  BY <1>7, <1>11, <1>15, <1>17 DEF DocOK
<1>19. ASSUME NEW i \in 1..Len(h), NEW j \in 1..Len(b), h[i].id = b[j].id
       PROVE  h[i].program = b[j].program
  <2>1. h[i].id < n /\ h[i].id \in Nat
    BY <1>2, RevisionIs DEF HistoryOK
  <2>2. j + x \in 1..Len(h) /\ b[j] = h[j + x]
    BY <1>2, <1>5, <1>12, <1>19, <2>1
  <2>3. i = j + x
    BY <1>2, <1>19, <2>2 DEF HistoryOK
  <2> QED
    BY <2>2, <2>3
<1>20. Kin(d, e)
  BY <1>1, <1>15, <1>19 DEF Kin
<1> QED
  BY <1>13, <1>18, <1>20

\* Every mutation keeps a document sound and its revisions' programs.
LEMMA MutatedOK ==
    ASSUME NEW d, DocOK(d), NEW e \in Mutated(d)
    PROVE  DocOK(e) /\ Kin(d, e)
<1>1. CASE e \in Edited(d)
  <2>1. d.next <= MaxRevisionId
    BY <1>1 DEF Edited
  <2>2. PICK s \in Snapshots, p \in Programs \cup {None} : e = Pushed(d, s, p)
    BY <1>1, <2>1 DEF Edited
  <2> QED
    BY <2>1, <2>2, PushedOK
<1>2. CASE e \in Moved(d)
  <2>1. PICK c \in 1..Len(d.history) : e = [d EXCEPT !.cursor = c]
    BY <1>2, Zenon DEF Moved
  <2> QED
    BY <2>1, MovedOK
<1>3. CASE e \in Named(d)
  <2>1. PICK n \in Names : e = [d EXCEPT !.history[d.cursor].name = n]
    BY <1>3, Zenon DEF Named
  <2> QED
    BY <2>1, NamedOK
<1> QED
  BY <1>1, <1>2, <1>3 DEF Mutated

-----------------------------------------------------------------------------
(* Steps *)

\* An open has room for a history that is as long as it can be.
Roomy == UndoLimit < Budget

\* Revisions with the same fields are equal.
LEMMA RevisionEqual ==
    ASSUME NEW a \in Revision, NEW b \in Revision, a.id = b.id, a.snapshot = b.snapshot,
           a.program = b.program, a.name = b.name
    PROVE  a = b
BY DEF Revision

\* Within the budget no revision is given up.
LEMMA NothingGivenUp ==
    ASSUME NEW slots \in Seq(Revision), Len(slots) <= Budget, NEW cursor
    PROVE  give_up_oldest(slots, cursor) = slots
<1> DEFINE Held == {i \in DOMAIN slots : slots[i] # None}
           Rank(i) == IF i < cursor THEN i ELSE 2 * Len(slots) - i
           GivenUp == {i \in Held \ {cursor} :
                          Cardinality({j \in Held \ {cursor} : Rank(j) < Rank(i)})
                              < Cardinality(Held) - Budget}
<1>1. give_up_oldest(slots, cursor) = [i \in DOMAIN slots |-> IF i \in GivenUp THEN None ELSE slots[i]]
  BY DEF give_up_oldest
<1>2. Held \subseteq 1..Len(slots)
  OBVIOUS
<1> HIDE DEF Held, Rank
<1>3. IsFiniteSet(1..Len(slots)) /\ Cardinality(1..Len(slots)) = Len(slots)
  <2>1. Len(slots) \in Nat /\ 1 \in Int /\ Len(slots) \in Int
    OBVIOUS
  <2>2. /\ IsFiniteSet(1..Len(slots))
        /\ Cardinality(1..Len(slots)) = IF 1 > Len(slots) THEN 0 ELSE Len(slots) - 1 + 1
    BY <2>1, FS_Interval
  <2> QED
    BY <2>1, <2>2
<1>4. /\ IsFiniteSet(Held) /\ Cardinality(Held) \in Nat
      /\ Cardinality(Held) <= Budget
  <2>1. IsFiniteSet(Held) /\ Cardinality(Held) <= Len(slots)
    BY <1>2, <1>3, FS_Subset, ZenonT(30)
  <2>2. Cardinality(Held) \in Nat
    BY <2>1, FS_CardinalityType
  <2> QED
    BY <2>1, <2>2, Numbers
<1>5. ASSUME NEW i \in GivenUp PROVE FALSE
  <2>1. PICK J \in SUBSET Held : J = {j \in Held \ {cursor} : Rank(j) < Rank(i)}
    OBVIOUS
  <2>2. Cardinality(J) < Cardinality(Held) - Budget
    BY <1>5, <2>1
  <2>3. Cardinality(J) \in Nat
    BY <1>4, FS_Subset, FS_CardinalityType
  <2> QED
    BY <1>4, <2>2, <2>3, Numbers
<1> HIDE DEF GivenUp
<1>6. give_up_oldest(slots, cursor) = [i \in DOMAIN slots |-> slots[i]]
  BY <1>1, <1>5
<1> QED
  BY <1>6

\* What is assembled of a file that holds the document d in a base and n steps.
State(d, n) ==
    [slots |-> d.history, cursor |-> d.cursor, next |-> d.next, taken |-> n, ok |-> TRUE]

\* A document within the undo limit gives up nothing (give_up_oldest).
LEMMA DocFits ==
    ASSUME Roomy, NEW d, DocOK(d)
    PROVE  give_up_oldest(d.history, d.cursor) = d.history
<1>1. d.history \in Seq(Revision) /\ Len(d.history) <= Budget
  BY DocumentIs, Numbers DEF DocOK, Roomy
<1> QED
  BY <1>1, NothingGivenUp

\* What a plan holds is what it can know of the history.
PlanMatches(held, history) ==
    /\ held \in Seq(HeldRevision) /\ Len(held) = Len(history)
    /\ \A i \in 1..Len(history) :
           /\ held[i].id = history[i].id /\ held[i].snapshot = history[i].snapshot
           /\ held[i].known => held[i].name = history[i].name

\* What a plan remembers of a revision (Planned).
LEMMA PlannedIs ==
    ASSUME NEW r \in Revision
    PROVE  /\ Planned(r, TRUE) \in HeldRevision
           /\ Planned(r, TRUE).id = r.id /\ Planned(r, TRUE).snapshot = r.snapshot
           /\ Planned(r, TRUE).name = r.name
           /\ Planned(r, FALSE) \in HeldRevision
           /\ Planned(r, FALSE).id = r.id /\ Planned(r, FALSE).snapshot = r.snapshot
           /\ ~Planned(r, FALSE).known
BY DEF Planned, HeldRevision, Revision

\* A plan that remembers every revision of a history matches it.
LEMMA PlannedMatches ==
    ASSUME NEW history \in Seq(Revision)
    PROVE  PlanMatches(PlannedAll(history), history)
<1>1. PICK held : held = PlannedAll(history)
  OBVIOUS
<1>2. Len(history) \in Nat /\ held = [i \in 1..Len(history) |-> Planned(history[i], TRUE)]
  BY <1>1 DEF PlannedAll
<1>3. ASSUME NEW i \in 1..Len(history)
      PROVE  /\ held[i] \in HeldRevision /\ held[i].id = history[i].id
             /\ held[i].snapshot = history[i].snapshot /\ held[i].name = history[i].name
  <2>1. history[i] \in Revision /\ held[i] = Planned(history[i], TRUE)
    BY <1>2
  <2> QED
    BY <2>1, PlannedIs
<1>4. PICK n \in Nat : n = Len(history)
  BY <1>2
<1>5. held \in Seq(HeldRevision) /\ Len(held) = Len(history)
  <2>1. held = [i \in 1..n |-> held[i]]
    BY <1>2, <1>4
  <2>2. \A i \in 1..n : held[i] \in HeldRevision
    BY <1>3, <1>4
  <2>3. held \in Seq(HeldRevision) /\ Len(held) = n
    BY <2>1, <2>2, SequenceOf
  <2> QED
    BY <2>3, <1>4
<1> QED
  BY <1>1, <1>3, <1>5 DEF PlanMatches

\* The step from the document d to e.
StepFor(s, d, e) ==
    /\ s \in Step
    /\ s.keep \in 1..Len(e.history) /\ s.skip + s.keep <= Len(d.history)
    /\ \A i \in 1..s.keep : d.history[s.skip + i] = e.history[i]
    /\ s.cursor = e.cursor /\ s.next = e.next /\ s.kept_id = e.history[s.keep].id
    /\ Len(s.added) = Len(e.history) - s.keep
    /\ \A i \in 1..Len(s.added) : s.added[i] = Written(e.history[s.keep + i], e.history[s.keep])

\* A step's revision, put back together with the program of the kept one.
LEMMA WrittenIs ==
    ASSUME NEW r \in Revision, NEW kept \in Revision
    PROVE  /\ Written(r, kept) \in [revision : Revision, as_kept : BOOLEAN]
           /\ Written(r, kept).revision \in Revision
           /\ Written(r, kept).revision.id = r.id
           /\ Written(r, kept).revision.snapshot = r.snapshot
           /\ (IF Written(r, kept).as_kept
               THEN [Written(r, kept).revision EXCEPT !.program = kept.program]
               ELSE Written(r, kept).revision) = r
<1>1. CASE AsKept(r, kept)
  <2>1. PICK b : b = [r EXCEPT !.program = None]
    OBVIOUS
  <2>2. b \in Revision /\ b.id = r.id /\ b.snapshot = r.snapshot /\ b.name = r.name
    BY <2>1 DEF Revision
  <2>3. Written(r, kept) = [revision |-> b, as_kept |-> TRUE]
    BY <1>1, <2>1 DEF Written
  <2>4. PICK c : c = [b EXCEPT !.program = kept.program]
    OBVIOUS
  <2>5. /\ c \in Revision /\ c.id = b.id /\ c.snapshot = b.snapshot /\ c.name = b.name
        /\ c.program = kept.program
    BY <2>2, <2>4 DEF Revision
  <2>6. c = r
    BY <1>1, <2>2, <2>5, RevisionEqual DEF AsKept
  <2> QED
    BY <2>2, <2>3, <2>4, <2>6
<1>2. CASE ~AsKept(r, kept)
  <2>1. Written(r, kept) = [revision |-> r, as_kept |-> FALSE]
    BY <1>2 DEF Written
  <2> QED
    BY <2>1
<1> QED
  BY <1>1, <1>2

\* A nonempty set of numbers up to n has a least and a greatest member.
LEMMA SharedIs ==
    ASSUME NEW n \in Nat, NEW S \in SUBSET (1..n), S # {}
    PROVE  Min(S) \in S /\ Max(S) \in S
<1>1. \E x \in S : \A y \in S : x <= y
  <2>1. S \in SUBSET Nat
    OBVIOUS
  <2> QED
    BY <2>1, LeastElement
<1>2. \E x \in S : \A y \in S : x >= y
  BY GreatestElement
<1> QED
  BY <1>1, <1>2, Zenon DEF Min, Max

\* A step that is planned from what is held of d makes e.
LEMMA PlannedStep ==
    ASSUME NEW d, DocOK(d), NEW e, DocOK(e), Kin(d, e), NEW plan, NEW sd,
           PlanMatches(plan.held, d.history), plan_step(plan, e, sd) # None
    PROVE  /\ StepFor(plan_step(plan, e, sd).step, d, e)
           /\ plan_step(plan, e, sd) = [step |-> plan_step(plan, e, sd).step,
                                        plan |-> PlanAfter(plan, e)]
<1> DEFINE shared == {i \in 1..Len(plan.held) : Is(plan.held[i], e.history[1])}
           skip == Min(shared) - 1
           Common(n) == /\ skip + n <= Len(plan.held)
                        /\ \A i \in 1..n : Is(plan.held[skip + i], e.history[i])
           keep == Max({n \in 1..Len(e.history) : Common(n)})
           added == [i \in 1..(Len(e.history) - keep) |->
                        Written(e.history[keep + i], e.history[keep])]
           step == [skip |-> skip, keep |-> keep, cursor |-> e.cursor,
                    kept_id |-> e.history[keep].id, next |-> e.next, added |-> added]
<1>1. shared # {}
  BY Zenon DEF plan_step
<1>2. plan_step(plan, e, sd) = [step |-> step, plan |-> PlanAfter(plan, e)]
  BY Zenon DEF plan_step
<1>3. PICK held, h, g : held = plan.held /\ h = d.history /\ g = e.history
  OBVIOUS
<1>4. PICK T : T = shared
  OBVIOUS
<1>5. PICK k : k = skip
  OBVIOUS
<1>6. PICK M : M = {n \in 1..Len(e.history) : Common(n)}
  OBVIOUS
<1>7. PICK m : m = keep
  OBVIOUS
<1>8. PICK x : x = added
  OBVIOUS
<1>9. T = {i \in 1..Len(held) : Is(held[i], g[1])} /\ k = Min(T) - 1
  BY <1>3, <1>4, <1>5
<1>10. /\ M = {n \in 1..Len(g) : /\ k + n <= Len(held)
                                 /\ \A i \in 1..n : Is(held[k + i], g[i])}
       /\ m = Max(M)
  BY <1>3, <1>5, <1>6, <1>7
<1>11. PICK s : s = [skip |-> k, keep |-> m, cursor |-> e.cursor, kept_id |-> g[m].id,
                     next |-> e.next, added |-> x]
  OBVIOUS
<1>12. x = [i \in 1..(Len(g) - m) |-> Written(g[m + i], g[m])]
  BY <1>3, <1>7, <1>8, Zenon
<1>13. T # {}
  BY <1>1, <1>4
<1> HIDE DEF shared, skip, Common, keep, added
<1>14. step = s
  BY <1>3, <1>5, <1>7, <1>8, <1>11
<1> HIDE DEF step
<1>15. /\ plan_step(plan, e, sd).step = s
       /\ plan_step(plan, e, sd) = [step |-> s, plan |-> PlanAfter(plan, e)]
  BY <1>2, <1>14
<1>16. /\ h \in Seq(Revision) /\ Len(h) \in Nat /\ g \in Seq(Revision)
       /\ Len(g) \in 1..(UndoLimit + 1) /\ Len(g) \in Nat /\ UndoLimit \in Nat
       /\ e.cursor \in Nat /\ e.next \in Nat
       /\ held \in Seq(HeldRevision) /\ Len(held) = Len(h) /\ PlanMatches(held, h)
       /\ \A i \in 1..Len(h) : h[i] \in Revision
       /\ \A i \in 1..Len(g) : g[i] \in Revision
  BY <1>3, DocumentIs, Numbers DEF DocOK, PlanMatches
<1>17. k \in Nat /\ k + 1 \in 1..Len(held) /\ Is(held[k + 1], g[1])
  <2>1. PICK n \in Nat : n = Len(held)
    BY <1>16
  <2>2. T \in SUBSET (1..n)
    BY <1>9, <2>1
  <2>3. Min(T) \in T
    BY <1>13, <2>1, <2>2, SharedIs
  <2>4. Min(T) \in 1..n /\ Is(held[Min(T)], g[1])
    BY <1>9, <2>1, <2>3
  <2>5. k + 1 = Min(T) /\ k \in Nat
    BY <1>9, <2>4
  <2> QED
    BY <2>1, <2>4, <2>5
<1>18. m \in M
  <2>1. 1 \in M
    <3>1. \A i \in 1..1 : Is(held[k + i], g[i])
      BY <1>17
    <3>2. 1 \in 1..Len(g) /\ k + 1 <= Len(held)
      BY <1>16, <1>17
    <3> QED
      BY <1>10, <3>1, <3>2
  <2>2. PICK n \in Nat : n = Len(g)
    BY <1>16
  <2>3. M \in SUBSET (1..n) /\ M # {}
    BY <1>10, <2>1, <2>2
  <2>4. Max(M) \in M
    BY <2>2, <2>3, SharedIs
  <2> QED
    BY <2>4, <1>10
<1>19. /\ m \in 1..Len(g) /\ k + m <= Len(held)
       /\ \A i \in 1..m : Is(held[k + i], g[i])
  BY <1>10, <1>18
<1>20. ASSUME NEW i \in 1..m PROVE h[k + i] = g[i]
  <2>1. k + i \in 1..Len(h) /\ i \in 1..Len(g)
    BY <1>16, <1>17, <1>19
  <2>2. Is(held[k + i], g[i])
    BY <1>19
  <2>3. h[k + i].id = g[i].id /\ h[k + i].snapshot = g[i].snapshot /\ h[k + i].name = g[i].name
    BY <1>16, <2>1, <2>2 DEF PlanMatches, Is
  <2>4. h[k + i].program = g[i].program
    BY <1>3, <2>1, <2>3 DEF Kin
  <2>5. h[k + i] \in Revision /\ g[i] \in Revision
    BY <1>16, <2>1
  <2> QED
    BY <2>3, <2>4, <2>5, RevisionEqual
<1>21. /\ x \in Seq([revision : Revision, as_kept : BOOLEAN]) /\ Len(x) = Len(g) - m
       /\ \A i \in 1..Len(x) : x[i] = Written(g[m + i], g[m])
  <2>1. PICK n \in Nat : n = Len(g) - m
    BY <1>16, <1>19, SMTT(20)
  <2>2. x = [i \in 1..n |-> Written(g[m + i], g[m])]
    BY <1>12, <2>1
  <2>3. ASSUME NEW i \in 1..n
        PROVE  x[i] = Written(g[m + i], g[m]) /\ x[i] \in [revision : Revision, as_kept : BOOLEAN]
    <3>1. m \in 1..Len(g) /\ m + i \in 1..Len(g)
      BY <1>16, <1>19, <2>1
    <3>2. g[m] \in Revision /\ g[m + i] \in Revision
      BY <1>16, <3>1
    <3>3. x[i] = Written(g[m + i], g[m])
      BY <2>2
    <3> QED
      BY <3>2, <3>3, WrittenIs
  <2>4. x = [i \in 1..n |-> x[i]]
    BY <2>2
  <2>5. PICK S : S = [revision : Revision, as_kept : BOOLEAN]
    OBVIOUS
  <2>6. \A i \in 1..n : x[i] \in S
    BY <2>3, <2>5
  <2>7. x \in Seq(S) /\ Len(x) = n
    BY <2>4, <2>6, SequenceOf
  <2> QED
    BY <2>1, <2>3, <2>5, <2>7
<1>22. g[m].id \in Nat /\ m \in Nat
  BY <1>16, <1>19, RevisionIs
<1>23. s \in Step
  BY <1>11, <1>16, <1>17, <1>21, <1>22 DEF Step
<1>24. /\ s.skip = k /\ s.keep = m /\ s.cursor = e.cursor /\ s.kept_id = g[m].id
       /\ s.next = e.next /\ s.added = x
  BY <1>11
<1>25. StepFor(s, d, e)
  BY <1>3, <1>16, <1>19, <1>20, <1>21, <1>23, <1>24 DEF StepFor
<1> QED
  BY <1>15, <1>25

\* Two sequences, one after the other.
LEMMA ConcatIs ==
    ASSUME NEW S, NEW a \in Seq(S), NEW b \in Seq(S)
    PROVE  /\ a \o b \in Seq(S) /\ Len(a \o b) = Len(a) + Len(b)
           /\ \A i \in 1..Len(a) : (a \o b)[i] = a[i]
           /\ \A i \in 1..Len(b) : (a \o b)[Len(a) + i] = b[i]
OBVIOUS

\* What Applied needs, and what it makes.
Reaches(s, S, h, added) ==
    /\ h \in Seq(S) /\ added \in Seq(S)
    /\ s.keep \in Nat /\ s.skip \in Nat /\ s.skip + s.keep <= Len(h)
Makes(s, S, h, added) ==
    /\ Applied(s, h, added) \in Seq(S)
    /\ Len(Applied(s, h, added)) = s.keep + Len(added)
    /\ \A i \in 1..s.keep : Applied(s, h, added)[i] = h[s.skip + i]
    /\ \A i \in 1..Len(added) : Applied(s, h, added)[s.keep + i] = added[i]

\* A step that fits a list keeps its part of the list and appends what it adds (Applied).
LEMMA AppliedIs ==
    ASSUME NEW s, NEW S, NEW h, NEW added, Reaches(s, S, h, added)
    PROVE  Makes(s, S, h, added)
<1> /\ h \in Seq(S) /\ added \in Seq(S)
    /\ s.keep \in Nat /\ s.skip \in Nat /\ s.skip + s.keep <= Len(h)
  BY DEF Reaches
<1>1. PICK skip \in Nat, keep \in Nat : skip = s.skip /\ keep = s.keep
  OBVIOUS
<1>2. skip + keep <= Len(h)
  BY <1>1
<1>3. PICK front : front = SubSeq(h, skip + 1, skip + keep)
  OBVIOUS
<1>4. /\ front \in Seq(S) /\ Len(front) = keep
      /\ \A i \in 1..keep : front[i] = h[skip + i]
  <2>1. IsPart(front, S, h, skip, keep)
    BY <1>2, <1>3, SubSeqIs
  <2> QED
    BY <2>1, Zenon DEF IsPart
<1>5. PICK all : all = front \o added
  OBVIOUS
<1>6. /\ all \in Seq(S) /\ Len(all) = Len(front) + Len(added)
      /\ \A i \in 1..Len(front) : all[i] = front[i]
      /\ \A i \in 1..Len(added) : all[Len(front) + i] = added[i]
  <2>1. /\ front \o added \in Seq(S) /\ Len(front \o added) = Len(front) + Len(added)
        /\ \A i \in 1..Len(front) : (front \o added)[i] = front[i]
        /\ \A i \in 1..Len(added) : (front \o added)[Len(front) + i] = added[i]
    <3>1. front \in Seq(S) /\ added \in Seq(S)
      BY <1>4
    <3> QED
      BY <3>1, ConcatIs
  <2> QED
    BY <1>5, <2>1, Zenon
<1>7. all = Applied(s, h, added)
  BY <1>1, <1>3, <1>5, Zenon DEF Applied
<1> QED
  BY <1>1, <1>4, <1>6, <1>7 DEF Makes

\* Opening takes the step and has e.
LEMMA TakeOK ==
    ASSUME Roomy, NEW d, DocOK(d), NEW e, DocOK(e), NEW s, StepFor(s, d, e), NEW n \in Nat
    PROVE  Take(State(d, n), s) = State(e, n + 1)
<1>1. PICK h, g : h = d.history /\ g = e.history
  OBVIOUS
<1>2. /\ h \in Seq(Revision) /\ g \in Seq(Revision) /\ Len(h) \in Nat /\ Len(g) \in Nat
      /\ Len(g) <= Budget /\ e.cursor \in 1..Len(g) /\ d.cursor \in Nat
      /\ \A i \in 1..Len(h) : h[i] \in Revision
      /\ \A i \in 1..Len(g) : g[i] \in Revision
  BY <1>1, DocumentIs, Numbers, SMTT(20) DEF DocOK, Roomy
<1>3. PICK k \in Nat, m \in Nat, x \in {s.added} :
        k = s.skip /\ m = s.keep /\ x = s.added
  BY DEF StepFor, Step
<1>4. /\ s \in Step /\ m \in 1..Len(g) /\ k + m <= Len(h)
      /\ \A i \in 1..m : h[k + i] = g[i]
      /\ s.cursor = e.cursor /\ s.next = e.next /\ s.kept_id = g[m].id
      /\ Len(x) = Len(g) - m
      /\ \A i \in 1..Len(x) : x[i] = Written(g[m + i], g[m])
  BY <1>1, <1>3 DEF StepFor
<1>5. k + m \in 1..Len(h) /\ h[k + m] = g[m] /\ m \in 1..m
  BY <1>4
<1>6. PICK full : full = Full(s, h)
  OBVIOUS
<1>7. full = [i \in 1..Len(x) |-> IF x[i].as_kept
                                  THEN [x[i].revision EXCEPT !.program = g[m].program]
                                  ELSE x[i].revision]
  BY <1>3, <1>5, <1>6 DEF Full
<1>8. PICK c \in Nat : c = Len(g) - m /\ c = Len(x)
  <2>1. Len(g) - m \in Nat
    BY <1>2, <1>4
  <2> QED
    BY <1>4, <2>1
<1>9. ASSUME NEW i \in 1..c PROVE full[i] = g[m + i] /\ g[m + i] \in Revision
  <2>1. m + i \in 1..Len(g) /\ i \in 1..Len(x) /\ m \in 1..Len(g)
    BY <1>2, <1>4, <1>8
  <2>2. g[m + i] \in Revision /\ g[m] \in Revision /\ x[i] = Written(g[m + i], g[m])
    BY <1>2, <1>4, <2>1
  <2>3. full[i] = IF x[i].as_kept THEN [x[i].revision EXCEPT !.program = g[m].program]
                  ELSE x[i].revision
    BY <1>7, <2>1
  <2> QED
    BY <2>2, <2>3, WrittenIs
<1>10. full \in Seq(Revision) /\ Len(full) = c
  <2>1. full = [i \in 1..c |-> full[i]]
    BY <1>7, <1>8
  <2>2. \A i \in 1..c : full[i] \in Revision
    BY <1>9
  <2> QED
    BY <2>1, <2>2, SequenceOf
<1>11. PICK all : all = Applied(s, h, full)
  OBVIOUS
<1>12. /\ all \in Seq(Revision) /\ Len(all) = m + c
       /\ \A i \in 1..m : all[i] = h[k + i]
       /\ \A i \in 1..c : all[m + i] = full[i]
  <2>1. s.keep \in Nat /\ s.skip \in Nat /\ s.skip + s.keep <= Len(h)
    BY <1>3, <1>4
  <2>2. /\ Applied(s, h, full) \in Seq(Revision)
        /\ Len(Applied(s, h, full)) = s.keep + Len(full)
        /\ \A i \in 1..s.keep : Applied(s, h, full)[i] = h[s.skip + i]
        /\ \A i \in 1..Len(full) : Applied(s, h, full)[s.keep + i] = full[i]
    <3>1. h \in Seq(Revision) /\ full \in Seq(Revision)
      BY <1>2, <1>10
    <3>2. Reaches(s, Revision, h, full)
      BY <2>1, <3>1 DEF Reaches
    <3>3. Makes(s, Revision, h, full)
      BY <3>2, AppliedIs
    <3> QED
      BY <3>3 DEF Makes
  <2> QED
    BY <1>3, <1>10, <1>11, <2>2
<1>13. all = g
  <2>1. Len(all) = Len(g)
    BY <1>2, <1>4, <1>8, <1>12
  <2>2. ASSUME NEW i \in 1..Len(all) PROVE all[i] = g[i]
    <3>1. CASE i <= m
      <4>1. i \in 1..m
        BY <1>4, <3>1
      <4> QED
        BY <1>4, <1>12, <4>1
    <3>2. CASE ~(i <= m)
      <4>1. PICK j \in 1..c : i = m + j
        <5>1. i - m \in 1..c /\ i = m + (i - m)
          BY <1>4, <1>8, <1>12, <3>2
        <5> QED
          BY <5>1
      <4> QED
        BY <1>9, <1>12, <4>1
    <3> QED
      BY <3>1, <3>2
  <2> QED
    BY <1>2, <1>12, <2>1, <2>2, SeqEqual
<1>14. give_up_oldest(g, e.cursor) = g
  BY <1>1, DocFits
<1>15. Applies(s, h)
  <2>1. s.keep > 0 /\ s.skip + s.keep <= Len(h)
    BY <1>3, <1>4
  <2>2. h[s.skip + s.keep] # None /\ h[s.skip + s.keep].id = s.kept_id
    BY <1>2, <1>3, <1>4, <1>5, RevisionIs
  <2>3. Len(s.added) <= Budget /\ s.cursor <= s.keep + Len(s.added)
    <3>1. Len(s.added) = c /\ s.keep = m /\ s.cursor = e.cursor
      BY <1>3, <1>4, <1>8
    <3>2. c <= Budget /\ e.cursor <= m + c
      BY <1>2, <1>4, <1>8, Numbers
    <3> QED
      BY <3>1, <3>2
  <2>4. s.cursor <= s.keep => h[s.skip + s.cursor] # None
    <3>1. k + e.cursor \in 1..Len(h) \/ ~(e.cursor <= m)
      BY <1>2, <1>4
    <3>2. ~(e.cursor <= m) \/ h[k + e.cursor] # None
      BY <1>2, <3>1, RevisionIs
    <3> QED
      BY <1>3, <1>4, <3>2
  <2> QED
    BY <2>1, <2>2, <2>3, <2>4 DEF Applies
<1>16. s # Torn
  BY <1>4, ConstantAssumption
<1>17. PICK acc : acc = State(d, n)
  OBVIOUS
<1>18. acc.ok = TRUE /\ acc.slots = h /\ acc.taken = n
  BY <1>1, <1>17 DEF State
<1>19. Take(acc, s) = [slots |-> give_up_oldest(Applied(s, h, Full(s, h)), s.cursor),
                       cursor |-> s.cursor, next |-> s.next, taken |-> n + 1, ok |-> TRUE]
  BY <1>15, <1>16, <1>18, Zenon DEF Take
<1>20. give_up_oldest(Applied(s, h, Full(s, h)), s.cursor) = g
  BY <1>4, <1>6, <1>11, <1>13, <1>14
<1> QED
  BY <1>1, <1>4, <1>17, <1>19, <1>20, Zenon DEF State

\* So does what a plan holds.
LEMMA KeptOK ==
    ASSUME NEW d, DocOK(d), NEW e, DocOK(e), NEW s, StepFor(s, d, e),
           NEW held, PlanMatches(held, d.history)
    PROVE  PlanMatches(Kept(held, s), e.history)
<1>1. PICK h, g : h = d.history /\ g = e.history
  OBVIOUS
<1>2. /\ Len(h) \in Nat /\ Len(g) \in Nat /\ \A i \in 1..Len(g) : g[i] \in Revision
      /\ held \in Seq(HeldRevision) /\ Len(held) = Len(h) /\ PlanMatches(held, h)
  BY <1>1, DocumentIs DEF DocOK, PlanMatches
<1>3. PICK k \in Nat, m \in Nat, x \in {s.added} :
        k = s.skip /\ m = s.keep /\ x = s.added
  BY DEF StepFor, Step
<1>4. /\ m \in 1..Len(g) /\ k + m <= Len(h)
      /\ \A i \in 1..m : h[k + i] = g[i]
      /\ Len(x) = Len(g) - m
      /\ \A i \in 1..Len(x) : x[i] = Written(g[m + i], g[m])
  BY <1>1, <1>3 DEF StepFor
<1>5. PICK c \in Nat : c = Len(g) - m /\ c = Len(x)
  <2>1. Len(g) - m \in Nat
    BY <1>2, <1>4
  <2> QED
    BY <1>4, <2>1
<1>6. PICK new : new = [i \in 1..c |-> Planned(x[i].revision, FALSE)]
  OBVIOUS
<1>7. ASSUME NEW i \in 1..c
      PROVE  /\ new[i] \in HeldRevision /\ new[i].id = g[m + i].id
             /\ new[i].snapshot = g[m + i].snapshot /\ ~new[i].known
  <2>1. m + i \in 1..Len(g) /\ i \in 1..Len(x) /\ m \in 1..Len(g)
    BY <1>2, <1>4, <1>5
  <2>2. g[m + i] \in Revision /\ g[m] \in Revision /\ x[i] = Written(g[m + i], g[m])
    BY <1>2, <1>4, <2>1
  <2>3. /\ x[i].revision \in Revision /\ x[i].revision.id = g[m + i].id
        /\ x[i].revision.snapshot = g[m + i].snapshot
    BY <2>2, WrittenIs
  <2>4. new[i] = Planned(x[i].revision, FALSE)
    BY <1>6
  <2> QED
    BY <2>3, <2>4, PlannedIs
<1>8. new \in Seq(HeldRevision) /\ Len(new) = c
  <2>1. new = [i \in 1..c |-> new[i]]
    BY <1>6
  <2>2. \A i \in 1..c : new[i] \in HeldRevision
    BY <1>7
  <2> QED
    BY <2>1, <2>2, SequenceOf
<1>9. PICK all : all = Applied(s, held, new)
  OBVIOUS
<1>10. /\ all \in Seq(HeldRevision) /\ Len(all) = m + c
       /\ \A i \in 1..m : all[i] = held[k + i]
       /\ \A i \in 1..c : all[m + i] = new[i]
  <2>1. s.keep \in Nat /\ s.skip \in Nat /\ s.skip + s.keep <= Len(held)
    BY <1>2, <1>3, <1>4
  <2>2. /\ Applied(s, held, new) \in Seq(HeldRevision)
        /\ Len(Applied(s, held, new)) = s.keep + Len(new)
        /\ \A i \in 1..s.keep : Applied(s, held, new)[i] = held[s.skip + i]
        /\ \A i \in 1..Len(new) : Applied(s, held, new)[s.keep + i] = new[i]
    <3>1. held \in Seq(HeldRevision) /\ new \in Seq(HeldRevision)
      BY <1>2, <1>8
    <3> QED
      BY <2>1, <3>1, AppliedIs DEF Reaches, Makes
  <2> QED
    BY <1>3, <1>8, <1>9, <2>2
<1>11. ASSUME NEW i \in 1..Len(g)
       PROVE  /\ all[i].id = g[i].id /\ all[i].snapshot = g[i].snapshot
              /\ all[i].known => all[i].name = g[i].name
  <2>1. CASE i <= m
    <3>1. i \in 1..m /\ k + i \in 1..Len(h)
      BY <1>2, <1>4, <2>1
    <3>2. all[i] = held[k + i] /\ h[k + i] = g[i]
      BY <1>4, <1>10, <3>1
    <3> QED
      BY <1>2, <3>1, <3>2 DEF PlanMatches
  <2>2. CASE ~(i <= m)
    <3>1. PICK j \in 1..c : i = m + j
      <4>1. i - m \in 1..c /\ i = m + (i - m)
        BY <1>2, <1>4, <1>5, <2>2
      <4> QED
        BY <4>1
    <3> QED
      BY <1>7, <1>10, <3>1
  <2> QED
    BY <2>1, <2>2
<1>12. Len(all) = Len(g)
  BY <1>2, <1>4, <1>5, <1>10
<1>13. PlanMatches(all, g)
  BY <1>10, <1>11, <1>12 DEF PlanMatches
<1>14. Kept(held, s) = all
  BY <1>3, <1>5, <1>6, <1>9 DEF Kept
<1> QED
  BY <1>1, <1>13, <1>14

-----------------------------------------------------------------------------
(* Files *)

\* A file that opens as d, of which every step reads.
Clean(file, d) ==
    /\ file \in File /\ DocOK(d) /\ DocOK(file.payload)
    /\ \A i \in 1..Len(file.steps) : file.steps[i] \in Step
    /\ assemble(file) = State(d, Len(file.steps))
    /\ PlanMatches(HeldAfter(file.payload.history, file.steps), d.history)

\* One whose last step was cut short.
Cut(file, d) == \E whole : Clean(whole, d) /\ file = Longer(whole, Torn)

Sane(file, d) == Clean(file, d) \/ Cut(file, d)

\* What is assembled of the base alone is the document itself, with no step taken.
LEMMA BaseOK ==
    ASSUME Roomy, NEW d, DocOK(d) PROVE Base(d) = State(d, 0)
BY DocFits DEF Base, State

\* A checkpoint written whole opens as its document.
LEMMA WholeClean ==
    ASSUME Roomy, NEW d, DocOK(d), NEW sd \in Sides
    PROVE  Clean(Whole(d, sd), d)
<1>1. PICK file : file = Whole(d, sd)
  OBVIOUS
<1>2. file \in File /\ file.payload = d /\ file.steps = <<>> /\ Len(file.steps) = 0
  BY <1>1 DEF Whole, File, DocOK
<1>3. assemble(file) = State(d, 0)
  BY <1>2, AssembledBase, BaseOK
<1>4. PlanMatches(HeldAfter(d.history, <<>>), d.history)
  BY HeldBase, PlannedMatches, DocumentIs DEF DocOK
<1>5. \A i \in 1..Len(file.steps) : file.steps[i] \in Step
  BY <1>2
<1> QED
  BY <1>1, <1>2, <1>3, <1>4, <1>5, Zenon DEF Clean

\* One with one more planned step opens as the next document.
LEMMA LongerClean ==
    ASSUME Roomy, NEW d, NEW file, Clean(file, d), NEW e, DocOK(e), NEW s, StepFor(s, d, e)
    PROVE  Clean(Longer(file, s), e)
<1>1. PICK more, n : more = Longer(file, s) /\ n = Len(file.steps)
  OBVIOUS
<1>2. s \in Step /\ file \in File /\ DocOK(d)
  BY DEF StepFor, Clean
<1>3. /\ more \in File /\ more.payload = file.payload /\ n \in Nat
      /\ Len(more.steps) = n + 1
      /\ \A i \in 1..n : more.steps[i] = file.steps[i]
      /\ more.steps[n + 1] = s
      /\ assemble(more) = Take(assemble(file), s)
      /\ HeldAfter(file.payload.history, more.steps)
             = Kept(HeldAfter(file.payload.history, file.steps), s)
  <2>1. file \in File /\ s \in Step \cup {Torn}
    BY <1>2
  <2>2. /\ more \in File /\ more.payload = file.payload /\ n \in Nat
        /\ Len(more.steps) = n + 1
        /\ \A i \in 1..n : more.steps[i] = file.steps[i]
        /\ more.steps[n + 1] = s
    BY <1>1, <2>1, LongerIs
  <2>3. assemble(more) = Take(assemble(file), s)
    BY <1>1, <2>1, AssembledNext
  <2>4. HeldAfter(file.payload.history, more.steps)
            = Kept(HeldAfter(file.payload.history, file.steps), s)
    BY <1>1, <2>1, HeldNext
  <2> QED
    BY <2>2, <2>3, <2>4
<1>4. assemble(more) = State(e, n + 1)
  BY <1>1, <1>2, <1>3, TakeOK DEF Clean
<1>5. PlanMatches(HeldAfter(more.payload.history, more.steps), e.history)
  BY <1>2, <1>3, KeptOK DEF Clean
<1>6. \A i \in 1..Len(more.steps) : more.steps[i] \in Step
  <2>1. \A i \in 1..n : more.steps[i] \in Step
    BY <1>1, <1>3 DEF Clean
  <2>2. \A i \in 1..(n + 1) : i \in 1..n \/ i = n + 1
    BY <1>3
  <2> QED
    BY <1>2, <1>3, <2>1, <2>2
<1>7. DocOK(more.payload)
  BY <1>3 DEF Clean
<1> QED
  BY <1>1, <1>3, <1>4, <1>5, <1>6, <1>7 DEF Clean

\* Nothing of the document was given up, so the rest is all of it.
LEMMA RestIs ==
    ASSUME NEW d, DocOK(d), NEW a, a.slots = d.history, a.cursor = d.cursor, a.next = d.next
    PROVE  Rest(a) = d
<1>1. PICK h, c : h = d.history /\ c = d.cursor
  OBVIOUS
<1>2. /\ h \in Seq(Revision) /\ Len(h) \in Nat /\ c \in 1..Len(h)
      /\ \A i \in 1..Len(h) : h[i] # None
      /\ d = [history |-> h, cursor |-> c, next |-> d.next]
  BY <1>1, DocumentIs, RevisionIs DEF DocOK
<1>3. PICK first, last :
        /\ first = Max({0} \cup {i \in 1..(c - 1) : h[i] = None})
        /\ last = Max({i \in c..Len(h) : \A j \in c..i : h[j] # None})
  OBVIOUS
<1>4. first = 0
  <2>1. {0} \cup {i \in 1..(c - 1) : h[i] = None} = {0}
    BY <1>2
  <2>2. \E x \in {0} : \A y \in {0} : x >= y
    OBVIOUS
  <2>3. Max({0}) \in {0}
    BY <2>2, Zenon DEF Max
  <2> QED
    BY <1>3, <2>1, <2>3
<1>5. last = Len(h)
  <2>1. PICK M : M = {i \in c..Len(h) : \A j \in c..i : h[j] # None}
    OBVIOUS
  <2>2. Len(h) \in M /\ \A i \in M : i \in 1..Len(h)
    BY <1>2, <2>1
  <2>3. \E x \in M : \A y \in M : x >= y
    BY <1>2, <2>2
  <2>4. Max(M) \in M /\ \A y \in M : Max(M) >= y
    BY <2>3, Zenon DEF Max
  <2>5. Max(M) >= Len(h) /\ Max(M) \in 1..Len(h)
    BY <2>2, <2>4
  <2> QED
    BY <1>2, <1>3, <2>1, <2>5
<1>6. SubSeq(h, first + 1, last) = h
  <2>1. SubSeq(h, 1, Len(h)) = h
    BY <1>2
  <2> QED
    BY <1>4, <1>5, <2>1
<1>7. c - first = c
  BY <1>2, <1>4
<1>8. Rest(a) = [history |-> SubSeq(h, first + 1, last), cursor |-> c - first, next |-> d.next]
  BY <1>1, <1>3, Zenon DEF Rest
<1> QED
  BY <1>2, <1>6, <1>7, <1>8

\* A sane file is there, and the document it holds is valid.
LEMMA FileIs ==
    ASSUME NEW file, NEW d, Sane(file, d)
    PROVE  file # None /\ file \in File /\ DocOK(d) /\ file.side \in Sides
<1>1. file \in File /\ DocOK(d)
  <2>1. CASE Clean(file, d)
    BY <2>1 DEF Clean
  <2>2. CASE Cut(file, d)
    <3>1. PICK whole : Clean(whole, d) /\ file = Longer(whole, Torn)
      BY <2>2 DEF Cut
    <3>2. whole \in File /\ DocOK(d) /\ Torn \in Step \cup {Torn}
      BY <3>1 DEF Clean
    <3> QED
      BY <3>1, <3>2, LongerIs
  <2> QED
    BY <2>1, <2>2 DEF Sane
<1>2. file # None
  BY <1>1, ConstantAssumption
<1>3. file.side \in Sides
  BY <1>1 DEF File
<1> QED
  BY <1>1, <1>2, <1>3

\* A file of which every step reads opens as its document.
LEMMA CleanOpens ==
    ASSUME Roomy, NEW file, NEW d, Clean(file, d)
    PROVE  Opened(file) = d /\ (file.steps = <<>> => file.payload = d)
<1>1. file # None
  BY FileIs DEF Sane
<1>2. CASE file.steps = <<>>
  <2>1. assemble(file) = State(file.payload, 0)
    BY <1>2, AssembledBase, BaseOK DEF Clean
  <2>2. State(file.payload, 0) = State(d, Len(file.steps))
    BY <2>1 DEF Clean
  <2>3. PICK p : p = file.payload
    OBVIOUS
  <2>4. p.history = d.history /\ p.cursor = d.cursor /\ p.next = d.next
    BY <2>2, <2>3 DEF State
  <2>5. /\ p = [history |-> p.history, cursor |-> p.cursor, next |-> p.next]
        /\ d = [history |-> d.history, cursor |-> d.cursor, next |-> d.next]
    BY <2>3, DocumentIs DEF Clean, DocOK
  <2>6. p = d
    BY <2>4, <2>5
  <2>7. Opened(file) = file.payload
    BY <1>1, <1>2 DEF Opened
  <2> QED
    BY <2>3, <2>6, <2>7
<1>3. CASE file.steps # <<>>
  <2>1. file.steps[1] \in Step
    BY <1>3 DEF Clean, File
  <2>2. file.steps[1] # Torn
    BY <2>1, ConstantAssumption
  <2>3. Opened(file) = Rest(assemble(file))
    BY <1>1, <1>3, <2>2, Zenon DEF Opened
  <2>4. PICK a : a = assemble(file)
    OBVIOUS
  <2>5. a.slots = d.history /\ a.cursor = d.cursor /\ a.next = d.next /\ DocOK(d)
    BY <2>4 DEF Clean, State
  <2>6. Rest(a) = d
    BY <2>5, RestIs
  <2> QED
    BY <1>3, <2>3, <2>4, <2>6
<1> QED
  BY <1>2, <1>3

\* What was cut short is left out.
LEMMA CutTaken ==
    ASSUME NEW file, NEW d, Clean(file, d)
    PROVE  assemble(Longer(file, Torn)) = [State(d, Len(file.steps)) EXCEPT !.ok = FALSE]
<1>1. file \in File /\ Torn \in Step \cup {Torn}
  BY DEF Clean
<1>2. assemble(Longer(file, Torn)) = Take(State(d, Len(file.steps)), Torn)
  BY <1>1, AssembledNext DEF Clean
<1> QED
  BY <1>2 DEF Take

\* A file whose last step is torn opens to the document the steps before it reached.
LEMMA CutOpens ==
    ASSUME Roomy, NEW file, NEW d, Cut(file, d) PROVE Opened(file) = d
<1>1. PICK whole : Clean(whole, d) /\ file = Longer(whole, Torn)
  BY DEF Cut
<1>2. /\ file \in File /\ file.payload = whole.payload /\ Len(whole.steps) \in Nat
      /\ Len(file.steps) = Len(whole.steps) + 1
      /\ \A i \in 1..Len(whole.steps) : file.steps[i] = whole.steps[i]
      /\ file.steps[Len(whole.steps) + 1] = Torn
      /\ whole.steps \in Seq(Step \cup {Torn})
  <2>1. whole \in File /\ Torn \in Step \cup {Torn}
    BY <1>1 DEF Clean
  <2> QED
    BY <1>1, <2>1, LongerIs DEF File
<1>3. file # None /\ file.steps # <<>>
  <2>1. file # None
    BY FileIs DEF Sane
  <2>2. Len(file.steps) # 0
    BY <1>2
  <2> QED
    BY <2>1, <2>2
<1>4. CASE whole.steps = <<>>
  <2>1. file.steps[1] = Torn
    BY <1>2, <1>4
  <2>2. Opened(file) = whole.payload
    BY <1>2, <1>3, <2>1 DEF Opened
  <2> QED
    BY <1>1, <1>4, <2>2, CleanOpens
<1>5. CASE whole.steps # <<>>
  <2>1. 1 \in 1..Len(whole.steps)
    BY <1>2, <1>5
  <2>2. file.steps[1] # Torn
    BY <1>1, <1>2, <2>1, ConstantAssumption DEF Clean
  <2>3. Opened(file) = Rest(assemble(file))
    BY <1>3, <2>2, Zenon DEF Opened
  <2>4. PICK a : a = assemble(file)
    OBVIOUS
  <2>5. a.slots = d.history /\ a.cursor = d.cursor /\ a.next = d.next /\ DocOK(d)
    BY <1>1, <2>4, CutTaken DEF Clean, State
  <2>6. Rest(a) = d
    BY <2>5, RestIs
  <2> QED
    BY <2>3, <2>4, <2>6
<1> QED
  BY <1>4, <1>5

\* What opening gives depends on the file alone.
LEMMA SaneOpens ==
    ASSUME Roomy, NEW file, NEW d, Sane(file, d) PROVE Opened(file) = d
BY CleanOpens, CutOpens DEF Sane

\* What is read of a file is a plan for the document it opens as.
PlanFor(plan, d) == plan \in Plan /\ PlanMatches(plan.held, d.history)

\* A plan is read only from a file with nothing torn, and it is the plan for the document it holds.
LEMMA SanePlan ==
    ASSUME NEW file, NEW d, Sane(file, d), read_plan(file) # None
    PROVE  Clean(file, d) /\ PlanFor(read_plan(file), d)
<1>1. ReadSteps(file.steps) # None
  BY DEF read_plan
<1>2. ~Cut(file, d)
  <2> SUFFICES ASSUME Cut(file, d) PROVE FALSE
    OBVIOUS
  <2>1. PICK whole : Clean(whole, d) /\ file = Longer(whole, Torn)
    BY DEF Cut
  <2>2. /\ file \in File /\ Len(whole.steps) \in Nat /\ Len(file.steps) = Len(whole.steps) + 1
        /\ file.steps[Len(whole.steps) + 1] = Torn
    <3>1. whole \in File /\ Torn \in Step \cup {Torn}
      BY <2>1 DEF Clean
    <3> QED
      BY <2>1, <3>1, LongerIs
  <2>3. Len(whole.steps) + 1 \in DOMAIN file.steps
    <3>1. file.steps \in Seq(Step \cup {Torn})
      BY <2>2 DEF File
    <3> QED
      BY <2>2, <3>1
  <2>4. Torn \in Range(file.steps)
    BY <2>2, <2>3 DEF Range
  <2> QED
    BY <1>1, <2>4 DEF ReadSteps
<1>3. Clean(file, d)
  BY <1>2 DEF Sane
<1>4. ReadSteps(file.steps) = file.steps
  BY <1>1 DEF ReadSteps
<1>5. PICK held : held = HeldAfter(file.payload.history, file.steps)
  OBVIOUS
<1>6. read_plan(file) = [held |-> held, side |-> file.side, steps |-> Len(file.steps)]
  BY <1>1, <1>4, <1>5 DEF read_plan
<1>7. PlanMatches(held, d.history) /\ held \in Seq(HeldRevision)
  BY <1>3, <1>5 DEF Clean, PlanMatches
<1>8. file.side \in Sides /\ Len(file.steps) \in Nat
  BY <1>3 DEF Clean, File
<1>9. PlanFor(read_plan(file), d)
  BY <1>6, <1>7, <1>8 DEF PlanFor, Plan
<1> QED
  BY <1>3, <1>9

\* At most the last step is left out.
LEMMA SaneTaken ==
    ASSUME NEW file, NEW d, Sane(file, d)
    PROVE  assemble(file).taken >= Len(file.steps) - 1
<1>1. CASE Clean(file, d)
  <2>1. Len(file.steps) \in Nat /\ assemble(file).taken = Len(file.steps)
    BY <1>1 DEF Clean, File, State
  <2> QED
    BY <2>1
<1>2. CASE Cut(file, d)
  <2>1. PICK whole : Clean(whole, d) /\ file = Longer(whole, Torn)
    BY <1>2 DEF Cut
  <2>2. Len(whole.steps) \in Nat /\ Len(file.steps) = Len(whole.steps) + 1
    <3>1. whole \in File /\ Torn \in Step \cup {Torn}
      BY <2>1 DEF Clean
    <3> QED
      BY <2>1, <3>1, LongerIs
  <2>3. assemble(file).taken = Len(whole.steps)
    BY <2>1, CutTaken DEF State
  <2> QED
    BY <2>2, <2>3
<1> QED
  BY <1>1, <1>2 DEF Sane

-----------------------------------------------------------------------------
(* The invariant *)

\* Opening the file gives a document the session had or is writing.
FilesOK ==
    /\ DocOK(document) /\ DocOK(opens) /\ side \in Sides
    /\ opens = Opened(checkpoint)
    /\ checkpoint # None => Sane(checkpoint, opens)
    /\ identity # None => Sane(identity, document)

\* A plan in memory is one for the checkpoint the session knows.
Follows(plan) == plan # None => Clean(identity, document) /\ PlanFor(plan, document)
ObservedOK ==
    /\ observed # None => identity # None /\ Follows(observed.plan)
    /\ pending = None /\ checkpoint # identity => observed = None

\* What is being written is the next document, as a step if one was planned.
PendingOK ==
    pending # None =>
        /\ DocOK(pending.document)
        /\ pending.planned # None =>
               /\ identity # None /\ Clean(identity, document)
               /\ StepFor(pending.planned.step, document, pending.document)
               /\ PlanFor(pending.planned.plan, pending.document)

Inv == FilesOK /\ ObservedOK /\ PendingOK

\* A step of AtomicCheckpoint, or none.
Maps == Atomic!Next \/ UNCHANGED Atomic!vars

\* A valid document is not None.
LEMMA DocIsNotNone == ASSUME NEW d, DocOK(d) PROVE d # None
BY ConstantAssumption DEF DocOK

\* A written checkpoint opens as what was written.
LEMMA CompleteClean ==
    ASSUME Roomy, Inv, pending # None
    PROVE  Clean(Complete, pending.document)
<1>1. CASE pending.planned = None
  <2>1. Complete = Whole(pending.document, side)
    BY <1>1 DEF Complete
  <2> QED
    BY <2>1, WholeClean DEF Inv, FilesOK, PendingOK
<1>2. CASE pending.planned # None
  <2>1. Complete = Longer(identity, pending.planned.step)
    BY <1>2 DEF Complete, Longer
  <2>2. /\ Clean(identity, document) /\ DocOK(pending.document)
        /\ StepFor(pending.planned.step, document, pending.document)
    BY <1>2 DEF Inv, PendingOK
  <2> QED
    BY <2>1, <2>2, LongerClean
<1> QED
  BY <1>1, <1>2

\* The invariant holds at first, and the first states are first states of AtomicCheckpoint.
LEMMA InitOK == ASSUME Roomy, Init PROVE Inv /\ Atomic!Init
<1>1. FilesOK
  BY SavedOK, ConstantAssumption DEF Init, FilesOK, Opened
<1>2. ObservedOK /\ PendingOK
  BY DEF Init, ObservedOK, PendingOK
<1>3. Atomic!Init
  BY DEF Init, Atomic!Init
<1> QED
  BY <1>1, <1>2, <1>3 DEF Inv

\* A change of side data keeps the invariant and maps to a step or a stutter of AtomicCheckpoint.
LEMMA ChangeSideOK ==
    ASSUME Roomy, Inv, NEW sd \in Sides, change_side(sd) PROVE Inv' /\ Maps
<1>1. /\ pending = None /\ side' \in Sides
      /\ UNCHANGED <<document, checkpoint, identity, observed, recovered, pending, opens>>
  BY DEF change_side
<1>2. FilesOK' /\ ObservedOK' /\ PendingOK'
  BY <1>1 DEF Inv, FilesOK, ObservedOK, PendingOK, Follows
<1>3. Maps
  BY <1>1 DEF Maps, Atomic!vars
<1> QED
  BY <1>2, <1>3 DEF Inv

\* Back at the saved document the current revision is the saved one.
LEMMA AtSavedIs ==
    ASSUME NEW d, DocOK(d), AtSaved(d)
    PROVE  d.history[d.cursor] = Saved.history[Saved.cursor]
<1>1. PICK h, c, g : h = d.history /\ c = d.cursor /\ g = Saved.history
  OBVIOUS
<1>2. h \in Seq(Revision) /\ Len(h) \in Nat /\ c \in 1..Len(h)
  BY <1>1, DocumentIs DEF DocOK
<1>3. g = <<g[1]>> /\ Len(g) = 1 /\ Saved.cursor = 1
  BY <1>1 DEF Saved
<1>4. SubSeq(h, 1, c) = g
  BY <1>1 DEF AtSaved
<1>5. Len(SubSeq(h, 1, c)) = c /\ SubSeq(h, 1, c)[c] = h[c]
  BY <1>2
<1>6. c = 1 /\ h[c] = g[1]
  BY <1>3, <1>4, <1>5
<1> QED
  BY <1>1, <1>3, <1>6

\* Clearing a checkpoint keeps the invariant and maps to AtomicCheckpoint.
LEMMA ClearOK ==
    ASSUME Roomy, Inv, NEW d, clear_work_recovery(d) PROVE Inv' /\ Maps
<1>1. /\ pending = None /\ pending' = None /\ d \in Mutated(document) /\ AtSaved(d)
      /\ document' = d /\ checkpoint' = None /\ identity' = None /\ observed' = None
      /\ opens' = Saved /\ side' = side
  BY DEF clear_work_recovery
<1>2. DocOK(d)
  BY <1>1, MutatedOK DEF Inv, FilesOK
<1>3. FilesOK'
  BY <1>1, <1>2, SavedOK DEF Inv, FilesOK, Opened
<1>4. ObservedOK' /\ PendingOK'
  BY <1>1 DEF ObservedOK, PendingOK
<1>5. Maps
  BY <1>1, <1>2, AtSavedIs DEF Maps, Atomic!Next, Atomic!settle
<1> QED
  BY <1>3, <1>4, <1>5 DEF Inv

\* What the session knows of its checkpoint is in memory or read from it.
LEMMA ObserveOK ==
    ASSUME Inv, checkpoint = identity, observe # None
    PROVE  identity # None /\ Follows(observe.plan)
<1>1. identity # None
  BY DEF observe
<1>2. CASE observed # None
  BY <1>1, <1>2 DEF observe, Inv, ObservedOK
<1>3. CASE observed = None
  <2>1. observe.plan = read_plan(checkpoint)
    BY <1>1, <1>3 DEF observe
  <2> QED
    BY <1>1, <2>1, SanePlan DEF Inv, FilesOK, Follows
<1> QED
  BY <1>2, <1>3

\* The plan after a step is the plan for the document the step reached.
LEMMA PlanAfterOK ==
    ASSUME NEW plan \in Plan, NEW d, DocOK(d) PROVE PlanFor(PlanAfter(plan, d), d)
<1>1. PICK held : held = PlannedAll(d.history)
  OBVIOUS
<1>2. PlanMatches(held, d.history) /\ held \in Seq(HeldRevision)
  BY <1>1, PlannedMatches, DocumentIs DEF DocOK, PlanMatches
<1>3. PICK n : n = plan.steps + 1
  OBVIOUS
<1>4. plan = [held |-> plan.held, side |-> plan.side, steps |-> plan.steps] /\ plan.side \in Sides
  BY DEF Plan
<1>5. n \in Nat
  BY <1>3 DEF Plan
<1>6. PlanAfter(plan, d) = [plan EXCEPT !.held = held, !.steps = n]
  BY <1>1, <1>3 DEF PlanAfter
<1>7. PlanAfter(plan, d) = [held |-> held, side |-> plan.side, steps |-> n]
  BY <1>4, <1>6
<1>8. PlanAfter(plan, d) \in Plan /\ PlanAfter(plan, d).held = held
  BY <1>2, <1>4, <1>5, <1>7 DEF Plan
<1> QED
  BY <1>2, <1>8 DEF PlanFor

\* A checkpoint is begun.
LEMMA WriteOK ==
    ASSUME Roomy, Inv, NEW d, write_work_recovery(d) PROVE Inv' /\ Maps
<1>1. PICK seen, planned :
        /\ seen = observe
        /\ planned = IF seen = None THEN None ELSE plan_step(seen.plan, d, side)
  OBVIOUS
<1>2. /\ pending = None /\ d \in Mutated(document) /\ checkpoint = identity
      /\ observed' = seen /\ pending' = [document |-> d, planned |-> planned]
      /\ UNCHANGED <<document, side, checkpoint, identity, opens>>
  BY <1>1 DEF write_work_recovery
<1>3. DocOK(d) /\ Kin(document, d) /\ DocOK(document)
  BY <1>2, MutatedOK DEF Inv, FilesOK
<1>4. seen # None => identity # None /\ Follows(seen.plan)
  BY <1>1, <1>2, ObserveOK
<1>5. ASSUME planned # None
      PROVE  /\ identity # None /\ Clean(identity, document)
             /\ StepFor(planned.step, document, d) /\ PlanFor(planned.plan, d)
             /\ planned \in [step : Step, plan : Plan]
  <2>1. PICK plan : plan = seen.plan
    OBVIOUS
  <2>2. seen # None /\ planned = plan_step(plan, d, side) /\ plan_step(plan, d, side) # None
    BY <1>1, <1>5, <2>1
  <2>3. plan # None
    BY <2>2, Zenon DEF plan_step
  <2>4. identity # None /\ Clean(identity, document) /\ PlanFor(plan, document)
    BY <1>4, <2>1, <2>2, <2>3 DEF Follows
  <2>5. /\ StepFor(planned.step, document, d)
        /\ planned = [step |-> planned.step, plan |-> PlanAfter(plan, d)]
    BY <1>3, <2>2, <2>4, PlannedStep DEF PlanFor
  <2>6. PlanFor(PlanAfter(plan, d), d)
    BY <1>3, <2>4, PlanAfterOK DEF PlanFor
  <2>7. planned.step \in Step /\ PlanAfter(plan, d) \in Plan
    BY <2>5, <2>6 DEF StepFor, PlanFor
  <2> QED
    BY <2>4, <2>5, <2>6, <2>7
<1>6. pending' # None /\ pending'.document = d /\ pending'.planned = planned
  <2>1. pending' \in Write
    BY <1>2, <1>3, <1>5 DEF Write, DocOK
  <2> QED
    BY <1>2, <2>1, ConstantAssumption
<1>7. FilesOK'
  BY <1>2 DEF Inv, FilesOK
<1>8. ObservedOK'
  BY <1>2, <1>4, <1>6 DEF ObservedOK, Follows
<1>9. PendingOK'
  BY <1>2, <1>3, <1>5, <1>6 DEF PendingOK
<1>10. Maps
  BY <1>2, <1>3, <1>6, DocIsNotNone DEF Maps, Atomic!Next, Atomic!begin
<1> QED
  BY <1>7, <1>8, <1>9, <1>10 DEF Inv

\* A step appended in part keeps the invariant and maps to a step or a stutter of AtomicCheckpoint.
LEMMA AppendOK ==
    ASSUME Roomy, Inv, append_partly PROVE Inv' /\ Maps
<1>1. /\ pending # None /\ pending.planned # None /\ checkpoint = identity
      /\ checkpoint' = Longer(identity, Torn) /\ opens' = Opened(checkpoint')
      /\ UNCHANGED <<document, side, identity, observed, pending>>
  BY DEF append_partly, Longer
<1>2. identity # None /\ Clean(identity, document) /\ DocOK(document)
  BY <1>1 DEF Inv, PendingOK, FilesOK
<1>3. Cut(checkpoint', document)
  BY <1>1, <1>2 DEF Cut
<1>4. opens' = document /\ opens = document
  BY <1>1, <1>2, <1>3, SaneOpens DEF Sane, Inv, FilesOK
<1>5. FilesOK'
  BY <1>1, <1>2, <1>3, <1>4 DEF Inv, FilesOK, Sane
<1>6. ObservedOK' /\ PendingOK'
  BY <1>1 DEF Inv, ObservedOK, PendingOK, Follows
<1>7. Maps
  BY <1>1, <1>4 DEF Maps, Atomic!vars
<1> QED
  BY <1>5, <1>6, <1>7 DEF Inv

\* A checkpoint written whole keeps the invariant and maps to AtomicCheckpoint.
LEMMA CompleteOK ==
    ASSUME Roomy, Inv, write_complete PROVE Inv' /\ Maps
<1>1. /\ pending # None /\ checkpoint' = Complete /\ opens' = Opened(Complete)
      /\ UNCHANGED <<document, side, identity, observed, pending>>
  BY DEF write_complete
<1>2. Clean(Complete, pending.document) /\ DocOK(pending.document)
  BY <1>1, CompleteClean DEF Inv, PendingOK
<1>3. opens' = pending.document
  BY <1>1, <1>2, CleanOpens
<1>4. FilesOK'
  BY <1>1, <1>2, <1>3 DEF Inv, FilesOK, Sane
<1>5. ObservedOK' /\ PendingOK'
  BY <1>1 DEF Inv, ObservedOK, PendingOK, Follows
<1>6. Maps
  BY <1>1, <1>2, <1>3, DocIsNotNone DEF Maps, Atomic!Next, Atomic!publish
<1> QED
  BY <1>4, <1>5, <1>6 DEF Inv

\* An acknowledged write keeps the invariant and maps to AtomicCheckpoint.
LEMMA AcknowledgeOK ==
    ASSUME Roomy, Inv, acknowledge PROVE Inv' /\ Maps
<1>1. PICK plan : plan = IF pending.planned = None THEN read_plan(checkpoint)
                         ELSE pending.planned.plan
  OBVIOUS
<1>2. /\ pending # None /\ checkpoint = Complete
      /\ document' = pending.document /\ identity' = checkpoint
      /\ observed' = [file |-> checkpoint, plan |-> plan] /\ pending' = None
      /\ UNCHANGED <<side, checkpoint, opens>>
  BY <1>1 DEF acknowledge
<1>3. Clean(checkpoint, pending.document) /\ DocOK(pending.document)
  BY <1>2, CompleteClean DEF Inv, PendingOK
<1>4. opens = pending.document /\ checkpoint # None
  BY <1>3, CleanOpens, FileIs DEF Inv, FilesOK, Sane
<1>5. plan # None => PlanFor(plan, pending.document)
  <2>1. CASE pending.planned = None
    BY <1>1, <1>3, <2>1, SanePlan DEF Sane
  <2>2. CASE pending.planned # None
    BY <1>1, <1>2, <2>2 DEF Inv, PendingOK
  <2> QED
    BY <2>1, <2>2
<1>6. FilesOK'
  BY <1>2, <1>3 DEF Inv, FilesOK, Sane
<1>7. observed'.plan = plan
  BY <1>2
<1>8. ObservedOK' /\ PendingOK'
  BY <1>2, <1>3, <1>4, <1>5, <1>7 DEF ObservedOK, PendingOK, Follows
<1>9. Maps
  BY <1>2, <1>3, <1>4, DocIsNotNone DEF Maps, Atomic!Next, Atomic!acknowledge
<1> QED
  BY <1>6, <1>8, <1>9 DEF Inv

\* A failed write keeps the invariant and maps to AtomicCheckpoint.
LEMMA FailsOK ==
    ASSUME Roomy, Inv, write_fails PROVE Inv' /\ Maps
<1>1. /\ pending # None /\ pending' = None
      /\ pending.planned = None => checkpoint = identity
      /\ checkpoint' = identity \/ checkpoint' = checkpoint
      /\ opens' = Opened(checkpoint')
      /\ observed' = None \/ (checkpoint = identity /\ observed' = observed)
      /\ UNCHANGED <<document, side, identity>>
  BY DEF write_fails
<1>2. /\ DocOK(document) /\ DocOK(opens)
      /\ \/ opens' = opens /\ checkpoint' = checkpoint
         \/ opens' = document /\ checkpoint' = identity /\ identity # None
  <2>1. CASE checkpoint' = checkpoint
    BY <1>1, <2>1 DEF Inv, FilesOK
  <2>2. CASE checkpoint' = identity /\ identity # None
    BY <1>1, <2>2, SaneOpens DEF Inv, FilesOK
  <2>3. CASE checkpoint' = identity /\ identity = None
    <3>1. pending.planned = None
      BY <1>1, <2>3 DEF Inv, PendingOK
    <3> QED
      BY <1>1, <2>3, <3>1 DEF Inv, FilesOK
  <2> QED
    BY <1>1, <2>1, <2>2, <2>3
<1>3. FilesOK'
  BY <1>1, <1>2 DEF Inv, FilesOK
<1>4. ObservedOK'
  BY <1>1 DEF Inv, ObservedOK, Follows
<1>5. PendingOK'
  BY <1>1 DEF PendingOK
<1>6. Maps
  <2>1. pending.document # None
    BY <1>1, DocIsNotNone DEF Inv, PendingOK
  <2> QED
    BY <1>1, <1>2, <2>1 DEF Maps, Atomic!Next, Atomic!refuse
<1> QED
  BY <1>3, <1>4, <1>5, <1>6 DEF Inv

\* An open keeps the invariant and gives what AtomicCheckpoint allows.
LEMMA OpenOK ==
    ASSUME Roomy, Inv, NEW known \in BOOLEAN, open(known) PROVE Inv' /\ Maps
<1>1. /\ document' = opens /\ identity' = checkpoint /\ pending' = None
      /\ side' = IF checkpoint = None THEN CHOOSE sd \in Sides : TRUE ELSE checkpoint.side
      /\ observed' = None \/ (pending = None /\ observed' = observed)
      /\ UNCHANGED <<checkpoint, opens>>
  BY DEF open
<1>2. side' \in Sides
  <2>1. CASE checkpoint = None
    BY <1>1, <2>1, ConstantAssumption
  <2>2. CASE checkpoint # None
    BY <1>1, <2>2, FileIs DEF Inv, FilesOK
  <2> QED
    BY <2>1, <2>2
<1>3. FilesOK'
  BY <1>1, <1>2 DEF Inv, FilesOK
<1>4. ASSUME observed' # None
      PROVE  identity' # None /\ Follows(observed.plan)' /\ observed' = observed
  <2>1. /\ observed' = observed /\ checkpoint = identity /\ identity # None
        /\ Follows(observed.plan)
    BY <1>1, <1>4 DEF Inv, ObservedOK
  <2>2. opens = document
    BY <2>1, SaneOpens DEF Inv, FilesOK
  <2> QED
    BY <1>1, <2>1, <2>2 DEF Follows
<1>5. ObservedOK'
  BY <1>1, <1>4 DEF ObservedOK
<1>6. PendingOK'
  BY <1>1 DEF PendingOK
<1>7. Maps
  BY <1>1 DEF Maps, Atomic!Next, Atomic!reopen
<1> QED
  BY <1>3, <1>5, <1>6, <1>7 DEF Inv

\* Every step keeps the invariant and maps to a step or a stutter of AtomicCheckpoint.
LEMMA NextOK ==
    ASSUME Roomy, Inv, [Next]_vars PROVE Inv' /\ Maps
<1>1. CASE UNCHANGED vars
  <2>1. Inv'
    BY <1>1 DEF vars, Inv, FilesOK, ObservedOK, PendingOK, Follows
  <2>2. Maps
    BY <1>1 DEF vars, Maps, Atomic!vars
  <2> QED
    BY <2>1, <2>2
<1>2. CASE \E sd \in Sides : change_side(sd)
  BY <1>2, ChangeSideOK
<1>3. CASE \E d \in Mutated(document) : clear_work_recovery(d) \/ write_work_recovery(d)
  BY <1>3, ClearOK, WriteOK
<1>4. CASE append_partly
  BY <1>4, AppendOK
<1>5. CASE write_complete
  BY <1>5, CompleteOK
<1>6. CASE acknowledge
  BY <1>6, AcknowledgeOK
<1>7. CASE write_fails
  BY <1>7, FailsOK
<1>8. CASE \E known \in BOOLEAN : open(known)
  BY <1>8, OpenOK
<1> QED
  BY <1>1, <1>2, <1>3, <1>4, <1>5, <1>6, <1>7, <1>8 DEF Next

\* The invariant always holds.
LEMMA Invariance == ASSUME Roomy PROVE Spec => []Inv
<1>1. Init => Inv
  BY InitOK
<1>2. Inv /\ [Next]_vars => Inv'
  BY NextOK
<1> QED
  BY <1>1, <1>2, PTL DEF Spec

-----------------------------------------------------------------------------
(* What a reader should know of *)

\* Whatever is edited, undone, named, cut short or refused, no step is ever appended after
\* one that opening leaves out, where opening has room for a history of the greatest length
\* (write_work_recovery writes the checkpoint whole instead).
THEOREM StepsAreRead ==
    ASSUME UndoLimit < Budget PROVE Spec => []NoStepAfterUnreadable
<1>1. Inv => NoStepAfterUnreadable
  BY SaneTaken DEF Inv, FilesOK, NoStepAfterUnreadable
<1> QED
  BY <1>1, Invariance, PTL DEF Roomy

\* A checkpoint kept as a base and steps is as good as one written whole: opening gives the
\* document that was acknowledged or the one being written (append_step, assemble_checkpoint).
THEOREM StepsAreAtomic ==
    ASSUME UndoLimit < Budget PROVE Spec => ImplementsAtomicCheckpoint
<1>1. Roomy
  BY DEF Roomy
<1>2. Init => Atomic!Init
  BY <1>1, InitOK
<1>3. Inv /\ [Next]_vars => [Atomic!Next]_(Atomic!vars)
  BY <1>1, NextOK DEF Maps
<1> QED
  BY <1>1, <1>2, <1>3, Invariance, PTL DEF Spec, Atomic!Spec, ImplementsAtomicCheckpoint

=============================================================================
