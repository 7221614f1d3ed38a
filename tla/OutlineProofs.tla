---------------------------- MODULE OutlineProofs ----------------------------
(* The Tasks tab, with any number of requests under way: no deletion is      *)
(* forgotten, nothing is deleted that the user did not want deleted, no row  *)
(* jumps when the answer to a move comes, and Undo restores what was shown.  *)
(*                                                                           *)
(* First trees, lists and what the server makes of a request; then requests, *)
(* the forms of a step, the rows on screen and the invariant about deleting; *)
(* then orders and paths, what is shown of two lists that are alike, moves   *)
(* and completions that are taken back, and the invariant about them.        *)
EXTENDS Outline, TreeProofs, DataProofs

-----------------------------------------------------------------------------
(* Parents.                                                                *)

\* Where two trees agree on a part that is closed upwards, they have the same
\* ancestors there.
LEMMA SameAncestors ==
  ASSUME NEW up, NEW other, NEW T \in SUBSET Task, NEW x \in T,
         \A y \in T : other[y] = up[y] /\ (up[y] # Null => up[y] \in T)
  PROVE  Ancestors(other, x) = Ancestors(up, x)
<1> DEFINE S == T \cap Ancestors(up, x)
           R == T \cap Ancestors(other, x)
<1>1. \A y \in S \cup {x} : other[y] # Null => other[y] \in S
  BY DEF Ancestors
<1>2. \A y \in R \cup {x} : up[y] # Null => up[y] \in R
  BY DEF Ancestors
<1>3. S \in SUBSET Task /\ R \in SUBSET Task
  BY DEF Ancestors
<1>4. S \subseteq Ancestors(up, x) /\ R \subseteq Ancestors(other, x)
  OBVIOUS
<1> HIDE DEF S, R
<1>5. Ancestors(other, x) \subseteq S /\ Ancestors(up, x) \subseteq R
  BY <1>1, <1>2, <1>3, AncestorsLeast
<1>6. QED
  BY <1>4, <1>5

\* A task moved to a place that is not below it leaves the tree rooted.
LEMMA MoveKeepsRooted ==
  ASSUME NEW up \in [Task -> Task \cup {Null}], Rooted(up), NEW t \in Task, NEW p \in Task \cup {Null},
         p # t, p \notin Below(up, t)
  PROVE  Rooted([up EXCEPT ![t] = p])
<1> DEFINE other == [up EXCEPT ![t] = p]
<1>1. SUFFICES ASSUME NEW S \in SUBSET Task, S # {}, \A y \in S : other[y] \in S PROVE FALSE
  BY DEF Rooted
<1> DEFINE T == {y \in S : y # t /\ y \notin Below(up, t)}
<1>2. ASSUME NEW y \in T PROVE up[y] \in T
  <2>1. y \in Task /\ y # t /\ t \notin Ancestors(up, y) /\ up[y] \in S
    BY <1>1, <1>2 DEF Below
  <2>2. up[y] \in Task /\ up[y] # Null
    BY <2>1, NullAssumption
  <2>3. Ancestors(up, y) = {up[y]} \cup Ancestors(up, up[y])
    BY <2>1, <2>2, AncestorsStep, NullAssumption
  <2>4. QED
    BY <2>1, <2>2, <2>3 DEF Below
<1>3. T # {}
  <2>1. CASE t \in S
    <3>1. p \in S
      BY <1>1, <2>1
    <3>2. QED
      BY <3>1
  <2>2. CASE t \notin S
    <3>1. PICK y \in S : up[y] \notin S
      BY <1>1 DEF Rooted
    <3>2. QED
      BY <1>1, <2>2, <3>1
  <2>3. QED
    BY <2>1, <2>2
<1>4. T \in SUBSET Task
  OBVIOUS
<1> HIDE DEF T
<1>5. QED
  BY <1>2, <1>3, <1>4 DEF Rooted

\* Taking parents away leaves it rooted.
LEMMA CutKeepsRooted ==
  ASSUME NEW up, NEW other, Rooted(up), \A x \in Task : other[x] \in {up[x], Null}
  PROVE  Rooted(other)
<1>1. SUFFICES ASSUME NEW S \in SUBSET Task, S # {}, \A y \in S : other[y] \in S PROVE FALSE
  BY DEF Rooted
<1>2. \A y \in S : up[y] \in S
  BY <1>1, NullAssumption
<1>3. QED
  BY <1>1, <1>2 DEF Rooted

\* Lifting what is below a task takes it out of the ways up.
LEMMA LiftKeepsRest ==
  ASSUME NEW up \in [Task -> Task \cup {Null}], Rooted(up), NEW t \in Task, NEW other,
         \A x \in Task : other[x] = IF x = t THEN Null ELSE IF up[x] = t THEN up[t] ELSE up[x]
  PROVE  /\ Rooted(other)
         /\ \A x \in Task : x # t => Ancestors(other, x) = Ancestors(up, x) \ {t}
<1>0. t \notin Ancestors(up, t) /\ up[t] # t
  BY RootedNotOwn, AncestorsClosed, NullAssumption
<1>1. Rooted(other)
  <2>1. SUFFICES ASSUME NEW S \in SUBSET Task, S # {}, \A y \in S : other[y] \in S PROVE FALSE
    BY DEF Rooted
  <2>2. t \notin S
    BY <2>1, NullAssumption
  <2>3. CASE \E y \in S : up[y] = t
    <3>1. \A y \in S \cup {t} : up[y] \in S \cup {t}
      BY <2>1, <2>2, <2>3
    <3>2. S \cup {t} \in SUBSET Task /\ S \cup {t} # {}
      OBVIOUS
    <3>3. QED
      BY <3>1, <3>2 DEF Rooted
  <2>4. CASE \A y \in S : up[y] # t
    <3>1. \A y \in S : up[y] \in S
      BY <2>1, <2>2, <2>4
    <3>2. QED
      BY <2>1, <3>1 DEF Rooted
  <2>5. QED
    BY <2>3, <2>4
<1>2. ASSUME NEW x \in Task, x # t PROVE Ancestors(other, x) = Ancestors(up, x) \ {t}
  <2> DEFINE S == Ancestors(up, x) \ {t}
             R == {z \in Task : \/ z \in Ancestors(other, x)
                                \/ z = t /\ (up[t] # Null => up[t] \in Ancestors(other, x))}
  <2>1. \A y \in Ancestors(up, x) \cup {x} : up[y] # Null => up[y] \in Ancestors(up, x)
    BY AncestorsClosed
  <2>2. ASSUME NEW y \in S \cup {x}, other[y] # Null PROVE other[y] \in S
    <3>1. y \in Task /\ y # t /\ y \in Ancestors(up, x) \cup {x}
      BY <1>2, <2>2 DEF Ancestors
    <3>2. CASE up[y] = t
      <4>1. t \in Ancestors(up, x)
        BY <2>1, <3>1, <3>2, NullAssumption
      <4>2. other[y] = up[t]
        BY <3>1, <3>2
      <4>3. QED
        BY <1>0, <2>1, <2>2, <4>1, <4>2
    <3>3. CASE up[y] # t
      <4>1. other[y] = up[y]
        BY <3>1, <3>3
      <4>2. QED
        BY <2>1, <2>2, <3>1, <3>3, <4>1
    <3>4. QED
      BY <3>2, <3>3
  <2>3. S \in SUBSET Task /\ R \in SUBSET Task
    BY DEF Ancestors
  <2>4. Ancestors(other, x) \subseteq S
    <3> HIDE DEF S
    <3>1. QED
      BY <2>2, <2>3, AncestorsLeast
  <2>5. \A y \in Ancestors(other, x) \cup {x} : y \in Task /\ y # t
    BY <1>2, <2>4 DEF Ancestors
  <2>6. \A y \in Ancestors(other, x) \cup {x} : other[y] # Null => other[y] \in Ancestors(other, x)
    BY DEF Ancestors
  <2>7. ASSUME NEW y \in R \cup {x}, up[y] # Null PROVE up[y] \in R
    <3>1. CASE y \in Ancestors(other, x) \cup {x}
      BY <2>5, <2>6, <2>7, <3>1
    <3>2. CASE y = t /\ t \notin Ancestors(other, x)
      <4>1. y \in R
        BY <1>2, <2>7, <3>2
      <4>2. up[t] \in Ancestors(other, x)
        BY <2>7, <3>2, <4>1
      <4>3. up[y] = up[t] /\ up[t] \in Task
        BY <3>2, <4>2 DEF Ancestors
      <4>4. QED
        BY <4>2, <4>3
    <3>3. QED
      BY <2>7, <3>1, <3>2
  <2>8. Ancestors(up, x) \subseteq R
    <3> HIDE DEF R
    <3>1. QED
      BY <2>3, <2>7, AncestorsLeast
  <2>9. QED
    BY <2>4, <2>8
<1>3. QED
  BY <1>1, <1>2

\* Where no task is above itself, finitely many tasks are rooted.
LEMMA NoLoopIsRooted ==
  ASSUME NEW up \in [Task -> Task \cup {Null}], IsFiniteSet(Task), \A x \in Task : x \notin Ancestors(up, x)
  PROVE  Rooted(up)
<1>1. SUFFICES ASSUME NEW S \in SUBSET Task, S # {}, \A y \in S : up[y] \in S PROVE FALSE
  BY DEF Rooted
<1> DEFINE N == {Cardinality(Ancestors(up, y)) : y \in S}
<1>2. ASSUME NEW y \in Task PROVE IsFiniteSet(Ancestors(up, y)) /\ Cardinality(Ancestors(up, y)) \in Nat
  <2>1. Ancestors(up, y) \in SUBSET Task
    BY DEF Ancestors
  <2>2. QED
    BY <2>1, FS_Subset, FS_CardinalityType
<1>3. PICK m \in N : \A n \in N : m <= n
  <2>1. N \in SUBSET Nat /\ N # {}
    BY <1>1, <1>2
  <2> HIDE DEF N
  <2>2. QED
    BY <2>1, LeastNat
<1>4. PICK y \in S : m = Cardinality(Ancestors(up, y))
  OBVIOUS
<1>5. /\ y \in Task /\ up[y] \in S /\ up[y] \in Task /\ up[y] \in Ancestors(up, y)
      /\ Ancestors(up, up[y]) \subseteq Ancestors(up, y)
  BY <1>1, AncestorsClosed, AncestorsOfAncestors, NullAssumption
<1>6. Ancestors(up, up[y]) # Ancestors(up, y)
  BY <1>5
<1>7. Cardinality(Ancestors(up, up[y])) < Cardinality(Ancestors(up, y))
  <2>1. /\ Cardinality(Ancestors(up, up[y])) <= Cardinality(Ancestors(up, y))
        /\ Cardinality(Ancestors(up, up[y])) # Cardinality(Ancestors(up, y))
    BY <1>2, <1>5, <1>6, FS_Subset
  <2>2. Cardinality(Ancestors(up, up[y])) \in Nat /\ Cardinality(Ancestors(up, y)) \in Nat
    BY <1>2, <1>5
  <2>3. QED
    BY <2>1, <2>2
<1>8. m <= Cardinality(Ancestors(up, up[y]))
  BY <1>3, <1>5
<1>9. QED
  BY <1>2, <1>4, <1>5, <1>7, <1>8

-----------------------------------------------------------------------------
(* Lists of tasks.                                                         *)

IsRow(row) == row = [up |-> row.up, order |-> row.order, done |-> row.done, path |-> row.path]
IsList(tasks) ==
  /\ DOMAIN tasks \in SUBSET Task /\ tasks = [t \in DOMAIN tasks |-> tasks[t]]
  /\ \A t \in DOMAIN tasks : IsRow(tasks[t])

\* A list as the server has it: a tree.
IsTree(tasks) ==
  /\ IsList(tasks)
  /\ \A t \in DOMAIN tasks : tasks[t].up \in DOMAIN tasks \cup {Null}
  /\ Rooted(Parents(tasks))

\* The parents of a tree are a function that ends within it.
LEMMA ParentsAre ==
  ASSUME NEW tasks, IsTree(tasks)
  PROVE  /\ Parents(tasks) \in [Task -> Task \cup {Null}] /\ Rooted(Parents(tasks))
         /\ \A x \in Task : Parents(tasks)[x] # Null => x \in DOMAIN tasks /\ Parents(tasks)[x] \in DOMAIN tasks
         /\ \A x \in DOMAIN tasks : Parents(tasks)[x] = tasks[x].up
BY DEF IsTree, IsList, Parents

\* What is below a task is in the tree.
LEMMA UnderIs ==
  ASSUME NEW tasks, IsTree(tasks), NEW t
  PROVE  /\ Under(tasks, t) \subseteq DOMAIN tasks
         /\ Under(tasks, t) # {} => t \in DOMAIN tasks
<1>1. ASSUME NEW x \in Under(tasks, t) PROVE x \in DOMAIN tasks /\ t \in DOMAIN tasks
  <2>1. x \in Task /\ t \in Ancestors(Parents(tasks), x)
    BY DEF Under, Below
  <2>2. Parents(tasks)[x] # Null
    BY <2>1, ParentsAre, AncestorsStep, NullAssumption
  <2>3. Ancestors(Parents(tasks), x) \subseteq DOMAIN tasks
    <3>1. DOMAIN tasks \in SUBSET Task
      BY DEF IsTree, IsList
    <3>2. QED
      BY <2>1, <3>1, ParentsAre, AncestorsIn
  <2>4. QED
    BY <2>1, <2>2, <2>3, ParentsAre
<1>2. QED
  BY <1>1

\* Numbering changes the order only.
LEMMA NumberedIs ==
  ASSUME NEW tasks, IsList(tasks), NEW line
  PROVE  /\ IsList(Numbered(tasks, line)) /\ DOMAIN Numbered(tasks, line) = DOMAIN tasks
         /\ \A s \in DOMAIN tasks :
              /\ Numbered(tasks, line)[s].up = tasks[s].up /\ Numbered(tasks, line)[s].done = tasks[s].done
              /\ Numbered(tasks, line)[s].path = tasks[s].path
              /\ Numbered(tasks, line)[s].order = IF s \in ToSet(line) THEN IndexOf(line, s) ELSE tasks[s].order
<1> DEFINE new == Numbered(tasks, line)
<1>1. DOMAIN new = DOMAIN tasks /\ new = [s \in DOMAIN tasks |-> new[s]]
  BY DEF Numbered
<1>2. ASSUME NEW s \in DOMAIN tasks
      PROVE  new[s] = [up |-> tasks[s].up, done |-> tasks[s].done, path |-> tasks[s].path,
                       order |-> IF s \in ToSet(line) THEN IndexOf(line, s) ELSE tasks[s].order]
  <2>1. tasks[s] = [up |-> tasks[s].up, order |-> tasks[s].order, done |-> tasks[s].done, path |-> tasks[s].path]
    BY DEF IsList, IsRow
  <2>2. new[s] = IF s \in ToSet(line) THEN [tasks[s] EXCEPT !.order = IndexOf(line, s)] ELSE tasks[s]
    BY DEF Numbered
  <2>3. QED
    BY <2>1, <2>2
<1> HIDE DEF new
<1>3. ASSUME NEW s \in DOMAIN tasks PROVE IsRow(new[s])
  <2>1. PICK a, b, c, d : new[s] = [up |-> a, order |-> b, done |-> c, path |-> d]
    BY <1>2
  <2>2. new[s].up = a /\ new[s].order = b /\ new[s].done = c /\ new[s].path = d
    BY <2>1
  <2>3. QED
    BY <2>1, <2>2 DEF IsRow
<1>4. IsList(new)
  BY <1>1, <1>3 DEF IsList
<1>5. QED
  BY <1>1, <1>2, <1>4 DEF new

\* The lines that a move numbers.
Placed(tasks, t, p, i) == Inserted(SiblingsWithout(tasks, p, t), i, t)
Left(tasks, t, p) == IF tasks[t].up = p THEN <<>> ELSE SiblingsWithout(tasks, tasks[t].up, t)

\* A move gives one task another parent and numbers two lines.
LEMMA MovedIs ==
  ASSUME NEW tasks, IsList(tasks), NEW t \in DOMAIN tasks, NEW p, NEW i
  PROVE  /\ IsList(Moved(tasks, t, p, i)) /\ DOMAIN Moved(tasks, t, p, i) = DOMAIN tasks
         /\ \A s \in DOMAIN tasks :
              /\ Moved(tasks, t, p, i)[s].up = IF s = t THEN p ELSE tasks[s].up
              /\ Moved(tasks, t, p, i)[s].done = tasks[s].done
              /\ Moved(tasks, t, p, i)[s].path = tasks[s].path
              /\ Moved(tasks, t, p, i)[s].order =
                   IF s \in ToSet(Left(tasks, t, p)) THEN IndexOf(Left(tasks, t, p), s)
                   ELSE IF s \in ToSet(Placed(tasks, t, p, i)) THEN IndexOf(Placed(tasks, t, p, i), s)
                   ELSE tasks[s].order
<1> DEFINE hung == [tasks EXCEPT ![t].up = p]
           one == Numbered(hung, Placed(tasks, t, p, i))
<1>1. /\ DOMAIN hung = DOMAIN tasks
      /\ \A s \in DOMAIN tasks : hung[s] = IF s = t THEN [tasks[t] EXCEPT !.up = p] ELSE tasks[s]
      /\ hung = [s \in DOMAIN tasks |-> hung[s]]
  OBVIOUS
<1>2. \A s \in DOMAIN tasks : tasks[s] = [up |-> tasks[s].up, order |-> tasks[s].order, done |-> tasks[s].done,
                                          path |-> tasks[s].path]
  BY DEF IsList, IsRow
<1> HIDE DEF hung
<1>3. \A s \in DOMAIN tasks : hung[s] = [up |-> IF s = t THEN p ELSE tasks[s].up, order |-> tasks[s].order,
                                         done |-> tasks[s].done, path |-> tasks[s].path]
  BY <1>1, <1>2
<1>4. ASSUME NEW s \in DOMAIN tasks PROVE IsRow(hung[s])
  <2>1. PICK a, b, c, d : hung[s] = [up |-> a, order |-> b, done |-> c, path |-> d]
    BY <1>3
  <2>2. hung[s].up = a /\ hung[s].order = b /\ hung[s].done = c /\ hung[s].path = d
    BY <2>1
  <2>3. QED
    BY <2>1, <2>2 DEF IsRow
<1>5. IsList(hung)
  BY <1>1, <1>4 DEF IsList
<1>6. Moved(tasks, t, p, i) = Numbered(one, Left(tasks, t, p))
  BY DEF Moved, Placed, Left, hung
<1>7. /\ IsList(one) /\ DOMAIN one = DOMAIN hung
      /\ \A s \in DOMAIN hung :
           /\ one[s].up = hung[s].up /\ one[s].done = hung[s].done /\ one[s].path = hung[s].path
           /\ one[s].order = IF s \in ToSet(Placed(tasks, t, p, i)) THEN IndexOf(Placed(tasks, t, p, i), s)
                             ELSE hung[s].order
  BY <1>5, NumberedIs
<1> HIDE DEF one
<1>8. /\ IsList(Moved(tasks, t, p, i)) /\ DOMAIN Moved(tasks, t, p, i) = DOMAIN one
      /\ \A s \in DOMAIN one :
           /\ Moved(tasks, t, p, i)[s].up = one[s].up /\ Moved(tasks, t, p, i)[s].done = one[s].done
           /\ Moved(tasks, t, p, i)[s].path = one[s].path
           /\ Moved(tasks, t, p, i)[s].order = IF s \in ToSet(Left(tasks, t, p)) THEN IndexOf(Left(tasks, t, p), s)
                                               ELSE one[s].order
  BY <1>6, <1>7, NumberedIs
<1>9. QED
  BY <1>1, <1>3, <1>7, <1>8

\* Completing and reopening change what is done only.
SameShape(new, tasks) ==
  /\ IsList(new) /\ DOMAIN new = DOMAIN tasks
  /\ \A s \in DOMAIN tasks : new[s].up = tasks[s].up /\ new[s].order = tasks[s].order /\ new[s].path = tasks[s].path
DoneAlso(new, tasks, ts, to) ==
  \A s \in DOMAIN tasks : new[s].done = IF s \in ts THEN to ELSE tasks[s].done

\* The tree is the same but for that.
LEMMA SetDoneIs ==
  ASSUME NEW tasks, IsList(tasks), NEW ts, NEW to
  PROVE  /\ SameShape(SetDone(tasks, ts, to), tasks)
         /\ DoneAlso(SetDone(tasks, ts, to), tasks, ts, to)
<1> DEFINE new == SetDone(tasks, ts, to)
<1>1. DOMAIN new = DOMAIN tasks /\ new = [s \in DOMAIN tasks |-> new[s]]
  BY DEF SetDone
<1>2. ASSUME NEW s \in DOMAIN tasks
      PROVE  new[s] = [up |-> tasks[s].up, order |-> tasks[s].order, path |-> tasks[s].path,
                       done |-> IF s \in ts THEN to ELSE tasks[s].done]
  <2>1. tasks[s] = [up |-> tasks[s].up, order |-> tasks[s].order, done |-> tasks[s].done, path |-> tasks[s].path]
    BY DEF IsList, IsRow
  <2>2. new[s] = IF s \in ts THEN [tasks[s] EXCEPT !.done = to] ELSE tasks[s]
    BY DEF SetDone
  <2>3. QED
    BY <2>1, <2>2
<1> HIDE DEF new
<1>3. ASSUME NEW s \in DOMAIN tasks PROVE IsRow(new[s])
  <2>1. PICK a, b, c, d : new[s] = [up |-> a, order |-> b, done |-> c, path |-> d]
    BY <1>2
  <2>2. new[s].up = a /\ new[s].order = b /\ new[s].done = c /\ new[s].path = d
    BY <2>1
  <2>3. QED
    BY <2>1, <2>2 DEF IsRow
<1>4. IsList(new)
  BY <1>1, <1>3 DEF IsList
<1>5. SameShape(new, tasks)
  BY <1>1, <1>2, <1>4 DEF SameShape
<1>6. DoneAlso(new, tasks, ts, to)
  BY <1>1, <1>2 DEF DoneAlso
<1>7. QED
  BY <1>5, <1>6 DEF new

\* Deleting leaves the others as they were.
LEMMA WithoutIs ==
  ASSUME NEW tasks, IsList(tasks), NEW gone
  PROVE  /\ IsList(Without(tasks, gone)) /\ DOMAIN Without(tasks, gone) = DOMAIN tasks \ gone
         /\ \A s \in DOMAIN tasks \ gone : Without(tasks, gone)[s] = tasks[s]
BY DEF Without, IsList

\* Lifting gives the subtasks their parent's parent.
RaisedFrom(new, tasks, t) ==
  \A s \in DOMAIN tasks \ {t} :
    /\ tasks[s].up = t => new[s].up = tasks[t].up
    /\ tasks[s].up # t => new[s].up = tasks[s].up
    /\ new[s].done = tasks[s].done

\* In their new line they are numbered.
LiftLine(tasks, t) ==
  LET all == Siblings(tasks, tasks[t].up)
      at == IndexOf(all, t) IN
  SubSeq(all, 1, at) \o Siblings(tasks, t) \o SubSeq(all, at + 2, Len(all))
LineNumbered(new, tasks, t) ==
  \A s \in DOMAIN tasks \ {t} :
    new[s].order = IF HasKids(tasks, t) /\ s \in ToSet(LiftLine(tasks, t)) THEN IndexOf(LiftLine(tasks, t), s)
                   ELSE tasks[s].order

\* What is lifted is as it was but for that.
LEMMA LiftedIs ==
  ASSUME NEW tasks, IsList(tasks), NEW t \in DOMAIN tasks
  PROVE  /\ IsList(Lifted(tasks, t)) /\ DOMAIN Lifted(tasks, t) = DOMAIN tasks \ {t}
         /\ RaisedFrom(Lifted(tasks, t), tasks, t) /\ LineNumbered(Lifted(tasks, t), tasks, t)
<1> DEFINE p == tasks[t].up
           raised == [c \in DOMAIN tasks |-> IF tasks[c].up = t THEN [tasks[c] EXCEPT !.up = p] ELSE tasks[c]]
           all == Siblings(tasks, p)
           at == IndexOf(all, t)
           placed == SubSeq(all, 1, at) \o Siblings(tasks, t) \o SubSeq(all, at + 2, Len(all))
<1>1. Lifted(tasks, t) = Without(IF HasKids(tasks, t) THEN Numbered(raised, placed) ELSE tasks, {t})
  BY DEF Lifted
<1>2. ASSUME NEW s \in DOMAIN tasks
      PROVE  /\ raised[s] = [up |-> IF tasks[s].up = t THEN p ELSE tasks[s].up, order |-> tasks[s].order,
                             done |-> tasks[s].done, path |-> tasks[s].path]
             /\ IsRow(raised[s]) /\ raised[s].done = tasks[s].done
             /\ tasks[s].up = t => raised[s].up = p
             /\ tasks[s].up # t => raised[s].up = tasks[s].up
             /\ raised[s].order = tasks[s].order
  <2>1. tasks[s] = [up |-> tasks[s].up, order |-> tasks[s].order, done |-> tasks[s].done, path |-> tasks[s].path]
    BY DEF IsList, IsRow
  <2>2. raised[s] = IF tasks[s].up = t THEN [tasks[s] EXCEPT !.up = p] ELSE tasks[s]
    OBVIOUS
  <2>3. raised[s] = [up |-> IF tasks[s].up = t THEN p ELSE tasks[s].up, order |-> tasks[s].order,
                     done |-> tasks[s].done, path |-> tasks[s].path]
    BY <2>1, <2>2
  <2> HIDE DEF raised
  <2>4. PICK a, b, c, d : raised[s] = [up |-> a, order |-> b, done |-> c, path |-> d]
    BY <2>3
  <2>5. raised[s].up = a /\ raised[s].order = b /\ raised[s].done = c /\ raised[s].path = d
    BY <2>4
  <2>6. QED
    BY <2>3, <2>4, <2>5 DEF IsRow
<1>3. IsList(raised) /\ DOMAIN raised = DOMAIN tasks
  <2>1. DOMAIN raised = DOMAIN tasks /\ raised = [s \in DOMAIN raised |-> raised[s]]
    OBVIOUS
  <2> HIDE DEF raised
  <2>2. QED
    BY <1>2, <2>1 DEF IsList
<1>4. placed = LiftLine(tasks, t)
  BY DEF LiftLine
<1> HIDE DEF p, raised, placed
<1>5. CASE HasKids(tasks, t)
  <2> DEFINE new == Numbered(raised, placed)
  <2>1. /\ IsList(new) /\ DOMAIN new = DOMAIN tasks
        /\ \A s \in DOMAIN tasks :
             /\ new[s].up = raised[s].up /\ new[s].done = raised[s].done
             /\ new[s].order = IF s \in ToSet(placed) THEN IndexOf(placed, s) ELSE raised[s].order
    BY <1>3, NumberedIs
  <2>2. Lifted(tasks, t) = Without(new, {t})
    BY <1>1, <1>5
  <2> HIDE DEF new
  <2>3. /\ IsList(Without(new, {t})) /\ DOMAIN Without(new, {t}) = DOMAIN new \ {t}
        /\ \A s \in DOMAIN new \ {t} : Without(new, {t})[s] = new[s]
    BY ONLY <2>1, WithoutIs
  <2>4. ASSUME NEW s \in DOMAIN tasks
        PROVE  /\ tasks[s].up = t => raised[s].up = p
               /\ tasks[s].up # t => raised[s].up = tasks[s].up
               /\ raised[s].done = tasks[s].done /\ raised[s].order = tasks[s].order
    BY <1>2
  <2> DEFINE lifted == Without(new, {t})
  <2>5. /\ IsList(lifted) /\ DOMAIN lifted = DOMAIN tasks \ {t}
        /\ \A s \in DOMAIN tasks \ {t} :
             /\ tasks[s].up = t => lifted[s].up = p
             /\ tasks[s].up # t => lifted[s].up = tasks[s].up
             /\ lifted[s].done = tasks[s].done
             /\ lifted[s].order = IF s \in ToSet(placed) THEN IndexOf(placed, s) ELSE tasks[s].order
    <3>1. IsList(lifted) /\ DOMAIN lifted = DOMAIN tasks \ {t} /\ \A s \in DOMAIN tasks \ {t} : lifted[s] = new[s]
      BY <2>1, <2>3
    <3> HIDE DEF lifted
    <3>2. QED
      BY <2>1, <2>4, <3>1
  <2>6. RaisedFrom(lifted, tasks, t)
    <3> HIDE DEF lifted
    <3>1. QED
      BY <2>5 DEF p, RaisedFrom
  <2>7. LineNumbered(lifted, tasks, t)
    <3> HIDE DEF lifted
    <3>1. QED
      BY <1>5, <1>4, <2>5 DEF LineNumbered
  <2>8. QED
    BY <2>2, <2>5, <2>6, <2>7
<1>6. CASE ~ HasKids(tasks, t)
  <2>1. Lifted(tasks, t) = Without(tasks, {t})
    BY <1>1, <1>6
  <2>2. \A s \in DOMAIN tasks : tasks[s].up # t
    BY <1>6 DEF HasKids, KidsOf
  <2>3. /\ IsList(Without(tasks, {t})) /\ DOMAIN Without(tasks, {t}) = DOMAIN tasks \ {t}
        /\ \A s \in DOMAIN tasks \ {t} : Without(tasks, {t})[s] = tasks[s]
    BY WithoutIs
  <2> DEFINE lifted == Without(tasks, {t})
  <2> HIDE DEF lifted
  <2>4. RaisedFrom(lifted, tasks, t)
    BY <2>2, <2>3 DEF RaisedFrom, lifted
  <2>5. LineNumbered(lifted, tasks, t)
    BY <1>6, <2>3 DEF LineNumbered, lifted
  <2>6. QED
    BY <2>1, <2>3, <2>4, <2>5 DEF lifted
<1>7. QED
  BY <1>5, <1>6

-----------------------------------------------------------------------------
(* What the server makes of a request leaves a tree.                       *)

\* As long as no parent changes it stays the tree it is.
LEMMA SameParents ==
  ASSUME NEW tasks, IsTree(tasks), NEW new, IsList(new), DOMAIN new = DOMAIN tasks,
         \A s \in DOMAIN tasks : new[s].up = tasks[s].up
  PROVE  Parents(new) = Parents(tasks) /\ IsTree(new)
<1>1. Parents(new) = Parents(tasks)
  BY DEF Parents
<1>2. QED
  BY <1>1 DEF IsTree

\* Where a task may be moved it leaves a tree.
LEMMA MoveKeepsTree ==
  ASSUME NEW tasks, IsTree(tasks), NEW t \in DOMAIN tasks, NEW p, NEW i,
         p = Null \/ (p \in DOMAIN tasks /\ p # t /\ p \notin Under(tasks, t))
  PROVE  /\ IsTree(Moved(tasks, t, p, i)) /\ DOMAIN Moved(tasks, t, p, i) = DOMAIN tasks
         /\ Parents(Moved(tasks, t, p, i)) = [Parents(tasks) EXCEPT ![t] = p]
<1> DEFINE new == Moved(tasks, t, p, i)
           up == Parents(tasks)
<1>1. IsList(tasks) /\ DOMAIN tasks \in SUBSET Task
  BY DEF IsTree, IsList
<1>2. /\ IsList(new) /\ DOMAIN new = DOMAIN tasks
      /\ \A s \in DOMAIN tasks : new[s].up = IF s = t THEN p ELSE tasks[s].up
  BY <1>1, MovedIs
<1> HIDE DEF new
<1>3. Parents(new) = [up EXCEPT ![t] = p]
  BY <1>1, <1>2 DEF Parents
<1>4. /\ up \in [Task -> Task \cup {Null}] /\ Rooted(up) /\ t \in Task /\ p \in Task \cup {Null} /\ p # t
      /\ p \notin Below(up, t)
  <2>1. up \in [Task -> Task \cup {Null}] /\ Rooted(up)
    BY ParentsAre
  <2>2. Null \notin Below(up, t)
    BY NullAssumption DEF Below
  <2>3. QED
    BY <1>1, <2>1, <2>2, NullAssumption DEF Under
<1> HIDE DEF up
<1>5. Rooted([up EXCEPT ![t] = p])
  BY <1>4, MoveKeepsRooted
<1>6. \A s \in DOMAIN new : new[s].up \in DOMAIN new \cup {Null}
  BY <1>2 DEF IsTree
<1>7. IsTree(new)
  BY <1>2, <1>3, <1>5, <1>6 DEF IsTree
<1>8. QED
  BY <1>2, <1>3, <1>7 DEF new, up

\* Deleting tasks together with what is below them leaves a tree, in which
\* the same is below the others.
LEMMA CutKeepsTree ==
  ASSUME NEW tasks, IsTree(tasks), NEW gone, \A s \in DOMAIN tasks \ gone : tasks[s].up \notin gone
  PROVE  /\ IsTree(Without(tasks, gone)) /\ DOMAIN Without(tasks, gone) = DOMAIN tasks \ gone
         /\ \A u \in DOMAIN tasks \ gone : Under(Without(tasks, gone), u) = Under(tasks, u) \ gone
<1> DEFINE new == Without(tasks, gone)
           up == Parents(tasks)
           T == DOMAIN tasks \ gone
<1>1. IsList(tasks) /\ DOMAIN tasks \in SUBSET Task /\ T \in SUBSET Task
  BY DEF IsTree, IsList
<1>2. IsList(new) /\ DOMAIN new = T /\ \A s \in T : new[s] = tasks[s]
  BY <1>1, WithoutIs
<1> HIDE DEF new
<1>3. \A x \in Task : Parents(new)[x] = IF x \in T THEN up[x] ELSE Null
  BY <1>1, <1>2 DEF Parents
<1>4. /\ up \in [Task -> Task \cup {Null}] /\ Rooted(up)
      /\ \A x \in Task : up[x] # Null => x \in DOMAIN tasks /\ up[x] \in DOMAIN tasks
      /\ \A x \in DOMAIN tasks : up[x] = tasks[x].up
  BY ParentsAre
<1>5. \A x \in T : up[x] \in T \cup {Null}
  BY <1>1, <1>4
<1>6. Parents(new) \in [Task -> Task \cup {Null}]
  BY <1>3, <1>4, <1>5 DEF Parents
<1> HIDE DEF up
<1>7. Rooted(Parents(new))
  BY <1>3, <1>4, CutKeepsRooted
<1>8. \A s \in DOMAIN new : new[s].up \in DOMAIN new \cup {Null}
  BY <1>2, <1>4, <1>5
<1>9. IsTree(new)
  BY <1>2, <1>7, <1>8 DEF IsTree
<1>10. \A x \in T : Ancestors(Parents(new), x) = Ancestors(up, x)
  <2> HIDE DEF T
  <2>1. \A y \in T : Parents(new)[y] = up[y] /\ (up[y] # Null => up[y] \in T)
    BY <1>1, <1>3, <1>5
  <2>2. QED
    BY <1>1, <2>1, SameAncestors
<1>11. \A x \in Task \ T : Ancestors(Parents(new), x) = {}
  <2>1. \A x \in Task \ T : Parents(new)[x] = Null
    BY <1>3
  <2>2. QED
    BY <1>6, <2>1, AncestorsStep, NullAssumption
<1>12. \A x \in Task \ DOMAIN tasks : Ancestors(up, x) = {}
  BY <1>4, AncestorsStep, NullAssumption
<1>13. ASSUME NEW u \in T PROVE Under(new, u) = Under(tasks, u) \ gone
  <2>1. \A x \in Task : u \in Ancestors(Parents(new), x) <=> x \in T /\ u \in Ancestors(up, x)
    BY <1>10, <1>11
  <2>2. \A x \in Task : u \in Ancestors(up, x) => x \in DOMAIN tasks
    BY <1>12
  <2>3. QED
    BY <2>1, <2>2 DEF Under, Below, up
<1>14. QED
  BY <1>2, <1>9, <1>13 DEF new

\* Lifting leaves a tree, in which the same is below the others.
LEMMA LiftKeepsTree ==
  ASSUME NEW tasks, IsTree(tasks), NEW t \in DOMAIN tasks
  PROVE  /\ IsTree(Lifted(tasks, t)) /\ DOMAIN Lifted(tasks, t) = DOMAIN tasks \ {t}
         /\ \A u \in DOMAIN tasks \ {t} : Under(Lifted(tasks, t), u) = Under(tasks, u) \ {t}
<1> DEFINE new == Lifted(tasks, t)
           up == Parents(tasks)
           other == Parents(new)
<1>1. IsList(tasks) /\ DOMAIN tasks \in SUBSET Task
  BY DEF IsTree, IsList
<1>2. /\ IsList(new) /\ DOMAIN new = DOMAIN tasks \ {t}
      /\ \A s \in DOMAIN tasks \ {t} :
           /\ tasks[s].up = t => new[s].up = tasks[t].up
           /\ tasks[s].up # t => new[s].up = tasks[s].up
  <2>1. IsList(tasks)
    BY <1>1
  <2>2. IsList(new)
    BY <2>1, LiftedIs
  <2>3. DOMAIN new = DOMAIN tasks \ {t}
    BY <2>1, LiftedIs
  <2>4. RaisedFrom(new, tasks, t)
    BY <2>1, LiftedIs
  <2> HIDE DEF new
  <2>5. QED
    BY <2>2, <2>3, <2>4 DEF RaisedFrom
<1> HIDE DEF new
<1>3. /\ up \in [Task -> Task \cup {Null}] /\ Rooted(up)
      /\ \A x \in Task : up[x] # Null => x \in DOMAIN tasks /\ up[x] \in DOMAIN tasks
      /\ \A x \in DOMAIN tasks : up[x] = tasks[x].up
  BY ParentsAre
<1>4. t \in Task /\ up[t] # t /\ t # Null
  <2>1. t \in Task
    BY <1>1
  <2>2. QED
    BY <1>3, <2>1, RootedNotOwn, AncestorsClosed, NullAssumption
<1>5. \A x \in Task : other[x] = IF x = t THEN Null ELSE IF up[x] = t THEN up[t] ELSE up[x]
  <2>1. \A x \in Task \ DOMAIN tasks : up[x] = Null
    BY <1>3
  <2>2. \A x \in Task : other[x] = IF x \in DOMAIN new THEN new[x].up ELSE Null
    BY DEF Parents
  <2>3. QED
    BY <1>2, <1>3, <1>4, <2>1, <2>2
<1> HIDE DEF up, other
<1>6. /\ Rooted(other)
      /\ \A x \in Task : x # t => Ancestors(other, x) = Ancestors(up, x) \ {t}
  BY <1>3, <1>4, <1>5, LiftKeepsRest
<1>7. \A s \in DOMAIN new : new[s].up \in DOMAIN new \cup {Null}
  <2>1. \A s \in DOMAIN tasks : tasks[s].up \in DOMAIN tasks \cup {Null}
    BY DEF IsTree
  <2>2. tasks[t].up # t
    BY <1>3, <1>4
  <2>3. QED
    BY <1>2, <2>1, <2>2
<1>8. IsTree(new)
  BY <1>2, <1>6, <1>7 DEF IsTree, other
<1>9. Ancestors(other, t) = {}
  <2>1. other \in [Task -> Task \cup {Null}] /\ other[t] = Null
    BY <1>4, <1>5, <1>8, ParentsAre DEF other
  <2>2. QED
    BY <1>4, <2>1, AncestorsStep, NullAssumption
<1>10. ASSUME NEW u \in DOMAIN tasks \ {t} PROVE Under(new, u) = Under(tasks, u) \ {t}
  <2>1. \A x \in Task : u \in Ancestors(other, x) <=> x # t /\ u \in Ancestors(up, x)
    BY <1>6, <1>9
  <2>2. QED
    BY <2>1 DEF Under, Below, up, other
<1>11. QED
  BY <1>2, <1>8, <1>10 DEF new

\* What a request may do with its task t: which tasks it deletes.
Gone(tasks, kind, t) ==
  {x \in Task : \/ kind \in {"delete", "lift"} /\ x = t
                \/ kind = "subtree" /\ (x = t \/ x \in Under(tasks, t))}

\* Applied to a tree, a legal request leaves a tree without what it deletes;
\* if it does not move anything, the same is below what is left.
LEMMA AppliedKeepsTree ==
  ASSUME NEW c \in Call, IsTree(store), Legal(c), Applied(calls[c].kind, calls[c].task, calls[c].to)
  PROVE  /\ IsTree(store')
         /\ DOMAIN store' = DOMAIN store \ Gone(store, calls[c].kind, calls[c].task)
         /\ calls[c].kind \notin {"move", "undo"} =>
              \A u \in DOMAIN store' : Under(store', u) = Under(store, u) \cap DOMAIN store'
<1> DEFINE kind == calls[c].kind
           t == calls[c].task
           to == calls[c].to
           G == Gone(store, kind, t)
<1>1. IsList(store) /\ DOMAIN store \in SUBSET Task /\ t \in DOMAIN store
  BY DEF IsTree, IsList, Legal
<1>2. \A u : Under(store, u) \subseteq DOMAIN store
  BY UnderIs
<1>3. \/ kind \in {"move", "undo"} /\ store' = Moved(store, t, to.up, to.index)
      \/ /\ kind = "complete"
         /\ store' = SetDone(store, {t} \cup FinishedAncestors(Parents(store), DoneIn(store), t), TRUE)
      \/ /\ kind \in {"reopen", "undone"}
         /\ store' = SetDone(store, Reopened(Parents(store), DoneIn(store), t), FALSE)
      \/ kind = "delete" /\ store' = Without(store, {t})
      \/ kind = "lift" /\ store' = Lifted(store, t)
      \/ kind = "subtree" /\ store' = Without(store, {t} \cup Under(store, t))
  BY DEF Applied
<1>4. CASE kind \in {"move", "undo"} /\ store' = Moved(store, t, to.up, to.index)
  <2>1. to.up = Null \/ (to.up \in DOMAIN store /\ to.up # t /\ to.up \notin Under(store, t))
    BY <1>4 DEF Legal
  <2>2. IsTree(store') /\ DOMAIN store' = DOMAIN store
    BY <1>1, <1>4, <2>1, MoveKeepsTree
  <2>3. G = {}
    BY <1>4 DEF Gone
  <2>4. QED
    BY <1>4, <2>2, <2>3
<1>5. ASSUME SameShape(store', store), kind \in {"complete", "reopen", "undone"}
      PROVE  /\ IsTree(store') /\ DOMAIN store' = DOMAIN store \ G
             /\ \A u \in DOMAIN store' : Under(store', u) = Under(store, u) \cap DOMAIN store'
  <2>1. /\ IsList(store') /\ DOMAIN store' = DOMAIN store
        /\ \A s \in DOMAIN store : store'[s].up = store[s].up
    BY <1>5 DEF SameShape
  <2>2. Parents(store') = Parents(store) /\ IsTree(store')
    BY <2>1, SameParents
  <2>3. G = {}
    BY <1>5 DEF Gone
  <2>4. \A u : Under(store', u) = Under(store, u)
    BY <2>2 DEF Under
  <2>5. QED
    BY <1>2, <2>1, <2>2, <2>3, <2>4
<1>6. ASSUME NEW gone, gone = G, store' = Without(store, gone), \A s \in DOMAIN store \ gone : store[s].up \notin gone
      PROVE  /\ IsTree(store') /\ DOMAIN store' = DOMAIN store \ G
             /\ \A u \in DOMAIN store' : Under(store', u) = Under(store, u) \cap DOMAIN store'
  <2> HIDE DEF G
  <2>1. /\ IsTree(Without(store, gone)) /\ DOMAIN Without(store, gone) = DOMAIN store \ gone
        /\ \A u \in DOMAIN store \ gone : Under(Without(store, gone), u) = Under(store, u) \ gone
    BY ONLY IsTree(store), <1>6, CutKeepsTree
  <2>2. QED
    BY <1>2, <1>6, <2>1
<1>7. CASE kind = "delete" /\ store' = Without(store, {t})
  <2>1. G = {t}
    BY <1>1, <1>7 DEF Gone
  <2>2. \A s \in DOMAIN store : store[s].up # t
    BY <1>7 DEF Legal, HasKids, KidsOf
  <2> HIDE DEF G
  <2>3. QED
    BY <1>6, <1>7, <2>1, <2>2 DEF G
<1>8. CASE kind = "lift" /\ store' = Lifted(store, t)
  <2>1. G = {t}
    BY <1>1, <1>8 DEF Gone
  <2>2. /\ IsTree(store') /\ DOMAIN store' = DOMAIN store \ {t}
        /\ \A u \in DOMAIN store \ {t} : Under(store', u) = Under(store, u) \ {t}
    BY <1>1, <1>8, LiftKeepsTree
  <2> HIDE DEF G
  <2>3. \A u \in DOMAIN store' : Under(store', u) = Under(store, u) \cap DOMAIN store'
    BY <1>2, <2>2
  <2>4. QED
    BY <2>1, <2>2, <2>3 DEF G
<1>9. CASE kind = "subtree" /\ store' = Without(store, {t} \cup Under(store, t))
  <2>1. G = {t} \cup Under(store, t)
    BY <1>1, <1>2, <1>9 DEF Gone
  <2> DEFINE up == Parents(store)
  <2>2. ASSUME NEW s \in DOMAIN store, store[s].up \in {t} \cup Under(store, t) PROVE s \in Under(store, t)
    <3>0. up \in [Task -> Task \cup {Null}] /\ up[s] = store[s].up
      BY ParentsAre
    <3>1. up \in [Task -> Task \cup {Null}] /\ s \in Task /\ up[s] = store[s].up /\ up[s] \in Task
      BY <1>1, <1>2, <2>2, <3>0
    <3>2. Ancestors(up, s) = {up[s]} \cup Ancestors(up, up[s])
      BY <3>1, AncestorsStep, NullAssumption
    <3>3. QED
      BY <2>2, <3>1, <3>2 DEF Under, Below
  <2> HIDE DEF G
  <2>3. QED
    BY <1>6, <1>9, <2>1, <2>2 DEF G
<1> DEFINE Up == {t} \cup FinishedAncestors(Parents(store), DoneIn(store), t)
           Again == Reopened(Parents(store), DoneIn(store), t)
<1>10. CASE kind = "complete" /\ store' = SetDone(store, Up, TRUE)
  <2> HIDE DEF Up, G
  <2>1. SameShape(SetDone(store, Up, TRUE), store)
    BY <1>1, SetDoneIs
  <2>2. SameShape(store', store)
    BY <1>10, <2>1
  <2>3. QED
    BY <1>5, <1>10, <2>2 DEF G
<1>11. CASE kind \in {"reopen", "undone"} /\ store' = SetDone(store, Again, FALSE)
  <2> HIDE DEF Again, G
  <2>1. SameShape(SetDone(store, Again, FALSE), store)
    BY <1>1, SetDoneIs
  <2>2. SameShape(store', store)
    BY <1>11, <2>1
  <2>3. QED
    BY <1>5, <1>11, <2>2 DEF G
<1>12. QED
  BY <1>3, <1>4, <1>7, <1>8, <1>9, <1>10, <1>11

-----------------------------------------------------------------------------
(* Requests: what they are, for whom, how far, and what they may delete.   *)

Fields == {"kind", "task", "to", "phase", "snapshot", "from", "before", "after", "wants", "heard"}
IsCall(call) == call = [f \in Fields |-> call[f]]
AreCalls == calls = [c \in Call |-> calls[c]] /\ \A c \in Call : IsCall(calls[c])

KindOf == [c \in Call |-> calls[c].kind]
TaskOf == [c \in Call |-> calls[c].task]
PhaseOf == [c \in Call |-> calls[c].phase]
WantsOf == [c \in Call |-> calls[c].wants]
SnapshotOf == [c \in Call |-> calls[c].snapshot]

\* One request is another one now; the others stay what they are.
Others(c) ==
  \A d \in Call \ {c} : /\ KindOf'[d] = KindOf[d] /\ TaskOf'[d] = TaskOf[d] /\ PhaseOf'[d] = PhaseOf[d]
                        /\ WantsOf'[d] = WantsOf[d] /\ SnapshotOf'[d] = SnapshotOf[d]
Becomes(c, kind, t, phase, wants, snapshot) ==
  /\ AreCalls' /\ Others(c)
  /\ KindOf'[c] = kind /\ TaskOf'[c] = t /\ PhaseOf'[c] = phase /\ WantsOf'[c] = wants /\ SnapshotOf'[c] = snapshot

\* A request that is replaced, as the proofs look at it.
LEMMA CallBecomes ==
  ASSUME AreCalls, NEW c \in Call, NEW new, IsCall(new), calls' = [calls EXCEPT ![c] = new]
  PROVE  Becomes(c, new.kind, new.task, new.phase, new.wants, new.snapshot)
<1>1. calls' = [d \in Call |-> IF d = c THEN new ELSE calls[d]]
  BY DEF AreCalls
<1>2. calls'[c] = new /\ \A d \in Call : d # c => calls'[d] = calls[d]
  BY <1>1
<1>3. calls' = [d \in Call |-> calls'[d]]
  BY <1>1
<1>4. AreCalls'
  BY <1>2, <1>3 DEF AreCalls
<1>5. Others(c)
  BY <1>2 DEF Others, KindOf, TaskOf, PhaseOf, WantsOf, SnapshotOf
<1>6. /\ KindOf'[c] = new.kind /\ TaskOf'[c] = new.task /\ PhaseOf'[c] = new.phase /\ WantsOf'[c] = new.wants
      /\ SnapshotOf'[c] = new.snapshot
  BY <1>2 DEF KindOf, TaskOf, PhaseOf, WantsOf, SnapshotOf
<1>7. QED
  BY <1>4, <1>5, <1>6 DEF Becomes

\* A request that is sent.
LEMMA Asked ==
  ASSUME AreCalls, NEW c \in Call, NEW call, IsCall(call), Ask(c, call)
  PROVE  PhaseOf[c] = "free" /\ Becomes(c, call.kind, call.task, call.phase, call.wants, call.snapshot)
BY CallBecomes DEF Ask, PhaseOf

\* Where no request is under way.
LEMMA FreeIs ==
  /\ IsCall(Free) /\ Free.kind = "none" /\ Free.task = Null /\ Free.phase = "free" /\ Free.wants = {}
  /\ Free.snapshot = <<>> /\ Free.before = <<>> /\ Free.after = <<>>
<1>1. IsCall(Free)
  BY DEF Free, IsCall, Fields
<1>2. QED
  BY <1>1 DEF Free

\* mutate(): the other deletions are not heard any more.
LEMMA DeleteSent ==
  ASSUME AreCalls, NEW c \in Call, NEW kind, NEW t, NEW wants, SendDelete(c, kind, t, wants)
  PROVE  PhaseOf[c] = "free" /\ Becomes(c, kind, t, "sent", wants, <<>>)
<1> DEFINE new == [Free EXCEPT !.kind = kind, !.task = t, !.wants = wants, !.phase = "sent", !.heard = TRUE]
<1>1. /\ IsCall(new) /\ new.kind = kind /\ new.task = t /\ new.phase = "sent" /\ new.wants = wants
      /\ new.snapshot = <<>>
  BY FreeIs DEF IsCall, Fields
<1>2. ASSUME NEW call, IsCall(call)
      PROVE  LET other == [call EXCEPT !.heard = FALSE] IN
             /\ IsCall(other) /\ other.kind = call.kind /\ other.task = call.task /\ other.phase = call.phase
             /\ other.wants = call.wants /\ other.snapshot = call.snapshot
  BY <1>2 DEF IsCall, Fields
<1>3. calls' = [d \in Call |-> IF d = c THEN new ELSE [calls[d] EXCEPT !.heard = FALSE]]
  BY DEF SendDelete
<1> HIDE DEF new
<1>4. ASSUME NEW d \in Call, d # c
      PROVE  /\ IsCall(calls'[d]) /\ calls'[d].kind = calls[d].kind /\ calls'[d].task = calls[d].task
             /\ calls'[d].phase = calls[d].phase /\ calls'[d].wants = calls[d].wants
             /\ calls'[d].snapshot = calls[d].snapshot
  <2>1. IsCall(calls[d]) /\ calls'[d] = [calls[d] EXCEPT !.heard = FALSE]
    BY <1>3, <1>4 DEF AreCalls
  <2>2. QED
    BY <1>2, <2>1
<1>5. calls'[c] = new /\ calls' = [d \in Call |-> calls'[d]]
  BY <1>3
<1>6. AreCalls'
  BY <1>1, <1>4, <1>5 DEF AreCalls
<1>7. Others(c)
  BY <1>4 DEF Others, KindOf, TaskOf, PhaseOf, WantsOf, SnapshotOf
<1>8. /\ KindOf'[c] = kind /\ TaskOf'[c] = t /\ PhaseOf'[c] = "sent" /\ WantsOf'[c] = wants /\ SnapshotOf'[c] = <<>>
  BY <1>1, <1>5 DEF KindOf, TaskOf, PhaseOf, WantsOf, SnapshotOf
<1>9. PhaseOf[c] = "free"
  BY DEF SendDelete, PhaseOf
<1>10. QED
  BY <1>6, <1>7, <1>8, <1>9 DEF Becomes

\* A request that the server has applied or refused is the same request.
LEMMA PhaseChanges ==
  ASSUME AreCalls, NEW c \in Call, NEW phase, NEW before, NEW after,
         \/ calls' = [calls EXCEPT ![c].phase = phase, ![c].before = before, ![c].after = after]
         \/ calls' = [calls EXCEPT ![c].phase = phase]
  PROVE  Becomes(c, KindOf[c], TaskOf[c], phase, WantsOf[c], SnapshotOf[c])
<1> DEFINE call == calls[c]
           new == calls'[c]
<1>1. IsCall(call)
  BY DEF AreCalls
<1>2. calls = [d \in Call |-> calls[d]]
  BY DEF AreCalls
<1>3. calls' = [calls EXCEPT ![c] = new]
  BY <1>2
<1>4. \/ new = [call EXCEPT !.phase = phase, !.before = before, !.after = after]
      \/ new = [call EXCEPT !.phase = phase]
  BY <1>2
<1> HIDE DEF new, call
<1>5. /\ IsCall(new) /\ new.kind = call.kind /\ new.task = call.task /\ new.phase = phase
      /\ new.wants = call.wants /\ new.snapshot = call.snapshot
  BY <1>1, <1>4 DEF IsCall, Fields
<1>6. Becomes(c, new.kind, new.task, new.phase, new.wants, new.snapshot)
  BY <1>3, <1>5, CallBecomes
<1>7. KindOf[c] = call.kind /\ TaskOf[c] = call.task /\ WantsOf[c] = call.wants /\ SnapshotOf[c] = call.snapshot
  BY DEF KindOf, TaskOf, WantsOf, SnapshotOf, call
<1>8. QED
  BY <1>5, <1>6, <1>7

-----------------------------------------------------------------------------
(* What a step does to what there is, what is shown and what is asked for. *)

\* Nothing of it.
Stays == UNCHANGED <<unwanted, store, list, fetching, calls, pending, shown>>

\* A move, and one that is taken back.
SendsMove ==
  \E c \in Call : \E kind, t, to, from, ghost :
    /\ SendMove(c, kind, t, to, from, ghost)
    /\ \/ kind = "move" /\ IsMove(to) /\ from = CurrentPosition(list, t) /\ ghost = NoToast
       \/ kind = "undo" /\ to = toast.from /\ t = toast.task /\ ghost = toast /\ toast.kind = "move"
    /\ UNCHANGED <<unwanted, store, pending, shown>>

\* Completing, reopening, and taking back what was completed.
Asks(c, kind, t, before, after) ==
  Ask(c, [Free EXCEPT !.kind = kind, !.task = t, !.phase = "sent", !.before = before, !.after = after])
AsksForDone ==
  /\ \E c \in Call : \E kind, t, before, after :
       /\ Asks(c, kind, t, before, after)
       /\ \/ kind \in {"complete", "reopen"}
          \/ kind = "undone" /\ t = toast.task /\ before = toast.before /\ after = toast.after
             /\ toast.kind = "complete"
  /\ UNCHANGED <<unwanted, store, list, fetching, pending, shown>>

HidesRow ==
  /\ shown
  /\ \E t \in DOMAIN list \ Hidden :
       /\ pending' = Append(pending, [task |-> t, timer |-> TRUE])
       /\ unwanted' = unwanted \cup {t}
  /\ UNCHANGED <<store, list, fetching, calls, shown>>

AsksForParent ==
  /\ \E c \in Call : \E kind, t :
       /\ \/ kind = "lift" /\ SendDelete(c, kind, t, {t})
          \/ kind = "subtree" /\ SendDelete(c, kind, t, {t} \cup Under(list, t))
             /\ (Hasty \/ (~fetching /\ \A d \in Call : calls[d].phase = "free"))
  /\ UNCHANGED <<unwanted, store, list, fetching, pending, shown>>

StepForms ==
  \/ Stays \/ SendsMove \/ AsksForDone \/ HidesRow \/ AsksForParent
  \/ UndoDelete \/ (\E i \in DOMAIN pending : TimerFires(i)) \/ LeavePage
  \/ (\E c \in Call : Apply(c) \/ Refuse(c) \/ Answered(c) \/ Failed(c)) \/ Fetched

\* A toast is about a move or about what was completed.
ToastTyped == toast.kind \in {"none", "move", "complete"} /\ (toast.kind = "none" => toast = NoToast)

\* A move asked for in any way sends one request,
LEMMA MoveToIs ==
  ASSUME NEW t, NEW to, MoveTo(t, to)
  PROVE  SendsMove
<1>1. IsMove(to) /\ UNCHANGED <<unwanted, store, pending, shown>>
  BY DEF MoveTo
<1>2. PICK c \in Call : SendMove(c, "move", t, to, CurrentPosition(list, t), NoToast)
  BY DEF MoveTo
<1>3. QED
  BY <1>1, <1>2 DEF SendsMove

\* what is done at the tree has one of the forms,
LEMMA AtTreeIs ==
  ASSUME AtTheTree
  PROVE  StepForms
<1>1. CASE ArrowDown \/ ArrowUp \/ ArrowLeft \/ ToggleShowDone \/ ToggleFilter \/ ToggleSort
  <2>1. Looking
    BY <1>1 DEF ArrowDown, ArrowUp, ArrowLeft, SelectRow, ToggleShowDone, ToggleFilter, ToggleSort
  <2>2. QED
    BY <2>1 DEF Looking, Stays, StepForms
<1>2. ASSUME NEW i, PickRow(i) PROVE StepForms
  BY <1>2 DEF PickRow, Looking, Stays, StepForms
<1>3. ASSUME NEW kind, OpenSelected(kind) PROVE StepForms
  BY <1>3 DEF OpenSelected, Looking, Stays, StepForms
<1>4. ASSUME NEW t, Toggle(t) PROVE StepForms
  BY <1>4 DEF Toggle, Looking, Stays, StepForms
<1>5. ASSUME NEW key, DragStart(key) PROVE StepForms
  BY <1>5 DEF DragStart, Stays, StepForms
<1>6. CASE Tab
  BY <1>6, MoveToIs DEF Tab, StepForms
<1>7. CASE ShiftTab
  BY <1>7, MoveToIs DEF ShiftTab, StepForms
<1>8. ASSUME NEW direction, AltArrow(direction) PROVE StepForms
  BY <1>8, MoveToIs DEF AltArrow, StepForms
<1>9. ASSUME NEW i, ToggleDone(i) PROVE StepForms
  <2>1. PICK c \in Call : Ask(c, [Free EXCEPT !.kind = IF list[Items[i].task].done THEN "reopen" ELSE "complete",
                                               !.task = Items[i].task, !.phase = "sent"])
    BY <1>9 DEF ToggleDone
  <2> DEFINE t == Items[i].task
             kind == IF list[t].done THEN "reopen" ELSE "complete"
  <2> HIDE DEF t, kind
  <2>2. [Free EXCEPT !.kind = kind, !.task = t, !.phase = "sent"]
          = [Free EXCEPT !.kind = kind, !.task = t, !.phase = "sent", !.before = <<>>, !.after = <<>>]
    BY FreeIs DEF IsCall, Fields
  <2>3. Asks(c, kind, t, <<>>, <<>>) /\ kind \in {"complete", "reopen"}
    BY <2>1, <2>2 DEF Asks, t, kind
  <2>4. UNCHANGED <<unwanted, store, list, fetching, pending, shown>>
    BY <1>9 DEF ToggleDone
  <2>5. AsksForDone
    BY <2>3, <2>4 DEF AsksForDone
  <2>6. QED
    BY <2>5 DEF StepForms
<1>10. CASE DeleteKey
  <2>1. shown /\ UNCHANGED <<store, list, fetching, calls, shown>>
    BY <1>10 DEF DeleteKey, AtTree, Ready
  <2>2. PICK t \in {Selected.task} \cap DOMAIN Visible :
          IF HasKids(list, t)
          THEN dialog' = [kind |-> "confirm", task |-> t] /\ UNCHANGED <<pending, deletes, unwanted>>
          ELSE /\ pending' = Append(pending, [task |-> t, timer |-> TRUE])
               /\ deletes' = deletes + 1 /\ UNCHANGED dialog
               /\ unwanted' = unwanted \cup {t}
    BY <1>10 DEF DeleteKey
  <2>3. t \in DOMAIN list \ Hidden
    BY <2>2 DEF Visible
  <2>4. CASE HasKids(list, t)
    BY <2>1, <2>2, <2>4 DEF Stays, StepForms
  <2>5. CASE ~ HasKids(list, t)
    BY <2>1, <2>2, <2>3, <2>5 DEF HidesRow, StepForms
  <2>6. QED
    BY <2>4, <2>5
<1>11. QED
  BY <1>1, <1>2, <1>3, <1>4, <1>5, <1>6, <1>7, <1>8, <1>9, <1>10 DEF AtTheTree

\* and so has what is done in a dialog.
LEMMA InDialogsIs ==
  ASSUME InDialogs
  PROVE  StepForms
<1>1. CASE CloseDialog
  BY <1>1 DEF CloseDialog, Looking, Stays, StepForms
<1>2. ASSUME NEW direction, OpenNeighbour(direction) PROVE StepForms
  BY <1>2 DEF OpenNeighbour, Looking, Stays, StepForms
<1>3. ASSUME NEW p, PickProject(p) PROVE StepForms
  BY <1>3, MoveToIs DEF PickProject, StepForms
<1>4. ASSUME NEW kind, DeleteParent(kind) PROVE StepForms
  <2>1. /\ kind \in {"lift", "subtree"} /\ UNCHANGED <<unwanted, store, list, fetching, pending, shown>>
        /\ kind = "lift" \/ Hasty \/ (~fetching /\ \A d \in Call : calls[d].phase = "free")
    BY <1>4 DEF DeleteParent
  <2>2. PICK c \in Call : SendDelete(c, kind, dialog.task,
                            {dialog.task} \cup (IF kind = "lift" THEN {} ELSE Under(list, dialog.task)))
    BY <1>4 DEF DeleteParent
  <2>3. kind = "lift" => SendDelete(c, kind, dialog.task, {dialog.task})
    BY <2>2
  <2>4. kind = "subtree" => SendDelete(c, kind, dialog.task, {dialog.task} \cup Under(list, dialog.task))
    BY <2>2
  <2>5. AsksForParent
    BY <2>1, <2>3, <2>4 DEF AsksForParent
  <2>6. QED
    BY <2>5 DEF StepForms
<1>5. QED
  BY <1>1, <1>2, <1>3, <1>4 DEF InDialogs

\* Every step is one of these.
LEMMA NextIs ==
  ASSUME [Next]_vars, ToastTyped
  PROVE  StepForms
<1>1. CASE AtTheTree
  BY <1>1, AtTreeIs
<1>2. CASE InDialogs
  BY <1>2, InDialogsIs
<1>3. CASE DragOver \/ HoverOpens \/ ToastGoes \/ (\E t \in Active : ActiveChanges(t))
  BY <1>3 DEF DragOver, HoverOpens, ToastGoes, ActiveChanges, Stays, StepForms
<1>4. CASE DragEnd
  <2>1. PICK drop \in {Projection} :
          IF drop.changed /\ drag.active[2] \in DOMAIN list
          THEN MoveTo(drag.active[2], [up |-> drop.up, index |-> drop.index])
          ELSE UNCHANGED <<unwanted, store, list, fetching, calls, view, toast, pending, shown, deletes>>
    BY <1>4 DEF DragEnd
  <2>2. CASE drop.changed /\ drag.active[2] \in DOMAIN list
    BY <2>1, <2>2, MoveToIs DEF StepForms
  <2>3. CASE ~ (drop.changed /\ drag.active[2] \in DOMAIN list)
    BY <2>1, <2>3 DEF Stays, StepForms
  <2>4. QED
    BY <2>2, <2>3
<1>5. CASE Undo
  <2>1. CASE toast.kind = "move"
    <3>1. PICK c \in Call : SendMove(c, "undo", toast.task, toast.from, NoMove, toast)
      BY <1>5, <2>1 DEF Undo
    <3>2. UNCHANGED <<unwanted, store, pending, shown>>
      BY <1>5 DEF Undo
    <3>3. SendsMove
      BY <2>1, <3>1, <3>2 DEF SendsMove
    <3>4. QED
      BY <3>3 DEF StepForms
  <2>2. CASE toast.kind # "move"
    <3>1. PICK c \in Call : Ask(c, [Free EXCEPT !.kind = "undone", !.task = toast.task, !.phase = "sent",
                                                !.before = toast.before, !.after = toast.after])
      BY <1>5, <2>2 DEF Undo
    <3>2. UNCHANGED <<unwanted, store, list, fetching, pending, shown>>
      BY <1>5, <2>2 DEF Undo
    <3>3. toast.kind = "complete"
      BY <1>5, <2>2 DEF Undo, ToastTyped
    <3>4. Asks(c, "undone", toast.task, toast.before, toast.after)
      BY <3>1 DEF Asks
    <3>5. AsksForDone
      BY <3>2, <3>3, <3>4 DEF AsksForDone
    <3>6. QED
      BY <3>5 DEF StepForms
  <2>3. QED
    BY <2>1, <2>2
<1>6. CASE UNCHANGED vars
  BY <1>6 DEF vars, Stays, StepForms
<1>7. CASE \/ UndoDelete \/ (\E i \in DOMAIN pending : TimerFires(i)) \/ LeavePage
           \/ (\E c \in Call : Apply(c) \/ Refuse(c) \/ Answered(c) \/ Failed(c)) \/ Fetched
  BY <1>7 DEF StepForms
<1>8. QED
  BY <1>1, <1>2, <1>3, <1>4, <1>5, <1>6, <1>7 DEF Next

-----------------------------------------------------------------------------
(* The requests in a step.                                                 *)

\* A request is applied ...
LEMMA ApplyIs ==
  ASSUME AreCalls, IsTree(store), NEW c \in Call, Apply(c)
  PROVE  /\ PhaseOf[c] = "sent" /\ Becomes(c, KindOf[c], TaskOf[c], "applied", WantsOf[c], SnapshotOf[c])
         /\ IsTree(store') /\ TaskOf[c] \in DOMAIN store
         /\ DOMAIN store' = DOMAIN store \ Gone(store, KindOf[c], TaskOf[c])
         /\ KindOf[c] \notin {"move", "undo"} =>
              \A u \in DOMAIN store' : Under(store', u) = Under(store, u) \cap DOMAIN store'
         /\ UNCHANGED <<unwanted, list, fetching, toast, pending, shown>>
<1>1. KindOf[c] = calls[c].kind /\ TaskOf[c] = calls[c].task /\ PhaseOf[c] = calls[c].phase
  BY DEF KindOf, TaskOf, PhaseOf
<1>2. /\ calls[c].phase = "sent" /\ Legal(c) /\ Applied(calls[c].kind, calls[c].task, calls[c].to)
      /\ UNCHANGED <<unwanted, list, fetching, toast, pending, shown>>
  BY DEF Apply
<1>3. PICK before, after : calls' = [calls EXCEPT ![c].phase = "applied", ![c].before = before, ![c].after = after]
  BY DEF Apply
<1>4. Becomes(c, KindOf[c], TaskOf[c], "applied", WantsOf[c], SnapshotOf[c])
  BY <1>3, PhaseChanges
<1>5. TaskOf[c] \in DOMAIN store
  BY <1>1, <1>2 DEF Legal
<1>6. /\ IsTree(store') /\ DOMAIN store' = DOMAIN store \ Gone(store, KindOf[c], TaskOf[c])
      /\ KindOf[c] \notin {"move", "undo"} =>
           \A u \in DOMAIN store' : Under(store', u) = Under(store, u) \cap DOMAIN store'
  BY <1>1, <1>2, AppliedKeepsTree
<1>7. QED
  BY <1>1, <1>2, <1>4, <1>5, <1>6

\* ... or refused,
LEMMA RefuseIs ==
  ASSUME AreCalls, NEW c \in Call, Refuse(c)
  PROVE  /\ PhaseOf[c] = "sent" /\ Becomes(c, KindOf[c], TaskOf[c], "refused", WantsOf[c], SnapshotOf[c])
         /\ UNCHANGED <<unwanted, store, list, fetching, toast, pending, shown>>
BY PhaseChanges DEF Refuse, PhaseOf

\* and then it is over.
LEMMA AnsweredIs ==
  ASSUME AreCalls, NEW c \in Call, Answered(c)
  PROVE  PhaseOf[c] = "applied" /\ Becomes(c, "none", Null, "free", {}, <<>>)
BY FreeIs, CallBecomes DEF Answered, PhaseOf

\* A refusal that arrives ends the request, too.
LEMMA FailedIs ==
  ASSUME AreCalls, NEW c \in Call, Failed(c)
  PROVE  PhaseOf[c] = "refused" /\ Becomes(c, "none", Null, "free", {}, <<>>)
BY FreeIs, CallBecomes DEF Failed, PhaseOf

\* When the page is left, each row that waits gets a request of its own.
Leaves(sent) ==
  /\ \A c \in Call :
       /\ sent[c] = 0 => /\ KindOf'[c] = KindOf[c] /\ TaskOf'[c] = TaskOf[c] /\ PhaseOf'[c] = PhaseOf[c]
                         /\ WantsOf'[c] = WantsOf[c] /\ SnapshotOf'[c] = SnapshotOf[c]
       /\ sent[c] # 0 => /\ sent[c] \in Waiting /\ PhaseOf[c] = "free" /\ KindOf'[c] = "delete"
                         /\ TaskOf'[c] = pending[sent[c]].task /\ PhaseOf'[c] = "sent"
                         /\ WantsOf'[c] = {pending[sent[c]].task} /\ SnapshotOf'[c] = <<>>
  /\ \A i \in Waiting : \E c \in Call : sent[c] = i
  /\ \A c, d \in Call : sent[c] = sent[d] /\ sent[c] # 0 => c = d

\* Leaving the page has this form.
LEMMA LeavePageIs ==
  ASSUME AreCalls, LeavePage
  PROVE  AreCalls' /\ \E sent : Leaves(sent)
<1>1. PICK sent \in {f \in [Call -> Waiting \cup {0}] :
                    /\ \A c \in Call : f[c] # 0 => calls[c].phase = "free"
                    /\ \A i \in Waiting : Cardinality({c \in Call : f[c] = i}) = 1} :
        calls' = [c \in Call |->
          IF sent[c] = 0 THEN [calls[c] EXCEPT !.heard = FALSE]
          ELSE [Free EXCEPT !.kind = "delete", !.task = pending[sent[c]].task, !.wants = {pending[sent[c]].task},
                            !.phase = "sent"]]
  BY DEF LeavePage
<1>2. ASSUME NEW c \in Call, sent[c] = 0
      PROVE  /\ IsCall(calls'[c]) /\ calls'[c].kind = calls[c].kind /\ calls'[c].task = calls[c].task
             /\ calls'[c].phase = calls[c].phase /\ calls'[c].wants = calls[c].wants
             /\ calls'[c].snapshot = calls[c].snapshot
  <2> DEFINE call == calls[c]
  <2>1. IsCall(call) /\ calls'[c] = [call EXCEPT !.heard = FALSE]
    BY <1>1, <1>2 DEF AreCalls
  <2> HIDE DEF call
  <2>2. /\ IsCall(calls'[c]) /\ calls'[c].kind = call.kind /\ calls'[c].task = call.task
        /\ calls'[c].phase = call.phase /\ calls'[c].wants = call.wants
        /\ calls'[c].snapshot = call.snapshot
    BY <2>1 DEF IsCall, Fields
  <2>3. QED
    BY <2>2 DEF call
<1>3. ASSUME NEW c \in Call, sent[c] # 0
      PROVE  /\ IsCall(calls'[c]) /\ calls'[c].kind = "delete" /\ calls'[c].task = pending[sent[c]].task
             /\ calls'[c].phase = "sent" /\ calls'[c].wants = {pending[sent[c]].task} /\ calls'[c].snapshot = <<>>
  <2> DEFINE t == pending[sent[c]].task
  <2> HIDE DEF t
  <2>1. calls'[c] = [Free EXCEPT !.kind = "delete", !.task = t, !.wants = {t}, !.phase = "sent"]
    BY <1>1, <1>3 DEF t
  <2>2. /\ IsCall(calls'[c]) /\ calls'[c].kind = "delete" /\ calls'[c].task = t
        /\ calls'[c].phase = "sent" /\ calls'[c].wants = {t} /\ calls'[c].snapshot = <<>>
    BY <2>1, FreeIs DEF IsCall, Fields
  <2>3. QED
    BY <2>2 DEF t
<1>4. calls' = [c \in Call |-> calls'[c]]
  BY <1>1
<1>5. AreCalls'
  BY <1>2, <1>3, <1>4 DEF AreCalls
<1>6. ASSUME NEW i \in Waiting PROVE \E c \in Call : {d \in Call : sent[d] = i} = {c}
  <2> DEFINE D == {d \in Call : sent[d] = i}
  <2>1. IsFiniteSet(D) /\ Cardinality(D) = 1
    BY <1>1, FS_Subset, OutlineBounds
  <2>2. PICK c : D = {c}
    <3> HIDE DEF D
    <3>1. QED
      BY <2>1, FS_Singleton
  <2>3. QED
    BY <2>2
<1>7. ASSUME NEW c \in Call, NEW d \in Call, sent[c] = sent[d], sent[c] # 0 PROVE c = d
  <2>1. sent[c] \in Waiting
    BY <1>1, <1>7
  <2>2. PICK e \in Call : {x \in Call : sent[x] = sent[c]} = {e}
    BY <1>6, <2>1
  <2>3. c \in {e} /\ d \in {e}
    BY <1>7, <2>2
  <2>4. QED
    BY <2>3
<1>8. \A i \in Waiting : \E c \in Call : sent[c] = i
  <2>1. SUFFICES ASSUME NEW i \in Waiting PROVE \E c \in Call : sent[c] = i
    OBVIOUS
  <2>2. PICK e \in Call : {x \in Call : sent[x] = i} = {e}
    BY <1>6
  <2>3. e \in {x \in Call : sent[x] = i}
    BY <2>2
  <2>4. QED
    BY <2>3
<1>9. ASSUME NEW c \in Call
      PROVE  /\ sent[c] = 0 => /\ KindOf'[c] = KindOf[c] /\ TaskOf'[c] = TaskOf[c] /\ PhaseOf'[c] = PhaseOf[c]
                               /\ WantsOf'[c] = WantsOf[c] /\ SnapshotOf'[c] = SnapshotOf[c]
             /\ sent[c] # 0 => /\ sent[c] \in Waiting /\ PhaseOf[c] = "free" /\ KindOf'[c] = "delete"
                               /\ TaskOf'[c] = pending[sent[c]].task /\ PhaseOf'[c] = "sent"
                               /\ WantsOf'[c] = {pending[sent[c]].task} /\ SnapshotOf'[c] = <<>>
  <2>1. CASE sent[c] = 0
    BY <1>2, <2>1 DEF KindOf, TaskOf, PhaseOf, WantsOf, SnapshotOf
  <2>2. CASE sent[c] # 0
    <3>1. sent[c] \in Waiting /\ calls[c].phase = "free"
      BY <1>1, <2>2
    <3>2. QED
      BY <1>3, <2>2, <3>1 DEF KindOf, TaskOf, PhaseOf, WantsOf, SnapshotOf
  <2>3. QED
    BY <2>1, <2>2
<1>10. Leaves(sent)
  BY <1>7, <1>8, <1>9 DEF Leaves
<1>11. QED
  BY <1>5, <1>10

\* A row is taken out of those that are deleted on screen.
LEMMA RemovedAt ==
  ASSUME NEW S, NEW s \in Seq(S), NEW i \in 1..Len(s)
  PROVE  /\ RemoveAt(s, i) \in Seq(S) /\ Len(RemoveAt(s, i)) = Len(s) - 1
         /\ \A j \in 1..(Len(s) - 1) : RemoveAt(s, i)[j] = IF j < i THEN s[j] ELSE s[j + 1]
<1> DEFINE one == SubSeq(s, 1, i - 1)
           two == SubSeq(s, i + 1, Len(s))
<1>1. one \in Seq(S) /\ Len(one) = i - 1 /\ \A j \in 1..(i - 1) : one[j] = s[j]
  OBVIOUS
<1>2. two \in Seq(S) /\ Len(two) = Len(s) - i /\ \A j \in 1..(Len(s) - i) : two[j] = s[j + i]
  OBVIOUS
<1>3. RemoveAt(s, i) = one \o two
  BY DEF RemoveAt
<1> HIDE DEF one, two
<1>4. RemoveAt(s, i) \in Seq(S) /\ Len(RemoveAt(s, i)) = Len(s) - 1
  BY <1>1, <1>2, <1>3
<1>5. ASSUME NEW j \in 1..(Len(s) - 1) PROVE RemoveAt(s, i)[j] = IF j < i THEN s[j] ELSE s[j + 1]
  <2>1. CASE j < i
    BY <1>1, <1>2, <1>3, <2>1
  <2>2. CASE ~ (j < i)
    <3>1. (j - (i - 1)) \in 1..(Len(s) - i) /\ (j - (i - 1)) + i = j + 1
      BY <2>2
    <3>2. (one \o two)[j] = two[j - (i - 1)]
      BY <1>1, <1>2, <2>2
    <3>3. QED
      BY <1>2, <1>3, <2>2, <3>1, <3>2
  <2>3. QED
    BY <2>1, <2>2
<1>6. QED
  BY <1>4, <1>5

-----------------------------------------------------------------------------
(* What is kept.                                                           *)

Waits == [task : Task, timer : BOOLEAN]
Moving(c) == PhaseOf[c] # "free" /\ KindOf[c] \in {"move", "undo"}
Cutting(c) == PhaseOf[c] # "free" /\ KindOf[c] = "subtree"
Deleting(c) == PhaseOf[c] # "free" /\ KindOf[c] = "delete"

HiddenIn(rows) == {rows[i].task : i \in DOMAIN rows}
TimedIn(rows) == {rows[i].task : i \in {k \in DOMAIN rows : rows[k].timer}}
Once(rows) == \A i, j \in DOMAIN rows : rows[i].task = rows[j].task => i = j

\* The server's tasks are a tree, and what the browser has is about tasks.
WellTyped ==
  /\ IsTree(store) /\ AreCalls /\ ToastTyped /\ DOMAIN list \in SUBSET Task
  /\ \A c \in Call : Moving(c) => DOMAIN SnapshotOf[c] \in SUBSET Task
  /\ pending \in Seq(Waits) /\ Once(pending)

\* No toast is shown but of a move or of what was completed.
LEMMA ToastStep ==
  ASSUME ToastTyped, [Next]_vars
  PROVE  ToastTyped'
<1>1. NoToast.kind = "none"
  BY DEF NoToast
<1>2. ASSUME NEW c \in Call, Answered(c) PROVE ToastTyped'
  <2>1. toast' = toast \/ (toast'.kind = calls[c].kind /\ calls[c].kind \in {"move", "complete"})
    BY <1>2 DEF Answered
  <2>2. QED
    BY <2>1 DEF ToastTyped
<1>3. ASSUME toast' \in {toast, NoToast} PROVE ToastTyped'
  BY <1>1, <1>3 DEF ToastTyped
<1>4. CASE AtTheTree
  <2>1. UNCHANGED toast
    BY <1>4 DEF AtTheTree, ArrowDown, ArrowUp, ArrowLeft, SelectRow, ToggleShowDone, ToggleFilter, ToggleSort,
        PickRow, OpenSelected, Toggle, DragStart, Tab, ShiftTab, AltArrow, MoveTo, ToggleDone, DeleteKey, Looking
  <2>2. QED
    BY <1>3, <2>1
<1>5. CASE InDialogs
  <2>1. UNCHANGED toast
    BY <1>5 DEF InDialogs, CloseDialog, OpenNeighbour, PickProject, MoveTo, DeleteParent, Looking
  <2>2. QED
    BY <1>3, <2>1
<1>6. CASE DragOver \/ HoverOpens \/ DragEnd \/ Undo \/ ToastGoes
  BY <1>3, <1>6 DEF DragOver, HoverOpens, DragEnd, MoveTo, Undo, ToastGoes
<1>7. CASE UndoDelete \/ (\E i \in DOMAIN pending : TimerFires(i)) \/ LeavePage \/ (\E t \in Active : ActiveChanges(t))
  BY <1>3, <1>7 DEF UndoDelete, TimerFires, LeavePage, ActiveChanges
<1>8. CASE (\E c \in Call : Apply(c) \/ Refuse(c) \/ Failed(c)) \/ Fetched \/ UNCHANGED vars
  BY <1>3, <1>8 DEF Apply, Refuse, Failed, Fetched, vars
<1>9. QED
  BY <1>2, <1>4, <1>5, <1>6, <1>7, <1>8 DEF Next

\* The browser's list after a move is about the same tasks.
LEMMA ApplyMoveIs ==
  ASSUME NEW tasks, NEW t, NEW p, NEW i
  PROVE  DOMAIN ApplyMove(tasks, t, p, i) = DOMAIN tasks
BY DEF ApplyMove

\* What becomes of a request that is asked for.
LEMMA MoveSent ==
  ASSUME AreCalls, NEW c \in Call, NEW kind, NEW t, NEW to, NEW from, NEW ghost, SendMove(c, kind, t, to, from, ghost)
  PROVE  /\ PhaseOf[c] = "free" /\ Becomes(c, kind, t, "sent", {}, list)
         /\ Hasty \/ \A d \in Call : ~ Cutting(d)
         /\ list' = ApplyMove(list, t, to.up, to.index) /\ fetching' = FALSE
<1> DEFINE call == [Free EXCEPT !.kind = kind, !.task = t, !.to = to, !.phase = "sent", !.snapshot = list,
                         !.from = from, !.before = ghost.before, !.after = ghost.after]
<1>1. Ask(c, call) /\ list' = ApplyMove(list, t, to.up, to.index) /\ fetching' = FALSE
  BY DEF SendMove
<1>2. /\ IsCall(call) /\ call.kind = kind /\ call.task = t /\ call.phase = "sent" /\ call.snapshot = list
      /\ call.wants = {}
  BY FreeIs DEF IsCall, Fields
<1>3. Hasty \/ \A d \in Call : ~ Cutting(d)
  BY DEF SendMove, UnderWay, Cutting, KindOf, PhaseOf
<1> HIDE DEF call
<1>4. PhaseOf[c] = "free" /\ Becomes(c, call.kind, call.task, call.phase, call.wants, call.snapshot)
  BY <1>1, <1>2, Asked
<1>5. QED
  BY <1>1, <1>2, <1>3, <1>4

\* A request about completing takes no list along.
LEMMA DoneSent ==
  ASSUME AreCalls, NEW c \in Call, NEW kind, NEW t, NEW before, NEW after, Asks(c, kind, t, before, after)
  PROVE  PhaseOf[c] = "free" /\ Becomes(c, kind, t, "sent", {}, <<>>)
<1> DEFINE call == [Free EXCEPT !.kind = kind, !.task = t, !.phase = "sent", !.before = before, !.after = after]
<1>1. Ask(c, call)
  BY DEF Asks
<1>2. /\ IsCall(call) /\ call.kind = kind /\ call.task = t /\ call.phase = "sent" /\ call.snapshot = <<>>
      /\ call.wants = {}
  BY FreeIs DEF IsCall, Fields
<1> HIDE DEF call
<1>3. PhaseOf[c] = "free" /\ Becomes(c, call.kind, call.task, call.phase, call.wants, call.snapshot)
  BY <1>1, <1>2, Asked
<1>4. QED
  BY <1>2, <1>3

\* A step without a request leaves them.
LEMMA SameCalls ==
  ASSUME calls' = calls
  PROVE  /\ KindOf' = KindOf /\ TaskOf' = TaskOf /\ PhaseOf' = PhaseOf /\ WantsOf' = WantsOf /\ SnapshotOf' = SnapshotOf
         /\ AreCalls => AreCalls'
         /\ \A c \in Call : (Moving(c)' <=> Moving(c)) /\ (Cutting(c)' <=> Cutting(c)) /\ (Deleting(c)' <=> Deleting(c))
BY DEF KindOf, TaskOf, PhaseOf, WantsOf, SnapshotOf, AreCalls, Moving, Cutting, Deleting

-----------------------------------------------------------------------------
(* The rows that are deleted on screen.                                    *)

\* One row more,
LEMMA RowAdded ==
  ASSUME NEW rows \in Seq(Waits), Once(rows), NEW t \in Task, t \notin HiddenIn(rows)
  PROVE  LET new == Append(rows, [task |-> t, timer |-> TRUE]) IN
         /\ new \in Seq(Waits) /\ Once(new)
         /\ HiddenIn(new) = HiddenIn(rows) \cup {t} /\ TimedIn(new) = TimedIn(rows) \cup {t}
<1> DEFINE new == Append(rows, [task |-> t, timer |-> TRUE])
           n == Len(rows)
<1>1. [task |-> t, timer |-> TRUE] \in Waits
  BY DEF Waits
<1>2. /\ n \in Nat /\ DOMAIN rows = 1..n /\ new \in Seq(Waits) /\ DOMAIN new = 1..(n + 1)
      /\ \A i \in 1..n : new[i] = rows[i]
      /\ new[n + 1] = [task |-> t, timer |-> TRUE]
  BY <1>1
<1> HIDE DEF new, n
<1>3. new[n + 1].task = t /\ new[n + 1].timer
  BY <1>2
<1>4. \A i \in 1..(n + 1) : i \in 1..n \/ i = n + 1
  BY <1>2
<1>5. \A i \in 1..n : new[i].task # t
  BY <1>2 DEF HiddenIn
<1>6. n + 1 \in 1..(n + 1) /\ 1..n \subseteq 1..(n + 1)
  BY <1>2
<1>7. Once(new)
  BY <1>2, <1>3, <1>4, <1>5 DEF Once
<1>8. HiddenIn(new) = HiddenIn(rows) \cup {t}
  BY <1>2, <1>3, <1>4, <1>6 DEF HiddenIn
<1>9. TimedIn(new) = TimedIn(rows) \cup {t}
  BY <1>2, <1>3, <1>4, <1>6 DEF TimedIn
<1>10. QED
  BY <1>2, <1>7, <1>8, <1>9 DEF new

\* one row less,
LEMMA RowTaken ==
  ASSUME NEW rows \in Seq(Waits), Once(rows), NEW i \in DOMAIN rows
  PROVE  /\ RemoveAt(rows, i) \in Seq(Waits) /\ Once(RemoveAt(rows, i))
         /\ HiddenIn(RemoveAt(rows, i)) = HiddenIn(rows) \ {rows[i].task}
         /\ TimedIn(RemoveAt(rows, i)) = TimedIn(rows) \ {rows[i].task}
<1> DEFINE new == RemoveAt(rows, i)
           n == Len(rows)
<1>1. n \in Nat /\ DOMAIN rows = 1..n /\ i \in 1..n
  OBVIOUS
<1>2. /\ new \in Seq(Waits) /\ Len(new) = n - 1
      /\ \A j \in 1..(n - 1) : new[j] = IF j < i THEN rows[j] ELSE rows[j + 1]
  BY <1>1, RemovedAt
<1>3. DOMAIN new = 1..(n - 1)
  BY <1>2
<1> HIDE DEF new, n
<1> DEFINE from == [j \in 1..(n - 1) |-> IF j < i THEN j ELSE j + 1]
<1>4. ASSUME NEW j \in 1..(n - 1) PROVE from[j] \in 1..n /\ from[j] # i /\ new[j] = rows[from[j]]
  BY <1>1, <1>2
<1>5. ASSUME NEW k \in 1..n, k # i PROVE \E j \in 1..(n - 1) : from[j] = k
  <2>1. CASE k < i
    <3>1. k \in 1..(n - 1) /\ from[k] = k
      BY <1>1, <2>1
    <3>2. QED
      BY <3>1
  <2>2. CASE k > i
    <3>1. k - 1 \in 1..(n - 1) /\ ~ (k - 1 < i) /\ (k - 1) + 1 = k
      BY <1>1, <2>2
    <3>2. from[k - 1] = k
      BY <3>1
    <3>3. QED
      BY <3>1, <3>2
  <2>3. QED
    BY <1>1, <1>5, <2>1, <2>2
<1>6. ASSUME NEW j \in 1..(n - 1), NEW k \in 1..(n - 1), from[j] = from[k] PROVE j = k
  BY <1>1, <1>6
<1> HIDE DEF from
<1>7. \A j, k \in 1..n : rows[j].task = rows[k].task => j = k
  BY <1>1 DEF Once
<1>8. Once(new)
  BY <1>3, <1>4, <1>6, <1>7 DEF Once
<1>9. \A j \in 1..(n - 1) : \E k \in 1..n : new[j] = rows[k] /\ rows[k].task # rows[i].task
  BY <1>1, <1>4, <1>7
<1>10. \A k \in 1..n : rows[k].task # rows[i].task => \E j \in 1..(n - 1) : new[j] = rows[k]
  <2>1. SUFFICES ASSUME NEW k \in 1..n, rows[k].task # rows[i].task PROVE \E j \in 1..(n - 1) : new[j] = rows[k]
    OBVIOUS
  <2>2. PICK j \in 1..(n - 1) : from[j] = k
    BY <1>5, <2>1
  <2>3. QED
    BY <1>4, <2>2
<1>11. HiddenIn(new) = HiddenIn(rows) \ {rows[i].task}
  <2>1. \A x : x \in HiddenIn(new) <=> \E j \in 1..(n - 1) : x = new[j].task
    BY <1>3 DEF HiddenIn
  <2>2. \A x : x \in HiddenIn(rows) <=> \E k \in 1..n : x = rows[k].task
    BY <1>1 DEF HiddenIn
  <2>3. ASSUME NEW x \in HiddenIn(new) PROVE x \in HiddenIn(rows) /\ x # rows[i].task
    BY <1>9, <2>1, <2>2
  <2>4. ASSUME NEW x \in HiddenIn(rows), x # rows[i].task PROVE x \in HiddenIn(new)
    BY <1>10, <2>1, <2>2, <2>4
  <2>5. QED
    BY <2>3, <2>4
<1>12. TimedIn(new) = TimedIn(rows) \ {rows[i].task}
  <2>1. \A x : x \in TimedIn(new) <=> \E j \in 1..(n - 1) : x = new[j].task /\ new[j].timer
    BY <1>3 DEF TimedIn
  <2>2. \A x : x \in TimedIn(rows) <=> \E k \in 1..n : x = rows[k].task /\ rows[k].timer
    BY <1>1 DEF TimedIn
  <2>3. ASSUME NEW x \in TimedIn(new) PROVE x \in TimedIn(rows) /\ x # rows[i].task
    BY <1>9, <2>1, <2>2
  <2>4. ASSUME NEW x \in TimedIn(rows), x # rows[i].task PROVE x \in TimedIn(new)
    BY <1>10, <2>1, <2>2, <2>4
  <2>5. QED
    BY <2>3, <2>4
<1>13. QED
  BY <1>2, <1>8, <1>11, <1>12 DEF new

\* ... and a timer that has fired.
LEMMA RowFired ==
  ASSUME NEW rows \in Seq(Waits), Once(rows), NEW i \in DOMAIN rows
  PROVE  LET new == [rows EXCEPT ![i].timer = FALSE] IN
         /\ new \in Seq(Waits) /\ Once(new)
         /\ HiddenIn(new) = HiddenIn(rows) /\ TimedIn(new) = TimedIn(rows) \ {rows[i].task}
<1> DEFINE new == [rows EXCEPT ![i].timer = FALSE]
           n == Len(rows)
<1>1. n \in Nat /\ DOMAIN rows = 1..n /\ i \in 1..n /\ \A j \in 1..n : rows[j] \in Waits
  OBVIOUS
<1>2. [rows[i] EXCEPT !.timer = FALSE] \in Waits
  BY <1>1 DEF Waits
<1>3. /\ new \in Seq(Waits) /\ DOMAIN new = 1..n
      /\ \A j \in 1..n : new[j] = IF j = i THEN [rows[i] EXCEPT !.timer = FALSE] ELSE rows[j]
  BY <1>1, <1>2
<1> HIDE DEF new, n
<1>4. new[i].task = rows[i].task /\ new[i].timer = FALSE
  BY <1>1, <1>3 DEF Waits
<1>5. \A j \in 1..n : new[j].task = rows[j].task
  BY <1>1, <1>3, <1>4
<1>6. \A j \in 1..n : new[j].timer <=> (j # i /\ rows[j].timer)
  BY <1>1, <1>3, <1>4
<1>7. Once(new)
  BY <1>1, <1>3, <1>5 DEF Once
<1>8. HiddenIn(new) = HiddenIn(rows)
  BY <1>1, <1>3, <1>5 DEF HiddenIn
<1>9. TimedIn(new) = TimedIn(rows) \ {rows[i].task}
  BY <1>1, <1>3, <1>5, <1>6 DEF TimedIn, Once
<1>10. QED
  BY <1>3, <1>7, <1>8, <1>9 DEF new

\* The last row comes back.
LEMMA LastTaken ==
  ASSUME NEW rows \in Seq(Waits), Once(rows), rows # <<>>
  PROVE  /\ Front(rows) \in Seq(Waits) /\ Once(Front(rows))
         /\ HiddenIn(Front(rows)) = HiddenIn(rows) \ {Last(rows).task}
         /\ TimedIn(Front(rows)) = TimedIn(rows) \ {Last(rows).task}
         /\ Last(rows).timer => Last(rows).task \in TimedIn(rows)
<1> DEFINE n == Len(rows)
<1>1. n \in Nat /\ n \in DOMAIN rows /\ n >= 1 /\ Last(rows) = rows[n] /\ DOMAIN rows = 1..n
  BY DEF Last
<1>2. Front(rows) \in Seq(Waits) /\ Len(Front(rows)) = n - 1 /\ \A j \in 1..(n - 1) : Front(rows)[j] = rows[j]
  BY <1>1 DEF Front
<1>3. RemoveAt(rows, n) \in Seq(Waits) /\ Len(RemoveAt(rows, n)) = n - 1
      /\ \A j \in 1..(n - 1) : RemoveAt(rows, n)[j] = IF j < n THEN rows[j] ELSE rows[j + 1]
  BY <1>1, RemovedAt
<1>4. \A j \in 1..(n - 1) : RemoveAt(rows, n)[j] = Front(rows)[j]
  BY <1>1, <1>2, <1>3
<1> HIDE DEF n
<1>5. Front(rows) = RemoveAt(rows, n)
  <2> DEFINE a == Front(rows)
             b == RemoveAt(rows, n)
  <2>1. a \in Seq(Waits) /\ b \in Seq(Waits) /\ Len(a) = n - 1 /\ Len(b) = n - 1 /\ \A j \in 1..(n - 1) : b[j] = a[j]
    BY <1>2, <1>3, <1>4
  <2> HIDE DEF a, b
  <2>2. a = b
    BY <2>1
  <2>3. QED
    BY <2>2 DEF a, b
<1>6. /\ RemoveAt(rows, n) \in Seq(Waits) /\ Once(RemoveAt(rows, n))
      /\ HiddenIn(RemoveAt(rows, n)) = HiddenIn(rows) \ {rows[n].task}
      /\ TimedIn(RemoveAt(rows, n)) = TimedIn(rows) \ {rows[n].task}
  BY <1>1, RowTaken
<1>7. Last(rows).timer => Last(rows).task \in TimedIn(rows)
  BY <1>1 DEF TimedIn
<1>8. QED
  BY <1>1, <1>5, <1>6, <1>7

\* When a deletion is over its row is not hidden any more.
LEMMA NotPendingIs ==
  ASSUME pending \in Seq(Waits), Once(pending), NEW t
  PROVE  /\ NotPending(t) \in Seq(Waits) /\ Once(NotPending(t))
         /\ HiddenIn(NotPending(t)) = HiddenIn(pending) \ {t}
         /\ TimedIn(NotPending(t)) = TimedIn(pending) \ {t}
<1>1. Hidden = HiddenIn(pending) /\ TimedIn(pending) \subseteq HiddenIn(pending)
  BY DEF Hidden, HiddenIn, TimedIn
<1>2. CASE t \in Hidden
  <2> DEFINE i == CHOOSE k \in DOMAIN pending : pending[k].task = t
  <2>1. i \in DOMAIN pending /\ pending[i].task = t
    BY <1>2 DEF Hidden
  <2>2. NotPending(t) = RemoveAt(pending, i)
    BY <1>2 DEF NotPending
  <2> HIDE DEF i
  <2>3. QED
    BY <2>1, <2>2, RowTaken
<1>3. CASE t \notin Hidden
  BY <1>1, <1>3 DEF NotPending
<1>4. QED
  BY <1>2, <1>3

\* Every step keeps the tasks a tree, the requests and the rows as they should be.
LEMMA TypedStep ==
  ASSUME WellTyped, [Next]_vars
  PROVE  WellTyped'
<1>1. StepForms /\ ToastTyped'
  BY NextIs, ToastStep DEF WellTyped
<1> DEFINE Lists == DOMAIN list \in SUBSET Task /\ \A c \in Call : Moving(c) => DOMAIN SnapshotOf[c] \in SUBSET Task
           Rows == pending \in Seq(Waits) /\ Once(pending)
<1>2. IsTree(store) /\ AreCalls /\ Lists /\ Rows
  BY DEF WellTyped
<1>3. SUFFICES IsTree(store') /\ AreCalls' /\ Lists' /\ Rows'
  BY <1>1 DEF WellTyped
<1>4. ASSUME UNCHANGED list, AreCalls', NEW c \in Call, NEW kind, NEW t, NEW phase, NEW wants,
             Becomes(c, kind, t, phase, wants, SnapshotOf[c]),
             (kind = KindOf[c] /\ PhaseOf[c] # "free") \/ phase = "free" \/ kind \notin {"move", "undo"}
      PROVE  Lists'
  BY <1>2, <1>4 DEF Becomes, Others, Moving
<1>5. ASSUME UNCHANGED list, AreCalls', NEW c \in Call, NEW kind, NEW t, NEW phase, NEW wants, NEW snapshot,
             Becomes(c, kind, t, phase, wants, snapshot), phase = "free" \/ kind \notin {"move", "undo"}
      PROVE  \A d \in Call : Moving(d)' => DOMAIN SnapshotOf'[d] \in SUBSET Task
  BY <1>2, <1>5 DEF Becomes, Others, Moving
<1>6. ASSUME UNCHANGED <<list, calls>> PROVE AreCalls' /\ Lists'
  <2>1. list' = list /\ calls' = calls
    BY <1>6
  <2>2. SnapshotOf' = SnapshotOf /\ AreCalls' /\ \A c \in Call : Moving(c)' <=> Moving(c)
    BY <1>2, <2>1, SameCalls
  <2>3. QED
    BY <1>2, <2>1, <2>2
<1>7. CASE Stays
  BY <1>2, <1>6, <1>7 DEF Stays
<1>8. CASE SendsMove
  <2>1. PICK c \in Call : \E kind, t, to, from, ghost : SendMove(c, kind, t, to, from, ghost)
    BY <1>8 DEF SendsMove
  <2>2. PICK kind, t, to, from, ghost : SendMove(c, kind, t, to, from, ghost)
    BY <2>1
  <2>3. UNCHANGED <<store, pending>>
    BY <1>8 DEF SendsMove
  <2>4. Becomes(c, kind, t, "sent", {}, list) /\ DOMAIN list' = DOMAIN list
    <3>1. Becomes(c, kind, t, "sent", {}, list) /\ list' = ApplyMove(list, t, to.up, to.index)
      BY <1>2, <2>2, MoveSent
    <3>2. DOMAIN ApplyMove(list, t, to.up, to.index) = DOMAIN list
      BY ApplyMoveIs
    <3>3. QED
      BY <3>1, <3>2
  <2>5. AreCalls' /\ Lists'
    BY <1>2, <2>4 DEF Becomes, Others, Moving
  <2>6. QED
    BY <1>2, <2>3, <2>5
<1>9. CASE AsksForDone
  <2>1. PICK c \in Call : \E kind, t, before, after : Asks(c, kind, t, before, after) /\ kind \notin {"move", "undo"}
    BY <1>9 DEF AsksForDone
  <2>2. PICK kind, t, before, after : Asks(c, kind, t, before, after) /\ kind \notin {"move", "undo"}
    BY <2>1
  <2>3. UNCHANGED <<store, list, pending>>
    BY <1>9 DEF AsksForDone
  <2>4. Becomes(c, kind, t, "sent", {}, <<>>)
    BY <1>2, <2>2, DoneSent
  <2>5. AreCalls' /\ Lists'
    BY <1>2, <1>5, <2>2, <2>3, <2>4 DEF Becomes
  <2>6. QED
    BY <1>2, <2>3, <2>5
<1>10. CASE HidesRow
  <2>1. UNCHANGED <<store, list, calls>>
    BY <1>10 DEF HidesRow
  <2>2. PICK t \in DOMAIN list \ Hidden : pending' = Append(pending, [task |-> t, timer |-> TRUE])
    BY <1>10 DEF HidesRow
  <2>3. t \in Task /\ t \notin HiddenIn(pending)
    BY <1>2, <2>2 DEF Hidden, HiddenIn
  <2>4. Rows'
    BY <1>2, <2>2, <2>3, RowAdded
  <2>5. QED
    BY <1>2, <1>6, <2>1, <2>4
<1>11. CASE AsksForParent
  <2>1. PICK c \in Call : \E kind, t, wants : SendDelete(c, kind, t, wants) /\ kind \notin {"move", "undo"}
    BY <1>11 DEF AsksForParent
  <2>2. PICK kind, t, wants : SendDelete(c, kind, t, wants) /\ kind \notin {"move", "undo"}
    BY <2>1
  <2>3. UNCHANGED <<store, list, pending>>
    BY <1>11 DEF AsksForParent
  <2>4. Becomes(c, kind, t, "sent", wants, <<>>)
    BY <1>2, <2>2, DeleteSent
  <2>5. AreCalls' /\ Lists'
    BY <1>2, <1>5, <2>2, <2>3, <2>4 DEF Becomes
  <2>6. QED
    BY <1>2, <2>3, <2>5
<1>12. CASE UndoDelete
  <2>1. UNCHANGED <<store, list, calls>> /\ pending # <<>> /\ pending' = Front(pending)
    BY <1>12 DEF UndoDelete
  <2>2. Rows'
    BY <1>2, <2>1, LastTaken
  <2>3. QED
    BY <1>2, <1>6, <2>1, <2>2
<1>13. ASSUME NEW i \in DOMAIN pending, TimerFires(i) PROVE IsTree(store') /\ AreCalls' /\ Lists' /\ Rows'
  <2>1. UNCHANGED <<store, list>> /\ pending' = [pending EXCEPT ![i].timer = FALSE]
    BY <1>13 DEF TimerFires
  <2>2. PICK c \in Call : SendDelete(c, "delete", pending[i].task, {pending[i].task})
    BY <1>13 DEF TimerFires
  <2>3. Becomes(c, "delete", pending[i].task, "sent", {pending[i].task}, <<>>)
    BY <1>2, <2>2, DeleteSent
  <2>4. Rows'
    BY <1>2, <2>1, RowFired
  <2>5. AreCalls' /\ Lists'
    BY <1>2, <1>5, <2>1, <2>3 DEF Becomes
  <2>6. QED
    BY <1>2, <2>1, <2>4, <2>5
<1>14. CASE LeavePage
  <2>1. UNCHANGED <<store, list>> /\ pending' = <<>>
    BY <1>14 DEF LeavePage
  <2>2. PICK sent : Leaves(sent)
    BY <1>2, <1>14, LeavePageIs
  <2>3. AreCalls'
    BY <1>2, <1>14, LeavePageIs
  <2>4. Lists'
    BY <1>2, <2>1, <2>2 DEF Leaves, Moving
  <2>5. Rows'
    BY <2>1 DEF Once
  <2>6. QED
    BY <1>2, <2>1, <2>3, <2>4, <2>5
<1>15. ASSUME NEW c \in Call, Apply(c) PROVE IsTree(store') /\ AreCalls' /\ Lists' /\ Rows'
  <2>1. /\ PhaseOf[c] = "sent" /\ Becomes(c, KindOf[c], TaskOf[c], "applied", WantsOf[c], SnapshotOf[c])
        /\ IsTree(store') /\ UNCHANGED <<list, pending>>
    BY <1>2, <1>15, ApplyIs
  <2>2. AreCalls' /\ Lists'
    BY <1>2, <1>4, <2>1 DEF Becomes
  <2>3. QED
    BY <1>2, <2>1, <2>2
<1>16. ASSUME NEW c \in Call, Refuse(c) PROVE IsTree(store') /\ AreCalls' /\ Lists' /\ Rows'
  <2>1. /\ PhaseOf[c] = "sent" /\ Becomes(c, KindOf[c], TaskOf[c], "refused", WantsOf[c], SnapshotOf[c])
        /\ UNCHANGED <<store, list, pending>>
    BY <1>2, <1>16, RefuseIs
  <2>2. AreCalls' /\ Lists'
    BY <1>2, <1>4, <2>1 DEF Becomes
  <2>3. QED
    BY <1>2, <2>1, <2>2
<1>17. ASSUME NEW c \in Call, Answered(c) PROVE IsTree(store') /\ AreCalls' /\ Lists' /\ Rows'
  <2>1. Becomes(c, "none", Null, "free", {}, <<>>) /\ UNCHANGED <<store, list>>
    BY <1>2, <1>17, AnsweredIs DEF Answered
  <2>2. pending' \in {pending, NotPending(calls[c].task)}
    BY <1>17 DEF Answered
  <2>3. Rows'
    BY <1>2, <2>2, NotPendingIs
  <2>4. AreCalls' /\ Lists'
    BY <1>2, <1>5, <2>1 DEF Becomes
  <2>5. QED
    BY <1>2, <2>1, <2>3, <2>4
<1>18. ASSUME NEW c \in Call, Failed(c) PROVE IsTree(store') /\ AreCalls' /\ Lists' /\ Rows'
  <2>1. PhaseOf[c] = "refused" /\ Becomes(c, "none", Null, "free", {}, <<>>) /\ UNCHANGED store
    BY <1>2, <1>18, FailedIs DEF Failed
  <2>2. pending' \in {pending, NotPending(calls[c].task)}
    BY <1>18 DEF Failed
  <2>3. Rows'
    BY <1>2, <2>2, NotPendingIs
  <2>4. \/ list' = list
        \/ KindOf[c] \in {"move", "undo"} /\ list' = SnapshotOf[c]
    BY <1>18 DEF Failed, KindOf, SnapshotOf
  <2>5. DOMAIN list' \in SUBSET Task
    BY <1>2, <2>1, <2>4 DEF Moving
  <2>6. \A d \in Call : Moving(d)' => DOMAIN SnapshotOf'[d] \in SUBSET Task
    BY <1>2, <2>1 DEF Becomes, Others, Moving
  <2>7. QED
    BY <1>2, <2>1, <2>3, <2>5, <2>6 DEF Becomes
<1>19. CASE Fetched
  <2>1. store' = store /\ calls' = calls /\ pending' = pending /\ list' = Loaded(store)
    BY <1>19 DEF Fetched
  <2>2. DOMAIN list' \in SUBSET Task
    BY <1>2, <2>1 DEF Loaded, IsTree, IsList
  <2>3. AreCalls' /\ SnapshotOf' = SnapshotOf /\ \A c \in Call : Moving(c)' <=> Moving(c)
    BY <1>2, <2>1, SameCalls
  <2>4. Lists'
    BY <1>2, <2>2, <2>3
  <2>5. QED
    BY <1>2, <2>1, <2>3, <2>4
<1>20. QED
  BY <1>1, <1>7, <1>8, <1>9, <1>10, <1>11, <1>12, <1>13, <1>14, <1>15, <1>16, <1>17, <1>18, <1>19 DEF StepForms

-----------------------------------------------------------------------------
(* Each form of step, as what it does to the requests and to the rows that *)
(* are deleted on screen.                                                  *)

NowHidden == HiddenIn(pending)
NowTimed == TimedIn(pending)

SameRows == unwanted' = unwanted /\ NowHidden' = NowHidden /\ NowTimed' = NowTimed /\ shown' = shown
SameLists == store' = store /\ list' = list /\ fetching' = fetching

MoveForm(c, kind, t) ==
  /\ PhaseOf[c] = "free" /\ kind \in {"move", "undo"} /\ Becomes(c, kind, t, "sent", {}, list)
  /\ Hasty \/ (\A d \in Call : ~ Cutting(d))
  /\ store' = store /\ SameRows
DoneForm(c, kind, t) ==
  /\ PhaseOf[c] = "free" /\ kind \in {"complete", "reopen", "undone"} /\ Becomes(c, kind, t, "sent", {}, <<>>)
  /\ SameLists /\ SameRows
HideForm(t) ==
  /\ shown /\ shown' = shown /\ calls' = calls /\ SameLists
  /\ t \in Task \ NowHidden /\ unwanted' = unwanted \cup {t}
  /\ NowHidden' = NowHidden \cup {t} /\ NowTimed' = NowTimed \cup {t}
ParentForm(c, kind, t, wants) ==
  /\ PhaseOf[c] = "free" /\ Becomes(c, kind, t, "sent", wants, <<>>)
  /\ \/ kind = "lift" /\ wants = {t}
     \/ kind = "subtree" /\ wants = {t} \cup Under(list, t)
        /\ (Hasty \/ (~ fetching /\ \A d \in Call : PhaseOf[d] = "free"))
  /\ SameLists /\ SameRows
BackForm(t) ==
  /\ shown /\ shown' = shown /\ calls' = calls /\ SameLists
  /\ LateUndo \/ t \in NowTimed
  /\ unwanted' = unwanted \ {t} /\ NowHidden' = NowHidden \ {t} /\ NowTimed' = NowTimed \ {t}
FireForm(c, t) ==
  /\ shown /\ shown' = shown /\ t \in NowTimed
  /\ PhaseOf[c] = "free" /\ Becomes(c, "delete", t, "sent", {t}, <<>>)
  /\ NowHidden' = NowHidden /\ NowTimed' = NowTimed \ {t} /\ unwanted' = unwanted /\ SameLists
LeaveForm ==
  /\ shown' = FALSE /\ SameLists /\ unwanted' = unwanted /\ NowHidden' = {} /\ NowTimed' = {}
  /\ \A c \in Call :
       \/ /\ KindOf'[c] = KindOf[c] /\ TaskOf'[c] = TaskOf[c] /\ PhaseOf'[c] = PhaseOf[c] /\ WantsOf'[c] = WantsOf[c]
       \/ /\ PhaseOf[c] = "free" /\ PhaseOf'[c] = "sent" /\ KindOf'[c] = "delete" /\ TaskOf'[c] \in NowTimed
          /\ WantsOf'[c] = {TaskOf'[c]}
          /\ \A d \in Call : PhaseOf[d] = "free" /\ PhaseOf'[d] = "sent" /\ TaskOf'[d] = TaskOf'[c] => d = c
  /\ \A t \in NowTimed : \E c \in Call : PhaseOf[c] = "free" /\ PhaseOf'[c] = "sent" /\ KindOf'[c] = "delete" /\ TaskOf'[c] = t
ApplyForm(c) ==
  /\ PhaseOf[c] = "sent" /\ Becomes(c, KindOf[c], TaskOf[c], "applied", WantsOf[c], SnapshotOf[c])
  /\ TaskOf[c] \in DOMAIN store /\ DOMAIN store' = DOMAIN store \ Gone(store, KindOf[c], TaskOf[c])
  /\ KindOf[c] \notin {"move", "undo"} =>
       \A u \in DOMAIN store' : Under(store', u) = Under(store, u) \cap DOMAIN store'
  /\ list' = list /\ fetching' = fetching /\ SameRows
RefuseForm(c) ==
  /\ PhaseOf[c] = "sent" /\ Becomes(c, KindOf[c], TaskOf[c], "refused", WantsOf[c], SnapshotOf[c])
  /\ SameLists /\ SameRows
\* The row comes back on screen if this deletion is the one that is heard.
BackOnScreen(c) ==
  \/ NowHidden' = NowHidden /\ NowTimed' = NowTimed
  \/ KindOf[c] = "delete" /\ NowHidden' = NowHidden \ {TaskOf[c]} /\ NowTimed' = NowTimed \ {TaskOf[c]}
AnswerForm(c) ==
  /\ PhaseOf[c] = "applied" /\ Becomes(c, "none", Null, "free", {}, <<>>)
  /\ store' = store /\ list' = list /\ fetching' = TRUE
  /\ unwanted' = unwanted /\ shown' = shown /\ BackOnScreen(c)
FailForm(c) ==
  /\ PhaseOf[c] = "refused" /\ Becomes(c, "none", Null, "free", {}, <<>>)
  /\ store' = store /\ shown' = shown /\ BackOnScreen(c)
  /\ fetching' = TRUE \/ (KindOf[c] \notin {"move", "undo"} /\ list' = list /\ fetching' = fetching)
  /\ unwanted' = IF KindOf[c] = "delete" THEN unwanted \ {TaskOf[c]} ELSE unwanted
FetchForm == calls' = calls /\ store' = store /\ list' = Loaded(store) /\ SameRows
RestForm == calls' = calls /\ SameLists /\ SameRows

Forms ==
  \/ RestForm \/ LeaveForm \/ FetchForm
  \/ \E t : HideForm(t) \/ BackForm(t)
  \/ \E c \in Call : ApplyForm(c) \/ RefuseForm(c) \/ AnswerForm(c) \/ FailForm(c)
  \/ \E c \in Call, t \in NowTimed : FireForm(c, t)
  \/ \E c \in Call : \E kind, t, wants : MoveForm(c, kind, t) \/ DoneForm(c, kind, t) \/ ParentForm(c, kind, t, wants)

\* Every step has one of these forms.
LEMMA FormsAre ==
  ASSUME WellTyped, [Next]_vars
  PROVE  Forms
<1>1. StepForms
  BY NextIs DEF WellTyped
<1>2. IsTree(store) /\ AreCalls /\ pending \in Seq(Waits) /\ Once(pending) /\ DOMAIN list \in SUBSET Task
  BY DEF WellTyped
<1>3. ASSUME pending' = pending PROVE NowHidden' = NowHidden /\ NowTimed' = NowTimed
  BY <1>3 DEF NowHidden, NowTimed, HiddenIn, TimedIn
<1>4. CASE Stays
  <2>1. RestForm
    BY <1>3, <1>4 DEF Stays, RestForm, SameRows, SameLists
  <2>2. QED
    BY <2>1 DEF Forms
<1>5. CASE SendsMove
  <2>1. PICK c \in Call : \E kind, t, to, from, ghost :
               SendMove(c, kind, t, to, from, ghost) /\ kind \in {"move", "undo"}
    BY <1>5 DEF SendsMove
  <2>2. PICK kind, t, to, from, ghost : SendMove(c, kind, t, to, from, ghost) /\ kind \in {"move", "undo"}
    BY <2>1
  <2>3. unwanted' = unwanted /\ store' = store /\ pending' = pending /\ shown' = shown
    BY <1>5 DEF SendsMove
  <2>4. /\ PhaseOf[c] = "free" /\ Becomes(c, kind, t, "sent", {}, list)
        /\ Hasty \/ \A d \in Call : ~ Cutting(d)
    BY <1>2, <2>2, MoveSent
  <2>5. MoveForm(c, kind, t)
    BY <1>3, <2>2, <2>3, <2>4 DEF MoveForm, SameRows
  <2>6. QED
    BY <2>5 DEF Forms
<1>6. CASE AsksForDone
  <2>1. PICK c \in Call : \E kind, t, before, after :
               Asks(c, kind, t, before, after) /\ kind \in {"complete", "reopen", "undone"}
    BY <1>6 DEF AsksForDone
  <2>2. PICK kind, t, before, after : Asks(c, kind, t, before, after) /\ kind \in {"complete", "reopen", "undone"}
    BY <2>1
  <2>3. unwanted' = unwanted /\ store' = store /\ list' = list /\ fetching' = fetching /\ pending' = pending /\ shown' = shown
    BY <1>6 DEF AsksForDone
  <2>4. PhaseOf[c] = "free" /\ Becomes(c, kind, t, "sent", {}, <<>>)
    BY <1>2, <2>2, DoneSent
  <2>5. DoneForm(c, kind, t)
    BY <1>3, <2>2, <2>3, <2>4 DEF DoneForm, SameRows, SameLists
  <2>6. QED
    BY <2>5 DEF Forms
<1>7. CASE HidesRow
  <2>1. shown /\ store' = store /\ list' = list /\ fetching' = fetching /\ calls' = calls /\ shown' = shown
    BY <1>7 DEF HidesRow
  <2>2. PICK t \in DOMAIN list \ Hidden :
               pending' = Append(pending, [task |-> t, timer |-> TRUE]) /\ unwanted' = unwanted \cup {t}
    BY <1>7 DEF HidesRow
  <2>3. t \in Task /\ t \notin HiddenIn(pending)
    BY <1>2, <2>2 DEF Hidden, HiddenIn
  <2>4. HiddenIn(pending') = HiddenIn(pending) \cup {t} /\ TimedIn(pending') = TimedIn(pending) \cup {t}
    BY <1>2, <2>2, <2>3, RowAdded
  <2>5. HideForm(t)
    BY <2>1, <2>2, <2>3, <2>4 DEF HideForm, SameLists, NowHidden, NowTimed, HiddenIn, TimedIn
  <2>6. QED
    BY <2>5 DEF Forms
<1>8. CASE AsksForParent
  <2>1. PICK c \in Call : \E kind, t :
       \/ kind = "lift" /\ SendDelete(c, kind, t, {t})
       \/ kind = "subtree" /\ SendDelete(c, kind, t, {t} \cup Under(list, t))
          /\ (Hasty \/ (~fetching /\ \A d \in Call : calls[d].phase = "free"))
    BY <1>8 DEF AsksForParent
  <2>2. PICK kind, t :
       \/ kind = "lift" /\ SendDelete(c, kind, t, {t})
       \/ kind = "subtree" /\ SendDelete(c, kind, t, {t} \cup Under(list, t))
          /\ (Hasty \/ (~fetching /\ \A d \in Call : calls[d].phase = "free"))
    BY <2>1
  <2>3. unwanted' = unwanted /\ store' = store /\ list' = list /\ fetching' = fetching /\ pending' = pending /\ shown' = shown
    BY <1>8 DEF AsksForParent
  <2>4. CASE kind = "lift" /\ SendDelete(c, kind, t, {t})
    <3>1. PhaseOf[c] = "free" /\ Becomes(c, kind, t, "sent", {t}, <<>>)
      BY <1>2, <2>4, DeleteSent
    <3>2. ParentForm(c, kind, t, {t})
      BY <1>3, <2>3, <2>4, <3>1 DEF ParentForm, SameRows, SameLists
    <3>3. QED
      BY <3>2 DEF Forms
  <2>5. CASE kind = "subtree" /\ SendDelete(c, kind, t, {t} \cup Under(list, t))
          /\ (Hasty \/ (~fetching /\ \A d \in Call : calls[d].phase = "free"))
    <3> DEFINE wants == {t} \cup Under(list, t)
    <3>1. SendDelete(c, kind, t, wants)
      BY <2>5
    <3> HIDE DEF wants
    <3>2. PhaseOf[c] = "free" /\ Becomes(c, kind, t, "sent", wants, <<>>)
      BY <1>2, <3>1, DeleteSent
    <3>3. Hasty \/ (~fetching /\ \A d \in Call : PhaseOf[d] = "free")
      BY <2>5 DEF PhaseOf
    <3>4. ParentForm(c, kind, t, wants)
      BY <1>3, <2>3, <2>5, <3>2, <3>3 DEF ParentForm, SameRows, SameLists, wants
    <3>5. QED
      BY <3>4 DEF Forms
  <2>6. QED
    BY <2>2, <2>4, <2>5
<1>9. CASE UndoDelete
  <2> DEFINE t == Last(pending).task
  <2>1. /\ shown /\ pending # <<>> /\ pending' = Front(pending) /\ unwanted' = unwanted \ {t}
        /\ Last(pending).timer \/ LateUndo
        /\ store' = store /\ list' = list /\ fetching' = fetching /\ calls' = calls /\ shown' = shown
    BY <1>9 DEF UndoDelete
  <2>2. /\ HiddenIn(pending') = HiddenIn(pending) \ {t} /\ TimedIn(pending') = TimedIn(pending) \ {t}
        /\ Last(pending).timer => t \in TimedIn(pending)
    BY <1>2, <2>1, LastTaken
  <2> HIDE DEF t
  <2>3. BackForm(t)
    BY <2>1, <2>2 DEF BackForm, SameLists, NowHidden, NowTimed, HiddenIn, TimedIn
  <2>4. QED
    BY <2>3 DEF Forms
<1>10. ASSUME NEW i \in DOMAIN pending, TimerFires(i) PROVE Forms
  <2> DEFINE t == pending[i].task
  <2>1. /\ shown /\ pending[i].timer /\ pending' = [pending EXCEPT ![i].timer = FALSE]
        /\ unwanted' = unwanted /\ store' = store /\ list' = list /\ fetching' = fetching /\ shown' = shown
    BY <1>10 DEF TimerFires
  <2>2. PICK c \in Call : SendDelete(c, "delete", t, {t})
    BY <1>10 DEF TimerFires
  <2>3. HiddenIn(pending') = HiddenIn(pending) /\ TimedIn(pending') = TimedIn(pending) \ {t}
    BY <1>2, <2>1, RowFired
  <2>4. t \in TimedIn(pending)
    BY <2>1 DEF TimedIn
  <2> HIDE DEF t
  <2>5. PhaseOf[c] = "free" /\ Becomes(c, "delete", t, "sent", {t}, <<>>)
    BY <1>2, <2>2, DeleteSent
  <2>6. FireForm(c, t) /\ t \in NowTimed
    BY <2>1, <2>3, <2>4, <2>5 DEF FireForm, SameLists, NowHidden, NowTimed, HiddenIn, TimedIn
  <2>7. QED
    BY <2>6 DEF Forms
<1>11. CASE LeavePage
  <2>1. /\ shown' = FALSE /\ pending' = <<>> /\ unwanted' = unwanted
        /\ store' = store /\ list' = list /\ fetching' = fetching
    BY <1>11 DEF LeavePage
  <2>2. PICK sent : Leaves(sent)
    BY <1>2, <1>11, LeavePageIs
  <2>3. NowHidden' = {} /\ NowTimed' = {}
    BY <2>1 DEF NowHidden, NowTimed, HiddenIn, TimedIn
  <2>4. NowTimed = {pending[i].task : i \in Waiting} /\ Waiting \subseteq DOMAIN pending
    BY DEF NowTimed, TimedIn, Waiting
  <2>5. \A i, j \in Waiting : pending[i].task = pending[j].task => i = j
    BY <1>2, <2>4 DEF Once
  <2>6. ASSUME NEW c \in Call, sent[c] # 0
        PROVE  /\ PhaseOf[c] = "free" /\ PhaseOf'[c] = "sent" /\ KindOf'[c] = "delete" /\ TaskOf'[c] \in NowTimed
               /\ WantsOf'[c] = {TaskOf'[c]} /\ TaskOf'[c] = pending[sent[c]].task /\ sent[c] \in Waiting
    BY <2>2, <2>4, <2>6 DEF Leaves
  <2>7. ASSUME NEW c \in Call, sent[c] = 0
        PROVE  KindOf'[c] = KindOf[c] /\ TaskOf'[c] = TaskOf[c] /\ PhaseOf'[c] = PhaseOf[c] /\ WantsOf'[c] = WantsOf[c]
    BY <2>2, <2>7 DEF Leaves
  <2>8. ASSUME NEW c \in Call, NEW d \in Call, sent[c] # 0, PhaseOf[d] = "free", PhaseOf'[d] = "sent",
               TaskOf'[d] = TaskOf'[c]
        PROVE  d = c
    <3>1. sent[d] # 0
      BY <2>7, <2>8
    <3>2. sent[c] = sent[d]
      BY <2>5, <2>6, <2>8, <3>1
    <3>3. QED
      BY <2>2, <2>8, <3>2 DEF Leaves
  <2>9. ASSUME NEW t \in NowTimed
        PROVE  \E c \in Call : PhaseOf[c] = "free" /\ PhaseOf'[c] = "sent" /\ KindOf'[c] = "delete" /\ TaskOf'[c] = t
    <3>1. PICK i \in Waiting : t = pending[i].task
      BY <2>4
    <3>2. PICK c \in Call : sent[c] = i
      BY <2>2 DEF Leaves
    <3>3. i # 0
      BY <1>2, <2>4
    <3>4. QED
      BY <2>6, <3>1, <3>2, <3>3
  <2>10. LeaveForm
    BY <2>1, <2>3, <2>6, <2>7, <2>8, <2>9 DEF LeaveForm, SameLists
  <2>11. QED
    BY <2>10 DEF Forms
<1>12. ASSUME NEW c \in Call, Apply(c) PROVE Forms
  <2>1. /\ PhaseOf[c] = "sent" /\ Becomes(c, KindOf[c], TaskOf[c], "applied", WantsOf[c], SnapshotOf[c])
        /\ TaskOf[c] \in DOMAIN store
        /\ DOMAIN store' = DOMAIN store \ Gone(store, KindOf[c], TaskOf[c])
        /\ KindOf[c] \notin {"move", "undo"} =>
              \A u \in DOMAIN store' : Under(store', u) = Under(store, u) \cap DOMAIN store'
        /\ unwanted' = unwanted /\ list' = list /\ fetching' = fetching /\ pending' = pending /\ shown' = shown
    BY <1>2, <1>12, ApplyIs
  <2>2. ApplyForm(c)
    BY <1>3, <2>1 DEF ApplyForm, SameRows
  <2>3. QED
    BY <2>2 DEF Forms
<1>13. ASSUME NEW c \in Call, Refuse(c) PROVE Forms
  <2>1. RefuseForm(c)
    BY <1>2, <1>3, <1>13, RefuseIs DEF RefuseForm, SameRows, SameLists
  <2>2. QED
    BY <2>1 DEF Forms
<1>14. ASSUME NEW c \in Call, pending' = IF calls[c].kind = "delete" /\ calls[c].heard THEN NotPending(calls[c].task)
                                         ELSE pending
       PROVE  BackOnScreen(c)
  <2> DEFINE t == calls[c].task
  <2>1. KindOf[c] = calls[c].kind /\ TaskOf[c] = t
    BY DEF KindOf, TaskOf
  <2> HIDE DEF t
  <2>2. CASE pending' = pending
    BY <1>3, <2>2 DEF BackOnScreen
  <2>3. CASE calls[c].kind = "delete" /\ pending' = NotPending(t)
    <3>1. HiddenIn(pending') = HiddenIn(pending) \ {t} /\ TimedIn(pending') = TimedIn(pending) \ {t}
      BY <1>2, <2>3, NotPendingIs
    <3>2. QED
      BY <2>1, <2>3, <3>1 DEF BackOnScreen, NowHidden, NowTimed, HiddenIn, TimedIn
  <2>4. QED
    BY <1>14, <2>2, <2>3 DEF t
<1>15. ASSUME NEW c \in Call, Answered(c) PROVE Forms
  <2>1. PhaseOf[c] = "applied" /\ Becomes(c, "none", Null, "free", {}, <<>>)
    BY <1>2, <1>15, AnsweredIs
  <2>2. /\ store' = store /\ list' = list /\ fetching' = TRUE /\ unwanted' = unwanted /\ shown' = shown
        /\ pending' = IF calls[c].kind = "delete" /\ calls[c].heard THEN NotPending(calls[c].task) ELSE pending
    BY <1>15 DEF Answered
  <2>3. AnswerForm(c)
    BY <1>14, <2>1, <2>2 DEF AnswerForm
  <2>4. QED
    BY <2>3 DEF Forms
<1>16. ASSUME NEW c \in Call, Failed(c) PROVE Forms
  <2>1. PhaseOf[c] = "refused" /\ Becomes(c, "none", Null, "free", {}, <<>>)
    BY <1>2, <1>16, FailedIs
  <2>2. /\ store' = store /\ shown' = shown
        /\ pending' = IF calls[c].kind = "delete" /\ calls[c].heard THEN NotPending(calls[c].task) ELSE pending
        /\ unwanted' = IF calls[c].kind = "delete" THEN unwanted \ {calls[c].task} ELSE unwanted
        /\ fetching' = TRUE \/ (calls[c].kind \notin {"move", "undo"} /\ list' = list /\ fetching' = fetching)
    BY <1>16 DEF Failed
  <2>3. KindOf[c] = calls[c].kind /\ TaskOf[c] = calls[c].task
    BY DEF KindOf, TaskOf
  <2>4. BackOnScreen(c)
    BY <1>14, <2>2
  <2>5. FailForm(c)
    BY <2>1, <2>2, <2>3, <2>4 DEF FailForm
  <2>6. QED
    BY <2>5 DEF Forms
<1>17. CASE Fetched
  <2>1. FetchForm
    BY <1>3, <1>17 DEF Fetched, FetchForm, SameRows
  <2>2. QED
    BY <2>1 DEF Forms
<1>18. QED
  BY <1>1, <1>4, <1>5, <1>6, <1>7, <1>8, <1>9, <1>10, <1>11, <1>12, <1>13, <1>15, <1>16, <1>17 DEF StepForms

-----------------------------------------------------------------------------
(* Deletions.                                                              *)

\* The list that is shown is behind the server's tasks only while something
\* is on its way that will tell,
Behind ==
  \/ fetching \/ list = Loaded(store)
  \/ (\E c \in Call : Moving(c)) \/ (\E c \in Call : PhaseOf[c] = "applied")
\* nothing is moved while a subtree is being deleted,
Apart == \A c, d \in Call : ~ (Cutting(c) /\ Moving(d))
\* a request is about what the user saw when it was asked for,
MeantBy(c) ==
  /\ KindOf[c] \in {"delete", "lift"} => WantsOf[c] = {TaskOf[c]}
  /\ KindOf[c] = "subtree" /\ PhaseOf[c] = "sent" /\ TaskOf[c] \in DOMAIN store =>
       WantsOf[c] \cap DOMAIN store = {TaskOf[c]} \cup Under(store, TaskOf[c])
  /\ KindOf[c] \notin {"delete", "lift", "subtree"} => WantsOf[c] = {}
  /\ PhaseOf[c] = "applied" => WantsOf[c] \cap DOMAIN store = {}
Meant == \A c \in Call : PhaseOf[c] # "free" => MeantBy(c)
\* and each row that the user deleted waits for its timer or is asked for,
\* once.
Followed ==
  /\ \A c, d \in Call : Deleting(c) /\ Deleting(d) /\ TaskOf[c] = TaskOf[d] => c = d
  /\ \A t \in NowTimed : t \in unwanted /\ \A c \in Call : Deleting(c) => TaskOf[c] # t
  /\ \A c \in Call : Deleting(c) /\ PhaseOf[c] = "sent" => TaskOf[c] \in unwanted
  /\ shown => \A c \in Call : Deleting(c) => TaskOf[c] \in NowHidden
  /\ \A t \in DOMAIN store \cap unwanted : t \in NowTimed \/ \E c \in Call : Deleting(c) /\ TaskOf[c] = t

\* Every step keeps the list from being behind without something on its way.
LEMMA BehindStep ==
  ASSUME WellTyped, Behind, Forms
  PROVE  Behind'
<1>1. ASSUME calls' = calls, SameLists PROVE Behind'
  <2>1. store' = store /\ list' = list /\ fetching' = fetching /\ PhaseOf' = PhaseOf
        /\ \A c \in Call : Moving(c)' <=> Moving(c)
    BY <1>1, SameCalls DEF SameLists
  <2>2. Loaded(store)' = Loaded(store)
    BY <2>1
  <2>3. QED
    BY <2>1, <2>2 DEF Behind
<1>2. ASSUME SameLists, NEW c \in Call, PhaseOf[c] = "free", Others(c) PROVE Behind'
  <2>1. \A d \in Call : Moving(d) \/ PhaseOf[d] = "applied" => d # c
    BY <1>2 DEF Moving
  <2>2. \A d \in Call : (Moving(d) => Moving(d)') /\ (PhaseOf[d] = "applied" => PhaseOf'[d] = "applied")
    BY <1>2, <2>1 DEF Others, Moving
  <2>3. store' = store /\ list' = list /\ fetching' = fetching /\ Loaded(store)' = Loaded(store)
    BY <1>2 DEF SameLists
  <2>4. QED
    BY <2>2, <2>3 DEF Behind
<1>3. CASE RestForm
  BY <1>1, <1>3 DEF RestForm
<1>4. CASE LeaveForm
  <2>1. \A d \in Call : (Moving(d) => Moving(d)') /\ (PhaseOf[d] = "applied" => PhaseOf'[d] = "applied")
    BY <1>4 DEF LeaveForm, Moving
  <2>2. store' = store /\ list' = list /\ fetching' = fetching /\ Loaded(store)' = Loaded(store)
    BY <1>4 DEF LeaveForm, SameLists
  <2>3. QED
    BY <2>1, <2>2 DEF Behind
<1>5. CASE FetchForm
  BY <1>5 DEF FetchForm, Behind
<1>6. ASSUME NEW t, HideForm(t) \/ BackForm(t) PROVE Behind'
  BY <1>1, <1>6 DEF HideForm, BackForm
<1>7. ASSUME NEW c \in Call, ApplyForm(c) PROVE Behind'
  BY <1>7 DEF ApplyForm, Becomes, Behind
<1>8. ASSUME NEW c \in Call, RefuseForm(c) PROVE Behind'
  <2>1. \A d \in Call : (Moving(d) => Moving(d)') /\ (PhaseOf[d] = "applied" => PhaseOf'[d] = "applied")
    BY <1>8 DEF RefuseForm, Becomes, Others, Moving
  <2>2. store' = store /\ list' = list /\ fetching' = fetching /\ Loaded(store)' = Loaded(store)
    BY <1>8 DEF RefuseForm, SameLists
  <2>3. QED
    BY <2>1, <2>2 DEF Behind
<1>9. ASSUME NEW c \in Call, AnswerForm(c) PROVE Behind'
  BY <1>9 DEF AnswerForm, Behind
<1>10. ASSUME NEW c \in Call, FailForm(c) PROVE Behind'
  <2>1. CASE fetching' = TRUE
    BY <2>1 DEF Behind
  <2>2. CASE KindOf[c] \notin {"move", "undo"} /\ list' = list /\ fetching' = fetching
    <3>1. \A d \in Call : (Moving(d) => Moving(d)') /\ (PhaseOf[d] = "applied" => PhaseOf'[d] = "applied")
      BY <1>10, <2>2 DEF FailForm, Becomes, Others, Moving
    <3>2. store' = store /\ Loaded(store)' = Loaded(store)
      BY <1>10 DEF FailForm
    <3>3. QED
      BY <2>2, <3>1, <3>2 DEF Behind
  <2>3. QED
    BY <1>10, <2>1, <2>2 DEF FailForm
<1>11. ASSUME NEW c \in Call, NEW t \in NowTimed, FireForm(c, t) PROVE Behind'
  BY <1>2, <1>11 DEF FireForm, Becomes
<1>12. ASSUME NEW c \in Call, NEW kind, NEW t, MoveForm(c, kind, t) PROVE Behind'
  <2>1. Moving(c)'
    BY <1>12 DEF MoveForm, Becomes, Moving
  <2>2. QED
    BY <2>1 DEF Behind
<1>13. ASSUME NEW c \in Call, NEW kind, NEW t, DoneForm(c, kind, t) PROVE Behind'
  BY <1>2, <1>13 DEF DoneForm, Becomes
<1>14. ASSUME NEW c \in Call, NEW kind, NEW t, NEW wants, ParentForm(c, kind, t, wants) PROVE Behind'
  BY <1>2, <1>14 DEF ParentForm, Becomes
<1>15. QED
  BY <1>3, <1>4, <1>5, <1>6, <1>7, <1>8, <1>9, <1>10, <1>11, <1>12, <1>13, <1>14 DEF Forms

\* No step brings a move and the deletion of a subtree together.
LEMMA ApartStep ==
  ASSUME ~ Hasty, Apart, Forms
  PROVE  Apart'
<1>1. ASSUME calls' = calls PROVE Apart'
  <2>1. \A c \in Call : (Moving(c)' <=> Moving(c)) /\ (Cutting(c)' <=> Cutting(c))
    BY <1>1, SameCalls
  <2>2. QED
    BY <2>1 DEF Apart
<1>2. ASSUME NEW c \in Call, Others(c), Moving(c)' => Moving(c), Cutting(c)' => Cutting(c) PROVE Apart'
  <2>1. \A d \in Call : (Moving(d)' => Moving(d)) /\ (Cutting(d)' => Cutting(d))
    BY <1>2 DEF Others, Moving, Cutting
  <2>2. QED
    BY <2>1 DEF Apart
<1>3. CASE RestForm \/ FetchForm
  BY <1>1, <1>3 DEF RestForm, FetchForm
<1>4. CASE LeaveForm
  <2>1. \A d \in Call : (Moving(d)' => Moving(d)) /\ (Cutting(d)' => Cutting(d))
    BY <1>4 DEF LeaveForm, Moving, Cutting
  <2>2. QED
    BY <2>1 DEF Apart
<1>5. ASSUME NEW t, HideForm(t) \/ BackForm(t) PROVE Apart'
  BY <1>1, <1>5 DEF HideForm, BackForm
<1>6. ASSUME NEW c \in Call, ApplyForm(c) \/ RefuseForm(c) \/ AnswerForm(c) \/ FailForm(c) PROVE Apart'
  <2>1. Others(c) /\ (Moving(c)' => Moving(c)) /\ (Cutting(c)' => Cutting(c))
    BY <1>6 DEF ApplyForm, RefuseForm, AnswerForm, FailForm, Becomes, Moving, Cutting
  <2>2. QED
    BY <1>2, <2>1
<1>7. ASSUME NEW c \in Call, NEW t \in NowTimed, FireForm(c, t) PROVE Apart'
  <2>1. Others(c) /\ ~ Moving(c)' /\ ~ Cutting(c)'
    BY <1>7 DEF FireForm, Becomes, Moving, Cutting
  <2>2. QED
    BY <1>2, <2>1
<1>8. ASSUME NEW c \in Call, NEW kind, NEW t, DoneForm(c, kind, t) PROVE Apart'
  <2>1. Others(c) /\ ~ Moving(c)' /\ ~ Cutting(c)'
    BY <1>8 DEF DoneForm, Becomes, Moving, Cutting
  <2>2. QED
    BY <1>2, <2>1
<1>9. ASSUME NEW c \in Call, NEW kind, NEW t, MoveForm(c, kind, t) PROVE Apart'
  <2>1. Others(c) /\ ~ Cutting(c)' /\ \A d \in Call : ~ Cutting(d)
    BY <1>9 DEF MoveForm, Becomes, Cutting
  <2>2. \A d \in Call : ~ Cutting(d)'
    BY <2>1 DEF Others, Cutting
  <2>3. QED
    BY <2>2 DEF Apart
<1>10. ASSUME NEW c \in Call, NEW kind, NEW t, NEW wants, ParentForm(c, kind, t, wants) PROVE Apart'
  <2>1. CASE kind = "lift"
    <3>1. Others(c) /\ ~ Moving(c)' /\ ~ Cutting(c)'
      BY <1>10, <2>1 DEF ParentForm, Becomes, Moving, Cutting
    <3>2. QED
      BY <1>2, <3>1
  <2>2. CASE kind = "subtree"
    <3>1. Others(c) /\ ~ Moving(c)' /\ \A d \in Call : ~ Moving(d)
      BY <1>10, <2>2 DEF ParentForm, Becomes, Moving
    <3>2. \A d \in Call : ~ Moving(d)'
      BY <3>1 DEF Others, Moving
    <3>3. QED
      BY <3>2 DEF Apart
  <2>3. QED
    BY <1>10, <2>1, <2>2 DEF ParentForm
<1>11. QED
  BY <1>3, <1>4, <1>5, <1>6, <1>7, <1>8, <1>9, <1>10 DEF Forms

\* The browser's tree is the server's.
LEMMA LoadedIs ==
  ASSUME NEW tasks, IsTree(tasks), NEW t
  PROVE  Under(Loaded(tasks), t) = Under(tasks, t)
<1>1. DOMAIN Loaded(tasks) = DOMAIN tasks
  BY DEF Loaded
<1>2. ASSUME NEW s \in DOMAIN tasks PROVE Loaded(tasks)[s].up = tasks[s].up
  <2>1. tasks[s] = [up |-> tasks[s].up, order |-> tasks[s].order, done |-> tasks[s].done, path |-> tasks[s].path]
    BY DEF IsTree, IsList, IsRow
  <2>2. Loaded(tasks)[s] = [tasks[s] EXCEPT !.path = PathAt(Parents(tasks), s)]
    BY DEF Loaded
  <2>3. QED
    BY <2>1, <2>2
<1>3. Parents(Loaded(tasks)) = Parents(tasks)
  BY <1>1, <1>2 DEF Parents
<1>4. QED
  BY <1>3 DEF Under

\* Every step keeps requests about what the user saw: no move comes between.
LEMMA MeantStep ==
  ASSUME WellTyped, ~ Hasty, Behind, Apart, Meant, Forms
  PROVE  Meant'
<1>1. ASSUME store' = store, NEW c \in Call, KindOf'[c] = KindOf[c], TaskOf'[c] = TaskOf[c], WantsOf'[c] = WantsOf[c],
             PhaseOf'[c] = PhaseOf[c] \/ PhaseOf'[c] = "refused", PhaseOf[c] # "free"
      PROVE  MeantBy(c)'
  BY <1>1 DEF Meant, MeantBy
<1>2. ASSUME store' = store, NEW c \in Call, Others(c), PhaseOf'[c] # "free" => MeantBy(c)' PROVE Meant'
  BY <1>1, <1>2 DEF Meant, Others
<1>3. ASSUME store' = store, calls' = calls PROVE Meant'
  <2>1. KindOf' = KindOf /\ TaskOf' = TaskOf /\ PhaseOf' = PhaseOf /\ WantsOf' = WantsOf
    BY <1>3, SameCalls
  <2>2. QED
    BY <1>1, <1>3, <2>1 DEF Meant
<1>4. CASE RestForm \/ FetchForm
  BY <1>3, <1>4 DEF RestForm, FetchForm, SameLists
<1>5. ASSUME NEW t, HideForm(t) \/ BackForm(t) PROVE Meant'
  BY <1>3, <1>5 DEF HideForm, BackForm, SameLists
<1>6. CASE LeaveForm
  <2>1. store' = store
    BY <1>6 DEF LeaveForm, SameLists
  <2>2. ASSUME NEW c \in Call, PhaseOf'[c] # "free" PROVE MeantBy(c)'
    <3>1. CASE KindOf'[c] = KindOf[c] /\ TaskOf'[c] = TaskOf[c] /\ PhaseOf'[c] = PhaseOf[c] /\ WantsOf'[c] = WantsOf[c]
      BY <1>1, <2>1, <2>2, <3>1
    <3>2. CASE PhaseOf'[c] = "sent" /\ KindOf'[c] = "delete" /\ WantsOf'[c] = {TaskOf'[c]}
      BY <3>2 DEF MeantBy
    <3>3. QED
      BY <1>6, <3>1, <3>2 DEF LeaveForm
  <2>3. QED
    BY <2>2 DEF Meant
<1>7. ASSUME NEW c \in Call, RefuseForm(c) PROVE Meant'
  <2>1. store' = store /\ Others(c) /\ MeantBy(c)'
    BY <1>1, <1>7 DEF RefuseForm, Becomes, SameLists
  <2>2. QED
    BY <1>2, <2>1
<1>8. ASSUME NEW c \in Call, AnswerForm(c) \/ FailForm(c) PROVE Meant'
  <2>1. store' = store /\ Others(c) /\ PhaseOf'[c] = "free"
    BY <1>8 DEF AnswerForm, FailForm, Becomes
  <2>2. QED
    BY <1>2, <2>1
<1>9. ASSUME NEW c \in Call, NEW t \in NowTimed, FireForm(c, t) PROVE Meant'
  <2>1. store' = store /\ Others(c) /\ MeantBy(c)'
    BY <1>9 DEF FireForm, Becomes, SameLists, MeantBy
  <2>2. QED
    BY <1>2, <2>1
<1>10. ASSUME NEW c \in Call, NEW kind, NEW t, MoveForm(c, kind, t) \/ DoneForm(c, kind, t) PROVE Meant'
  <2>1. store' = store /\ Others(c) /\ MeantBy(c)'
    BY <1>10 DEF MoveForm, DoneForm, Becomes, SameLists, MeantBy
  <2>2. QED
    BY <1>2, <2>1
<1>11. ASSUME NEW c \in Call, NEW kind, NEW t, NEW wants, ParentForm(c, kind, t, wants) PROVE Meant'
  <2>1. /\ store' = store /\ Others(c) /\ KindOf'[c] = kind /\ TaskOf'[c] = t /\ PhaseOf'[c] = "sent"
        /\ WantsOf'[c] = wants
    BY <1>11 DEF ParentForm, Becomes, SameLists
  <2>2. CASE kind = "lift"
    BY <1>2, <1>11, <2>1, <2>2 DEF ParentForm, MeantBy
  <2>3. CASE kind = "subtree"
    <3>1. wants = {t} \cup Under(list, t) /\ ~ fetching /\ \A d \in Call : PhaseOf[d] = "free"
      BY <1>11, <2>3 DEF ParentForm
    <3>2. list = Loaded(store)
      BY <3>1 DEF Behind, Moving
    <3>3. Under(list, t) = Under(store, t) /\ Under(store, t) \subseteq DOMAIN store
      BY <3>2, LoadedIs, UnderIs DEF WellTyped
    <3>4. t \in DOMAIN store => wants \cap DOMAIN store = {t} \cup Under(store, t)
      BY <3>1, <3>3
    <3>5. MeantBy(c)'
      BY <2>1, <2>3, <3>4 DEF MeantBy
    <3>6. QED
      BY <1>2, <2>1, <3>5
  <2>4. QED
    BY <1>11, <2>2, <2>3 DEF ParentForm
<1>12. ASSUME NEW c \in Call, ApplyForm(c) PROVE Meant'
  <2>1. /\ PhaseOf[c] = "sent" /\ Others(c) /\ KindOf'[c] = KindOf[c] /\ TaskOf'[c] = TaskOf[c]
        /\ PhaseOf'[c] = "applied" /\ WantsOf'[c] = WantsOf[c]
        /\ TaskOf[c] \in DOMAIN store /\ DOMAIN store' = DOMAIN store \ Gone(store, KindOf[c], TaskOf[c])
        /\ KindOf[c] \notin {"move", "undo"} =>
             \A u \in DOMAIN store' : Under(store', u) = Under(store, u) \cap DOMAIN store'
    BY <1>12 DEF ApplyForm, Becomes
  <2>2. MeantBy(c)
    BY <2>1 DEF Meant
  <2>3. DOMAIN store \in SUBSET Task /\ \A u : Under(store, u) \subseteq DOMAIN store
    BY UnderIs DEF WellTyped, IsTree, IsList
  <2>4. WantsOf[c] \cap DOMAIN store' = {}
    <3>1. CASE KindOf[c] \in {"delete", "lift"}
      BY <2>1, <2>2, <2>3, <3>1 DEF MeantBy, Gone
    <3>2. CASE KindOf[c] = "subtree"
      BY <2>1, <2>2, <2>3, <3>2 DEF MeantBy, Gone
    <3>3. CASE KindOf[c] \notin {"delete", "lift", "subtree"}
      BY <2>2, <3>3 DEF MeantBy
    <3>4. QED
      BY <3>1, <3>2, <3>3
  <2>5. MeantBy(c)'
    BY <2>1, <2>2, <2>4 DEF MeantBy
  <2>6. ASSUME NEW d \in Call \ {c}, PhaseOf[d] # "free" PROVE MeantBy(d)'
    <3>1. /\ KindOf'[d] = KindOf[d] /\ TaskOf'[d] = TaskOf[d] /\ PhaseOf'[d] = PhaseOf[d] /\ WantsOf'[d] = WantsOf[d]
          /\ MeantBy(d)
      BY <2>1, <2>6 DEF Others, Meant
    <3>2. ASSUME KindOf[d] = "subtree", PhaseOf[d] = "sent", TaskOf[d] \in DOMAIN store'
          PROVE  WantsOf[d] \cap DOMAIN store' = {TaskOf[d]} \cup Under(store', TaskOf[d])
      <4>1. Cutting(d) /\ ~ Moving(c)
        BY <2>6, <3>2 DEF Cutting, Apart
      <4>2. KindOf[c] \notin {"move", "undo"}
        BY <2>1, <4>1 DEF Moving
      <4>3. Under(store', TaskOf[d]) = Under(store, TaskOf[d]) \cap DOMAIN store'
        BY <2>1, <3>2, <4>2
      <4>4. WantsOf[d] \cap DOMAIN store = {TaskOf[d]} \cup Under(store, TaskOf[d]) /\ DOMAIN store' \subseteq DOMAIN store
        BY <2>1, <3>1, <3>2 DEF MeantBy
      <4>5. QED
        BY <3>2, <4>3, <4>4
    <3>3. PhaseOf[d] = "applied" => WantsOf[d] \cap DOMAIN store' = {}
      BY <2>1, <3>1 DEF MeantBy
    <3>4. QED
      BY <3>1, <3>2, <3>3 DEF MeantBy
  <2>7. QED
    BY <2>1, <2>5, <2>6 DEF Meant, Others
<1>13. QED
  BY <1>4, <1>5, <1>6, <1>7, <1>8, <1>9, <1>10, <1>11, <1>12 DEF Forms

\* Every step keeps each deleted row waiting or asked for, once.
LEMMA FollowedStep ==
  ASSUME WellTyped, ~ LateUndo, Meant, Followed, Forms
  PROVE  Followed'
<1>0. /\ \A c, d \in Call : Deleting(c) /\ Deleting(d) /\ TaskOf[c] = TaskOf[d] => c = d
      /\ \A t \in NowTimed : t \in unwanted /\ \A c \in Call : Deleting(c) => TaskOf[c] # t
      /\ \A c \in Call : Deleting(c) /\ PhaseOf[c] = "sent" => TaskOf[c] \in unwanted
      /\ shown => \A c \in Call : Deleting(c) => TaskOf[c] \in NowHidden
      /\ \A t \in DOMAIN store \cap unwanted : t \in NowTimed \/ \E c \in Call : Deleting(c) /\ TaskOf[c] = t
  BY DEF Followed
<1>1. NowTimed \subseteq NowHidden
  BY DEF NowTimed, NowHidden, TimedIn, HiddenIn
<1>2. ASSUME SameRows, DOMAIN store' \subseteq DOMAIN store, TaskOf' = TaskOf,
             \A c \in Call : (Deleting(c)' <=> Deleting(c)) /\ (Deleting(c)' /\ PhaseOf'[c] = "sent" => PhaseOf[c] = "sent")
      PROVE  Followed'
  <2>1. NowTimed' = NowTimed /\ NowHidden' = NowHidden /\ unwanted' = unwanted /\ shown' = shown
    BY <1>2 DEF SameRows
  <2>2. QED
    BY <1>0, <1>2, <2>1 DEF Followed
<1>3. ASSUME SameRows, DOMAIN store' \subseteq DOMAIN store, NEW c \in Call, Others(c), ~ Deleting(c), ~ Deleting(c)'
      PROVE  Followed'
  <2>1. NowTimed' = NowTimed /\ NowHidden' = NowHidden /\ unwanted' = unwanted /\ shown' = shown
    BY <1>3 DEF SameRows
  <2>2. \A d \in Call : (Deleting(d)' <=> Deleting(d)) /\ (Deleting(d) => d # c)
    BY <1>3 DEF Others, Deleting
  <2>3. \A d \in Call : Deleting(d) => TaskOf'[d] = TaskOf[d] /\ PhaseOf'[d] = PhaseOf[d]
    BY <1>3, <2>2 DEF Others
  <2>4. QED
    BY <1>0, <1>3, <2>1, <2>2, <2>3 DEF Followed
<1>4. ASSUME calls' = calls
      PROVE  TaskOf' = TaskOf /\ PhaseOf' = PhaseOf /\ \A c \in Call : Deleting(c)' <=> Deleting(c)
  BY <1>4, SameCalls
<1>5. CASE RestForm \/ FetchForm
  <2>1. calls' = calls /\ store' = store /\ SameRows
    BY <1>5 DEF RestForm, FetchForm, SameLists
  <2>2. QED
    BY <1>2, <1>4, <2>1
<1>6. CASE LeaveForm
  <2>1. /\ shown' = FALSE /\ store' = store /\ unwanted' = unwanted /\ NowHidden' = {} /\ NowTimed' = {}
    BY <1>6 DEF LeaveForm, SameLists
  <2>2. \A c \in Call :
       \/ /\ KindOf'[c] = KindOf[c] /\ TaskOf'[c] = TaskOf[c] /\ PhaseOf'[c] = PhaseOf[c]
       \/ /\ PhaseOf[c] = "free" /\ PhaseOf'[c] = "sent" /\ KindOf'[c] = "delete" /\ TaskOf'[c] \in NowTimed
          /\ \A d \in Call : PhaseOf[d] = "free" /\ PhaseOf'[d] = "sent" /\ TaskOf'[d] = TaskOf'[c] => d = c
    BY <1>6 DEF LeaveForm
  <2>3. \A t \in NowTimed : \E c \in Call : PhaseOf[c] = "free" /\ PhaseOf'[c] = "sent" /\ KindOf'[c] = "delete" /\ TaskOf'[c] = t
    BY <1>6 DEF LeaveForm
  <2>4. ASSUME NEW c \in Call, Deleting(c)'
        PROVE  \/ Deleting(c) /\ TaskOf'[c] = TaskOf[c] /\ PhaseOf'[c] = PhaseOf[c]
               \/ PhaseOf[c] = "free" /\ PhaseOf'[c] = "sent" /\ TaskOf'[c] \in NowTimed
    BY <2>2, <2>4 DEF Deleting
  <2>5. ASSUME NEW c \in Call, NEW d \in Call, Deleting(c)', Deleting(d)', TaskOf'[c] = TaskOf'[d] PROVE c = d
    <3>1. CASE Deleting(c) /\ TaskOf'[c] = TaskOf[c]
      <4>1. TaskOf'[d] \notin NowTimed
        BY <1>0, <2>5, <3>1
      <4>2. Deleting(d) /\ TaskOf'[d] = TaskOf[d]
        BY <2>4, <2>5, <4>1
      <4>3. QED
        BY <1>0, <2>5, <3>1, <4>2
    <3>2. CASE PhaseOf[c] = "free" /\ PhaseOf'[c] = "sent" /\ TaskOf'[c] \in NowTimed
      <4>1. ~ (Deleting(d) /\ TaskOf'[d] = TaskOf[d])
        BY <1>0, <2>5, <3>2
      <4>2. PhaseOf[d] = "free" /\ PhaseOf'[d] = "sent"
        BY <2>4, <2>5, <4>1
      <4>3. PhaseOf'[c] # PhaseOf[c] /\ PhaseOf'[d] # PhaseOf[d]
        BY <3>2, <4>2
      <4>4. QED
        BY <2>2, <2>5, <3>2, <4>2, <4>3
    <3>3. QED
      BY <2>4, <2>5, <3>1, <3>2
  <2>6. ASSUME NEW c \in Call, Deleting(c)', PhaseOf'[c] = "sent" PROVE TaskOf'[c] \in unwanted'
    BY <1>0, <2>1, <2>4, <2>6
  <2>7. ASSUME NEW t \in DOMAIN store' \cap unwanted' PROVE \E c \in Call : Deleting(c)' /\ TaskOf'[c] = t
    <3>1. CASE t \in NowTimed
      BY <2>3, <3>1 DEF Deleting
    <3>2. CASE t \notin NowTimed
      <4>1. PICK c \in Call : Deleting(c) /\ TaskOf[c] = t
        BY <1>0, <2>1, <2>7, <3>2
      <4>2. Deleting(c)' /\ TaskOf'[c] = t
        BY <2>2, <4>1 DEF Deleting
      <4>3. QED
        BY <4>2
    <3>3. QED
      BY <3>1, <3>2
  <2>8. QED
    BY <2>1, <2>5, <2>6, <2>7 DEF Followed
<1>7. ASSUME NEW t, HideForm(t) PROVE Followed'
  <2>1. /\ shown /\ calls' = calls /\ store' = store /\ t \notin NowHidden /\ unwanted' = unwanted \cup {t}
        /\ NowHidden' = NowHidden \cup {t} /\ NowTimed' = NowTimed \cup {t}
    BY <1>7 DEF HideForm, SameLists
  <2>2. \A c \in Call : Deleting(c) => TaskOf[c] # t
    BY <1>0, <2>1
  <2>3. QED
    BY <1>0, <1>4, <2>1, <2>2 DEF Followed
<1>8. ASSUME NEW t, BackForm(t) PROVE Followed'
  <2>1. /\ shown /\ calls' = calls /\ store' = store /\ t \in NowTimed /\ unwanted' = unwanted \ {t}
        /\ NowHidden' = NowHidden \ {t} /\ NowTimed' = NowTimed \ {t}
    BY <1>8 DEF BackForm, SameLists
  <2>2. \A c \in Call : Deleting(c) => TaskOf[c] # t
    BY <1>0, <2>1
  <2>3. QED
    BY <1>0, <1>4, <2>1, <2>2 DEF Followed
<1>9. ASSUME NEW c \in Call, ApplyForm(c) \/ RefuseForm(c) PROVE Followed'
  <2>1. /\ SameRows /\ DOMAIN store' \subseteq DOMAIN store /\ Others(c) /\ PhaseOf[c] = "sent"
        /\ KindOf'[c] = KindOf[c] /\ TaskOf'[c] = TaskOf[c] /\ PhaseOf'[c] \in {"applied", "refused"}
    BY <1>9 DEF ApplyForm, RefuseForm, Becomes, SameLists
  <2>2. TaskOf' = TaskOf
    BY <2>1 DEF Others, TaskOf
  <2>3. \A d \in Call : (Deleting(d)' <=> Deleting(d)) /\ (Deleting(d)' /\ PhaseOf'[d] = "sent" => PhaseOf[d] = "sent")
    BY <2>1 DEF Others, Deleting
  <2>4. QED
    BY <1>2, <2>1, <2>2, <2>3
<1>10. ASSUME NEW c \in Call, NowHidden' = NowHidden \/ NowHidden' = NowHidden \ {TaskOf[c]},
              NowTimed' = NowTimed \/ NowTimed' = NowTimed \ {TaskOf[c]},
              shown' = shown, store' = store, Deleting(c), Others(c), PhaseOf'[c] = "free",
              unwanted' = unwanted \ {TaskOf[c]} \/ (unwanted' = unwanted /\ TaskOf[c] \notin DOMAIN store)
       PROVE  Followed'
  <2>1. \A d \in Call : (Deleting(d)' <=> Deleting(d) /\ d # c)
    BY <1>10 DEF Others, Deleting
  <2>2. \A d \in Call \ {c} : TaskOf'[d] = TaskOf[d] /\ PhaseOf'[d] = PhaseOf[d]
    BY <1>10 DEF Others
  <2>3. \A d \in Call : Deleting(d) /\ d # c => TaskOf[d] # TaskOf[c]
    BY <1>0, <1>10
  <2>4. NowTimed' = NowTimed /\ TaskOf[c] \notin NowTimed
    BY <1>0, <1>10
  <2>5. QED
    BY <1>0, <1>10, <2>1, <2>2, <2>3, <2>4 DEF Followed
<1>11. ASSUME NEW c \in Call, AnswerForm(c) PROVE Followed'
  <2>1. /\ PhaseOf[c] = "applied" /\ Others(c) /\ PhaseOf'[c] = "free" /\ store' = store /\ unwanted' = unwanted
        /\ shown' = shown /\ BackOnScreen(c)
    BY <1>11 DEF AnswerForm, Becomes
  <2>2. CASE KindOf[c] = "delete"
    <3>1. Deleting(c) /\ TaskOf[c] \notin DOMAIN store
      BY <2>1, <2>2 DEF Deleting, Meant, MeantBy
    <3>2. QED
      BY <1>10, <2>1, <3>1 DEF BackOnScreen
  <2>3. CASE KindOf[c] # "delete"
    BY <1>3, <2>1, <2>3 DEF Deleting, BackOnScreen, SameRows
  <2>4. QED
    BY <2>2, <2>3
<1>12. ASSUME NEW c \in Call, FailForm(c) PROVE Followed'
  <2>1. /\ PhaseOf[c] = "refused" /\ Others(c) /\ PhaseOf'[c] = "free" /\ store' = store /\ shown' = shown /\ BackOnScreen(c)
        /\ unwanted' = IF KindOf[c] = "delete" THEN unwanted \ {TaskOf[c]} ELSE unwanted
    BY <1>12 DEF FailForm, Becomes
  <2>2. CASE KindOf[c] = "delete"
    BY <1>10, <2>1, <2>2 DEF Deleting, BackOnScreen
  <2>3. CASE KindOf[c] # "delete"
    BY <1>3, <2>1, <2>3 DEF Deleting, BackOnScreen, SameRows
  <2>4. QED
    BY <2>2, <2>3
<1>13. ASSUME NEW c \in Call, NEW t \in NowTimed, FireForm(c, t) PROVE Followed'
  <2>1. /\ PhaseOf[c] = "free" /\ Others(c) /\ KindOf'[c] = "delete" /\ TaskOf'[c] = t /\ PhaseOf'[c] = "sent"
        /\ store' = store /\ NowHidden' = NowHidden /\ NowTimed' = NowTimed \ {t} /\ unwanted' = unwanted /\ shown' = shown
    BY <1>13 DEF FireForm, Becomes, SameLists
  <2>2. \A d \in Call : (Deleting(d)' <=> Deleting(d) \/ d = c) /\ (Deleting(d) => d # c /\ TaskOf[d] # t)
    BY <1>0, <2>1 DEF Others, Deleting
  <2>3. \A d \in Call \ {c} : TaskOf'[d] = TaskOf[d] /\ PhaseOf'[d] = PhaseOf[d]
    BY <2>1 DEF Others
  <2>4. t \in unwanted /\ t \in NowHidden
    BY <1>0, <1>1
  <2>5. \A d, e \in Call : Deleting(d)' /\ Deleting(e)' /\ TaskOf'[d] = TaskOf'[e] => d = e
    BY <1>0, <2>1, <2>2, <2>3
  <2>6. \A u \in NowTimed' : u \in unwanted' /\ \A d \in Call : Deleting(d)' => TaskOf'[d] # u
    BY <1>0, <2>1, <2>2, <2>3
  <2>7. \A d \in Call : Deleting(d)' /\ PhaseOf'[d] = "sent" => TaskOf'[d] \in unwanted'
    BY <1>0, <2>1, <2>2, <2>3, <2>4
  <2>8. shown' => \A d \in Call : Deleting(d)' => TaskOf'[d] \in NowHidden'
    BY <1>0, <2>1, <2>2, <2>3, <2>4
  <2>9. ASSUME NEW u \in DOMAIN store' \cap unwanted' PROVE u \in NowTimed' \/ \E d \in Call : Deleting(d)' /\ TaskOf'[d] = u
    <3>1. CASE u = t
      BY <2>1, <2>2, <3>1
    <3>2. CASE u # t
      BY <1>0, <2>1, <2>2, <2>3, <2>9, <3>2
    <3>3. QED
      BY <3>1, <3>2
  <2>10. QED
    BY <2>5, <2>6, <2>7, <2>8, <2>9 DEF Followed
<1>14. ASSUME NEW c \in Call, NEW kind, NEW t, MoveForm(c, kind, t) \/ DoneForm(c, kind, t) PROVE Followed'
  <2>1. PhaseOf[c] = "free" /\ Others(c) /\ KindOf'[c] # "delete" /\ store' = store /\ SameRows
    BY <1>14 DEF MoveForm, DoneForm, Becomes, SameLists
  <2>2. QED
    BY <1>3, <2>1 DEF Deleting
<1>15. ASSUME NEW c \in Call, NEW kind, NEW t, NEW wants, ParentForm(c, kind, t, wants) PROVE Followed'
  <2>1. PhaseOf[c] = "free" /\ Others(c) /\ KindOf'[c] # "delete" /\ store' = store /\ SameRows
    BY <1>15 DEF ParentForm, Becomes, SameLists
  <2>2. QED
    BY <1>3, <2>1 DEF Deleting
<1>16. QED
  BY <1>5, <1>6, <1>7, <1>8, <1>9, <1>11, <1>12, <1>13, <1>14, <1>15 DEF Forms

\* The inductive invariant.
DeletionInv == WellTyped /\ Behind /\ Apart /\ Meant /\ Followed

\* The invariant is kept,
LEMMA DeletionStep ==
  ASSUME ~ Hasty, ~ LateUndo, DeletionInv, [Next]_vars
  PROVE  DeletionInv'
<1>1. WellTyped' /\ Forms
  BY TypedStep, FormsAre DEF DeletionInv
<1>2. Behind' /\ Apart'
  BY <1>1, BehindStep, ApartStep DEF DeletionInv
<1>3. Meant' /\ Followed'
  BY <1>1, MeantStep, FollowedStep DEF DeletionInv
<1>4. QED
  BY <1>1, <1>2, <1>3 DEF DeletionInv

\* At first the tasks are a tree
LEMMA TreesAre ==
  ASSUME NEW s \in Trees
  PROVE  IsTree(s) /\ DOMAIN s = Task /\ \A t \in Task : s[t].order \in Nat
<1>1. s \in [Task -> [up : Task \cup {Null}, order : 0..Cardinality(Task), done : BOOLEAN, path : {<<>>}]]
  BY DEF Trees
<1>2. DOMAIN s = Task /\ s = [t \in Task |-> s[t]]
  BY <1>1
<1>3. ASSUME NEW t \in Task
      PROVE  IsRow(s[t]) /\ s[t].up \in Task \cup {Null} /\ s[t].order \in 0..Cardinality(Task)
  BY <1>1 DEF IsRow
<1>4. Cardinality(Task) \in Nat
  BY FS_CardinalityType, OutlineBounds
<1>5. Parents(s) \in [Task -> Task \cup {Null}] /\ \A t \in Task : Parents(s)[t] = s[t].up
  BY <1>2, <1>3 DEF Parents
<1>6. \A x \in Task : x \notin Ancestors(Parents(s), x)
  <2>1. \A t \in Task : s[t].up # Null => ~(t \in Ancestors(Parents(s), t))
    BY DEF Trees
  <2>2. \A t \in Task : s[t].up = Null => Ancestors(Parents(s), t) = {}
    BY <1>5, AncestorsStep, NullAssumption
  <2>3. QED
    BY <2>1, <2>2
<1>7. Rooted(Parents(s))
  BY <1>5, <1>6, NoLoopIsRooted, OutlineBounds
<1>8. IsTree(s)
  BY <1>2, <1>3, <1>7 DEF IsTree, IsList
<1>9. QED
  BY <1>2, <1>3, <1>4, <1>8

\* and nothing is under way,
LEMMA CallsAtFirst ==
  ASSUME calls = [c \in Call |-> Free]
  PROVE  AreCalls /\ \A c \in Call : PhaseOf[c] = "free" /\ ~ Moving(c) /\ ~ Cutting(c) /\ ~ Deleting(c)
BY FreeIs DEF AreCalls, PhaseOf, Moving, Cutting, Deleting

\* so the invariant holds at first.
LEMMA DeletionInit ==
  ASSUME Init
  PROVE  DeletionInv
<1>1. /\ store \in Trees /\ list = Loaded(store) /\ calls = [c \in Call |-> Free] /\ toast = NoToast /\ pending = <<>>
      /\ unwanted = {}
  BY DEF Init
<1>2. IsTree(store) /\ DOMAIN store = Task
  BY <1>1, TreesAre
<1>3. AreCalls /\ \A c \in Call : PhaseOf[c] = "free" /\ ~ Moving(c) /\ ~ Cutting(c) /\ ~ Deleting(c)
  BY <1>1, CallsAtFirst
<1>4. ToastTyped
  BY <1>1 DEF ToastTyped, NoToast
<1>5. pending \in Seq(Waits) /\ Once(pending) /\ NowTimed = {}
  BY <1>1 DEF Once, NowTimed, TimedIn
<1>6. DOMAIN list \in SUBSET Task
  BY <1>1, <1>2 DEF Loaded
<1>7. WellTyped
  BY <1>2, <1>3, <1>4, <1>5, <1>6 DEF WellTyped
<1>8. Behind /\ Apart /\ Meant /\ Followed
  BY <1>1, <1>3, <1>5 DEF Behind, Apart, Meant, Followed
<1>9. QED
  BY <1>7, <1>8 DEF DeletionInv

\* The invariant says that no deletion is forgotten.
LEMMA NothingForgotten ==
  ASSUME DeletionInv
  PROVE  DeletionsGoOn
<1>1. ASSUME NEW t \in DOMAIN store \cap unwanted
      PROVE  \/ \E i \in DOMAIN pending : pending[i].task = t /\ pending[i].timer
             \/ \E c \in UnderWay({"delete"}) : calls[c].task = t
  <2>1. t \in NowTimed \/ \E c \in Call : Deleting(c) /\ TaskOf[c] = t
    BY DEF DeletionInv, Followed
  <2>2. CASE t \in NowTimed
    BY <2>2 DEF NowTimed, TimedIn
  <2>3. CASE \E c \in Call : Deleting(c) /\ TaskOf[c] = t
    BY <2>3 DEF Deleting, UnderWay, KindOf, PhaseOf, TaskOf
  <2>4. QED
    BY <2>1, <2>2, <2>3
<1>2. ASSUME NEW c \in Call, calls[c].phase = "applied" PROVE calls[c].wants \cap DOMAIN store = {}
  <2>1. PhaseOf[c] = "applied" /\ WantsOf[c] = calls[c].wants
    BY <1>2 DEF PhaseOf, WantsOf
  <2>2. MeantBy(c)
    BY <2>1 DEF DeletionInv, Meant
  <2>3. QED
    BY <2>1, <2>2 DEF MeantBy
<1>3. QED
  BY <1>1, <1>2 DEF DeletionsGoOn

\* DeletedOnlyIfWanted, of one step.
OnlyWanted ==
  \A t \in DOMAIN store \ DOMAIN store' :
    \E c \in Call : t \in calls[c].wants /\ (calls[c].kind = "delete" => t \in unwanted)

\* What a step deletes is wanted.
LEMMA DeletesWanted ==
  ASSUME DeletionInv, Forms
  PROVE  OnlyWanted
<1>1. SUFFICES ASSUME NEW t \in DOMAIN store \ DOMAIN store'
               PROVE  \E c \in Call : t \in calls[c].wants /\ (calls[c].kind = "delete" => t \in unwanted)
  BY DEF OnlyWanted
<1>2. PICK c \in Call : ApplyForm(c)
  BY <1>1 DEF Forms, RestForm, LeaveForm, FetchForm, HideForm, BackForm, RefuseForm, AnswerForm, FailForm, FireForm,
     MoveForm, DoneForm, ParentForm, SameLists
<1>3. /\ PhaseOf[c] = "sent" /\ TaskOf[c] \in DOMAIN store
      /\ t \in Gone(store, KindOf[c], TaskOf[c])
  BY <1>1, <1>2 DEF ApplyForm
<1>4. MeantBy(c)
  BY <1>3 DEF DeletionInv, Meant
<1>5. t \in WantsOf[c] /\ (KindOf[c] = "delete" => t = TaskOf[c])
  BY <1>1, <1>3, <1>4 DEF MeantBy, Gone
<1>6. KindOf[c] = "delete" => t \in unwanted
  BY <1>3, <1>5 DEF DeletionInv, Followed, Deleting
<1>7. QED
  BY <1>5, <1>6 DEF WantsOf, KindOf

\* No deletion is forgotten, and each leaves nothing of what it is about: also
\* with any number of requests under way.
THEOREM NoDeletionForgotten ==
  ASSUME ~ Hasty, ~ LateUndo
  PROVE  Spec => []DeletionsGoOn
<1>1. Init => DeletionInv
  BY DeletionInit
<1>2. DeletionInv /\ [Next]_vars => DeletionInv'
  BY DeletionStep
<1>3. DeletionInv => DeletionsGoOn
  BY NothingForgotten
<1>4. QED
  BY <1>1, <1>2, <1>3, PTL DEF Spec

\* Nothing is deleted that the user did not delete, took back in time, or was
\* told is still there: neither a row nor what is below it.
THEOREM OnlyWantedIsDeleted ==
  ASSUME ~ Hasty, ~ LateUndo
  PROVE  Spec => DeletedOnlyIfWanted
<1>1. Init => DeletionInv
  BY DeletionInit
<1>2. DeletionInv /\ [Next]_vars => DeletionInv'
  BY DeletionStep
<1>3. DeletionInv /\ [Next]_vars => OnlyWanted
  BY FormsAre, DeletesWanted DEF DeletionInv
<1>4. Spec => [][OnlyWanted]_vars
  BY <1>1, <1>2, <1>3, PTL DEF Spec
<1>5. QED
  BY <1>4 DEF DeletedOnlyIfWanted, OnlyWanted

-----------------------------------------------------------------------------
(* Tasks in order.                                                         *)

\* Of as many ranks each is taken.
LEMMA RanksAreTaken ==
  ASSUME NEW S, IsFiniteSet(S), NEW rank, \A x \in S : rank[x] \in 0..(Cardinality(S) - 1),
         \A x, y \in S : rank[x] = rank[y] => x = y
  PROVE  \A i \in 1..Cardinality(S) : \E x \in S : rank[x] = i - 1
<1> DEFINE n == Cardinality(S)
           f == [x \in S |-> rank[x]]
<1>1. n \in Nat
  BY FS_CardinalityType
<1>2. IsFiniteSet(0..(n - 1)) /\ Cardinality(0..(n - 1)) = n
  <2>1. IsFiniteSet(0..(n - 1)) /\ Cardinality(0..(n - 1)) = IF 0 > n - 1 THEN 0 ELSE (n - 1) - 0 + 1
    BY <1>1, FS_Interval
  <2> HIDE DEF n
  <2>2. QED
    BY <1>1, <2>1
<1>3. f \in Injection(S, 0..(n - 1))
  BY DEF Injection, IsInjective
<1>4. f \in Surjection(S, 0..(n - 1))
  BY <1>2, <1>3, FS_Injection
<1>5. \A k \in 0..(n - 1) : \E x \in S : f[x] = k
  BY <1>4 DEF Surjection
<1>6. SUFFICES ASSUME NEW i \in 1..n PROVE \E x \in S : rank[x] = i - 1
  OBVIOUS
<1>7. i - 1 \in 0..(n - 1)
  BY <1>1
<1>8. QED
  BY <1>5, <1>7

\* No two siblings have the same number.
Distinct(tasks, S) ==
  /\ \A x \in S : tasks[x].order \in Nat
  /\ \A x, y \in S : tasks[x].order = tasks[y].order => x = y
OwnNumbers(tasks) ==
  /\ \A x \in DOMAIN tasks : tasks[x].order \in Nat
  /\ \A x, y \in DOMAIN tasks : tasks[x].up = tasks[y].up /\ tasks[x].order = tasks[y].order => x = y

Place(tasks, S, x) == Cardinality(Before(tasks, S, x))

\* How many come before a task tells where it comes.
LEMMA PlaceIs ==
  ASSUME NEW tasks, NEW S, IsFiniteSet(S), Distinct(tasks, S)
  PROVE  /\ \A x \in S : Place(tasks, S, x) \in 0..(Cardinality(S) - 1)
         /\ \A x, y \in S : Place(tasks, S, x) < Place(tasks, S, y) <=> tasks[x].order < tasks[y].order
         /\ \A x, y \in S : Place(tasks, S, x) = Place(tasks, S, y) => x = y
<1> DEFINE B(x) == Before(tasks, S, x)
<1>1. \A x \in S : B(x) \in SUBSET S /\ IsFiniteSet(B(x)) /\ Cardinality(B(x)) \in Nat /\ x \notin B(x)
  <2>1. \A x \in S : B(x) \in SUBSET S /\ x \notin B(x)
    BY DEF Before, Distinct
  <2> HIDE DEF B
  <2>2. QED
    BY <2>1, FS_Subset, FS_CardinalityType
<1>2. ASSUME NEW x \in S PROVE Cardinality(B(x)) < Cardinality(S)
  <2>1. Cardinality(B(x)) <= Cardinality(S) /\ (Cardinality(S) = Cardinality(B(x)) => S = B(x))
    BY <1>1, FS_Subset
  <2>2. Cardinality(S) \in Nat /\ Cardinality(B(x)) \in Nat /\ S # B(x)
    BY <1>1, FS_CardinalityType
  <2>3. QED
    BY <2>1, <2>2
<1>3. ASSUME NEW x \in S, NEW y \in S, tasks[x].order < tasks[y].order
      PROVE  Cardinality(B(x)) < Cardinality(B(y))
  <2>1. B(x) \in SUBSET B(y) /\ x \in B(y)
    BY <1>3 DEF Before, Distinct
  <2>2. B(x) # B(y) /\ IsFiniteSet(B(y)) /\ Cardinality(B(y)) \in Nat /\ Cardinality(B(x)) \in Nat
    BY <1>1, <2>1
  <2> HIDE DEF B
  <2>3. Cardinality(B(x)) <= Cardinality(B(y)) /\ (Cardinality(B(y)) = Cardinality(B(x)) => B(y) = B(x))
    BY <2>1, <2>2, FS_Subset
  <2>4. QED
    BY <2>2, <2>3
<1>4. \A x, y \in S : tasks[x].order \in Nat /\ tasks[y].order \in Nat /\ (tasks[x].order = tasks[y].order => x = y)
  BY DEF Distinct
<1>5. Cardinality(S) \in Nat
  BY FS_CardinalityType
<1>6. \A x \in S : Place(tasks, S, x) = Cardinality(B(x))
  BY DEF Place
<1> HIDE DEF B
<1>7. \A x \in S : Place(tasks, S, x) \in 0..(Cardinality(S) - 1)
  BY <1>1, <1>2, <1>5, <1>6
<1>8. ASSUME NEW x \in S, NEW y \in S
      PROVE  /\ Place(tasks, S, x) < Place(tasks, S, y) <=> tasks[x].order < tasks[y].order
             /\ Place(tasks, S, x) = Place(tasks, S, y) => x = y
  <2>1. Place(tasks, S, x) \in Nat /\ Place(tasks, S, y) \in Nat
    BY <1>1, <1>6
  <2>2. tasks[x].order \in Nat /\ tasks[y].order \in Nat
    BY <1>4
  <2>3. CASE tasks[x].order < tasks[y].order
    BY <1>3, <1>6, <2>1, <2>2, <2>3
  <2>4. CASE tasks[y].order < tasks[x].order
    BY <1>3, <1>6, <2>1, <2>2, <2>4
  <2>5. CASE tasks[y].order = tasks[x].order
    <3>1. x = y
      BY <1>4, <2>5
    <3>2. QED
      BY <2>1, <2>2, <3>1
  <2>6. QED
    BY <2>2, <2>3, <2>4, <2>5
<1>9. QED
  BY <1>7, <1>8

\* In order each comes at its place.
LEMMA InOrderIs ==
  ASSUME NEW tasks, NEW S, IsFiniteSet(S), Distinct(tasks, S)
  PROVE  /\ InOrder(tasks, S) \in Seq(S) /\ Len(InOrder(tasks, S)) = Cardinality(S) /\ Cardinality(S) \in Nat
         /\ \A i \in 1..Cardinality(S) : Place(tasks, S, InOrder(tasks, S)[i]) = i - 1
         /\ \A x \in S : /\ Place(tasks, S, x) + 1 \in 1..Cardinality(S)
                         /\ InOrder(tasks, S)[Place(tasks, S, x) + 1] = x
                         /\ IndexOf(InOrder(tasks, S), x) = Place(tasks, S, x)
         /\ ToSet(InOrder(tasks, S)) = S
<1> DEFINE q == InOrder(tasks, S)
           rank == [x \in S |-> Place(tasks, S, x)]
           n == Cardinality(S)
<1>1. n \in Nat
  BY FS_CardinalityType
<1>2. /\ \A x \in S : rank[x] \in 0..(n - 1)
      /\ \A x, y \in S : rank[x] = rank[y] => x = y
  BY PlaceIs
<1>3. \A i \in 1..n : \E x \in S : rank[x] = i - 1
  <2> HIDE DEF rank
  <2>1. QED
    BY <1>2, RanksAreTaken
<1>4. q = [i \in 1..n |-> CHOOSE x \in S : rank[x] = i - 1]
  <2>1. \A i : (CHOOSE x \in S : Cardinality(Before(tasks, S, x)) = i - 1) = (CHOOSE x \in S : rank[x] = i - 1)
    BY DEF Place
  <2>2. QED
    BY <2>1 DEF InOrder
<1> HIDE DEF rank
<1>5. \A i \in 1..n : q[i] \in S /\ rank[q[i]] = i - 1
  BY <1>3, <1>4
<1>6. q \in [1..n -> S]
  <2> HIDE DEF q, n
  <2>1. DOMAIN q = 1..n /\ q = [i \in 1..n |-> q[i]]
    BY <1>4
  <2>2. QED
    BY <1>5, <2>1
<1>7. q \in Seq(S) /\ Len(q) = n
  <2> HIDE DEF q, n
  <2>1. QED
    BY <1>1, <1>6
<1>8. ASSUME NEW x \in S
      PROVE  rank[x] + 1 \in 1..n /\ q[rank[x] + 1] = x /\ IndexOf(q, x) = rank[x]
  <2> HIDE DEF q, n
  <2>1. rank[x] \in 0..(n - 1)
    BY <1>2
  <2>2. rank[x] + 1 \in 1..n /\ (rank[x] + 1) - 1 = rank[x]
    BY <1>1, <2>1
  <2>3. q[rank[x] + 1] \in S /\ rank[q[rank[x] + 1]] = rank[x]
    BY <1>5, <2>2
  <2>4. q[rank[x] + 1] = x
    BY <1>2, <2>3
  <2>5. DOMAIN q = 1..n
    BY <1>6
  <2>6. \A i \in DOMAIN q : q[i] = x => i = rank[x] + 1
    <3>1. SUFFICES ASSUME NEW i \in 1..n, q[i] = x PROVE i = rank[x] + 1
      BY <2>5
    <3>2. i - 1 = rank[x]
      BY <1>5, <3>1
    <3>3. QED
      BY <1>1, <3>2
  <2>7. (CHOOSE i \in DOMAIN q : q[i] = x) = rank[x] + 1
    BY <2>2, <2>4, <2>5, <2>6
  <2>8. IndexOf(q, x) = (rank[x] + 1) - 1
    BY <2>2, <2>4, <2>5, <2>7 DEF IndexOf
  <2>9. QED
    BY <2>2, <2>4, <2>8
<1>9. ToSet(q) = S
  <2> HIDE DEF q
  <2>1. DOMAIN q = 1..n
    BY <1>6
  <2>2. QED
    BY <1>5, <1>8, <2>1 DEF ToSet
<1>10. \A x \in S : rank[x] = Place(tasks, S, x)
  BY DEF rank
<1> HIDE DEF q
<1>11. QED
  BY <1>1, <1>5, <1>7, <1>8, <1>9, <1>10 DEF q

\* Where an element comes once, its position is there.
LEMMA IndexIs ==
  ASSUME NEW q, NEW j \in DOMAIN q, \A m \in DOMAIN q : q[m] = q[j] => m = j
  PROVE  IndexOf(q, q[j]) = j - 1
<1>1. (CHOOSE m \in DOMAIN q : q[m] = q[j]) = j
  OBVIOUS
<1>2. QED
  BY <1>1 DEF IndexOf

Least(i, j) == IF i > j THEN j ELSE i

\* A task put into a line.
LEMMA InsertedIs ==
  ASSUME NEW S, NEW w \in Seq(S), NEW t \in S, NEW i \in Nat
  PROVE  /\ Inserted(w, i, t) \in Seq(S) /\ Len(Inserted(w, i, t)) = Len(w) + 1 /\ Len(w) \in Nat
         /\ Least(i, Len(w)) \in 0..Len(w)
         /\ \A j \in 1..Len(w) + 1 :
              Inserted(w, i, t)[j] = IF j <= Least(i, Len(w)) THEN w[j]
                                     ELSE IF j = Least(i, Len(w)) + 1 THEN t ELSE w[j - 1]
<1> DEFINE k == Least(i, Len(w))
           first == SubSeq(w, 1, (k + 1) - 1)
           rest == SubSeq(w, k + 1, Len(w))
           q == first \o <<t>> \o rest
<1>1. Len(w) \in Nat /\ k \in 0..Len(w)
  BY DEF Least
<1> HIDE DEF k
<1>2. first \in Seq(S) /\ Len(first) = k /\ \A j \in 1..k : first[j] = w[j]
  BY <1>1
<1>3. rest \in Seq(S) /\ Len(rest) = Len(w) - k /\ \A j \in 1..(Len(w) - k) : rest[j] = w[k + j]
  BY <1>1
<1>4. Inserted(w, i, t) = q
  BY DEF Inserted, InsertAt, Least, k
<1> HIDE DEF first, rest
<1> DEFINE head == first \o <<t>>
<1>5. head \in Seq(S) /\ Len(head) = k + 1 /\ head[k + 1] = t /\ \A j \in 1..k : head[j] = w[j]
  BY <1>1, <1>2
<1>6. q = head \o rest
  OBVIOUS
<1> HIDE DEF head, q
<1>7. q \in Seq(S) /\ Len(q) = Len(w) + 1
  <2>1. \A one, two \in Seq(S) : one \o two \in Seq(S) /\ Len(one \o two) = Len(one) + Len(two)
    OBVIOUS
  <2>2. head \in Seq(S) /\ rest \in Seq(S)
    BY <1>3, <1>5
  <2>3. q \in Seq(S) /\ Len(q) = Len(head) + Len(rest)
    BY <1>6, <2>1, <2>2
  <2>4. Len(head) + Len(rest) = (k + 1) + (Len(w) - k)
    BY <1>3, <1>5
  <2>5. QED
    BY <1>1, <2>3, <2>4
<1>8. \A j \in 1..k + 1 : q[j] = head[j]
  BY <1>1, <1>3, <1>5, <1>6
<1>9. ASSUME NEW j \in 1..Len(w) + 1, j > k + 1 PROVE q[j] = w[j - 1]
  <2>1. j - (k + 1) \in 1..(Len(w) - k) /\ k + (j - (k + 1)) = j - 1
    BY <1>1, <1>9
  <2>2. q[j] = rest[j - (k + 1)]
    BY <1>1, <1>3, <1>5, <1>6, <1>9, <2>1
  <2>3. QED
    BY <1>3, <2>1, <2>2
<1>10. ASSUME NEW j \in 1..Len(w) + 1
       PROVE  q[j] = IF j <= k THEN w[j] ELSE IF j = k + 1 THEN t ELSE w[j - 1]
  <2>1. CASE j <= k
    <3>1. j \in 1..k /\ j \in 1..k + 1
      BY <1>1, <2>1
    <3>2. QED
      BY <1>5, <1>8, <2>1, <3>1
  <2>2. CASE j = k + 1
    <3>1. j \in 1..k + 1 /\ ~ (j <= k)
      BY <1>1, <2>2
    <3>2. QED
      BY <1>5, <1>8, <2>2, <3>1
  <2>3. CASE j > k + 1
    <3>1. ~ (j <= k) /\ j # k + 1
      BY <1>1, <2>3
    <3>2. QED
      BY <1>9, <2>3, <3>1
  <2>4. QED
    BY <1>1, <2>1, <2>2, <2>3
<1>11. QED
  BY <1>1, <1>4, <1>7, <1>10 DEF k

\* Then each comes where it came, or one further on.
LEMMA IndexInserted ==
  ASSUME NEW S, NEW w \in Seq(S), \A j, m \in 1..Len(w) : w[j] = w[m] => j = m,
         NEW t \in S, t \notin ToSet(w), NEW i \in Nat
  PROVE  /\ ToSet(Inserted(w, i, t)) = ToSet(w) \cup {t}
         /\ IndexOf(Inserted(w, i, t), t) = Least(i, Len(w))
         /\ \A j \in 1..Len(w) :
              IndexOf(Inserted(w, i, t), w[j]) = IF j <= Least(i, Len(w)) THEN j - 1 ELSE j
         /\ \A j, m \in 1..Len(w) + 1 : Inserted(w, i, t)[j] = Inserted(w, i, t)[m] => j = m
<1> DEFINE q == Inserted(w, i, t)
           k == Least(i, Len(w))
           N == Len(w)
<1>1. /\ q \in Seq(S) /\ Len(q) = N + 1 /\ N \in Nat /\ k \in 0..N
      /\ \A j \in 1..N + 1 : q[j] = IF j <= k THEN w[j] ELSE IF j = k + 1 THEN t ELSE w[j - 1]
  <2>1. w \in Seq(S) /\ t \in S /\ i \in Nat
    OBVIOUS
  <2>2. Inserted(w, i, t) \in Seq(S)
    BY ONLY <2>1, InsertedIs
  <2>3. Len(Inserted(w, i, t)) = Len(w) + 1
    BY ONLY <2>1, InsertedIs
  <2>4. Len(w) \in Nat /\ Least(i, Len(w)) \in 0..Len(w)
    BY ONLY <2>1, InsertedIs
  <2>5. \A j \in 1..Len(w) + 1 :
          Inserted(w, i, t)[j] = IF j <= Least(i, Len(w)) THEN w[j]
                                 ELSE IF j = Least(i, Len(w)) + 1 THEN t ELSE w[j - 1]
    BY ONLY <2>1, InsertedIs
  <2>6. QED
    BY ONLY <2>2, <2>3, <2>4, <2>5
<1>2. DOMAIN q = 1..N + 1 /\ DOMAIN w = 1..N
  BY <1>1
<1>3. \A j \in 1..N : w[j] # t /\ w[j] \in ToSet(w)
  BY <1>2 DEF ToSet
<1>4. \A j, m \in 1..N : w[j] = w[m] => j = m
  OBVIOUS
<1> HIDE DEF q, k, N
<1>5. q[k + 1] = t /\ k + 1 \in DOMAIN q
  BY <1>1, <1>2
<1>6. \A j \in 1..N : j <= k => q[j] = w[j]
  BY <1>1
<1>7. \A j \in 1..N : ~ (j <= k) => q[j + 1] = w[j] /\ j + 1 \in 1..N + 1
  <2>1. SUFFICES ASSUME NEW j \in 1..N, ~ (j <= k) PROVE q[j + 1] = w[j] /\ j + 1 \in 1..N + 1
    OBVIOUS
  <2>2. j + 1 \in 1..N + 1 /\ ~ (j + 1 <= k) /\ j + 1 # k + 1 /\ (j + 1) - 1 = j
    BY <1>1, <2>1
  <2>3. QED
    BY <1>1, <2>2
<1>8. ASSUME NEW a \in 1..N + 1, NEW b \in 1..N + 1, q[a] = q[b] PROVE a = b
  <2>1. CASE a <= k
    <3>1. a \in 1..N /\ q[a] = w[a]
      BY <1>1, <2>1
    <3>2. CASE b <= k
      <4>1. b \in 1..N /\ q[b] = w[b]
        BY <1>1, <3>2
      <4>2. QED
        BY <1>4, <1>8, <3>1, <4>1
    <3>3. CASE b = k + 1
      BY <1>3, <1>5, <1>8, <3>1, <3>3
    <3>4. CASE b > k + 1
      <4>1. b - 1 \in 1..N /\ q[b] = w[b - 1]
        BY <1>1, <3>4
      <4>2. a = b - 1
        BY <1>4, <1>8, <3>1, <4>1
      <4>3. QED
        BY <1>1, <2>1, <3>4, <4>2
    <3>5. QED
      BY <1>1, <3>2, <3>3, <3>4
  <2>2. CASE a = k + 1
    <3>1. CASE b <= k
      <4>1. b \in 1..N /\ q[b] = w[b]
        BY <1>1, <3>1
      <4>2. QED
        BY <1>3, <1>5, <1>8, <2>2, <4>1
    <3>2. CASE b > k + 1
      <4>1. b - 1 \in 1..N /\ q[b] = w[b - 1]
        BY <1>1, <3>2
      <4>2. QED
        BY <1>3, <1>5, <1>8, <2>2, <4>1
    <3>3. QED
      BY <1>1, <2>2, <3>1, <3>2
  <2>3. CASE a > k + 1
    <3>1. a - 1 \in 1..N /\ q[a] = w[a - 1]
      BY <1>1, <2>3
    <3>2. CASE b <= k
      <4>1. b \in 1..N /\ q[b] = w[b]
        BY <1>1, <3>2
      <4>2. b = a - 1
        BY <1>4, <1>8, <3>1, <4>1
      <4>3. QED
        BY <1>1, <2>3, <3>2, <4>2
    <3>3. CASE b = k + 1
      BY <1>3, <1>5, <1>8, <3>1, <3>3
    <3>4. CASE b > k + 1
      <4>1. b - 1 \in 1..N /\ q[b] = w[b - 1]
        BY <1>1, <3>4
      <4>2. a - 1 = b - 1
        BY <1>4, <1>8, <3>1, <4>1
      <4>3. QED
        BY <4>2
    <3>5. QED
      BY <1>1, <3>2, <3>3, <3>4
  <2>4. QED
    BY <1>1, <2>1, <2>2, <2>3
<1>9. \A j \in DOMAIN q : IndexOf(q, q[j]) = j - 1
  BY <1>2, <1>8, IndexIs
<1>10. IndexOf(q, t) = k
  <2>1. IndexOf(q, q[k + 1]) = (k + 1) - 1
    BY <1>5, <1>9
  <2>2. QED
    BY <1>1, <1>5, <2>1
<1>11. ASSUME NEW j \in 1..N PROVE IndexOf(q, w[j]) = IF j <= k THEN j - 1 ELSE j
  <2>1. CASE j <= k
    <3>1. j \in DOMAIN q /\ q[j] = w[j]
      BY <1>1, <1>2, <1>6, <2>1
    <3>2. QED
      BY <1>9, <2>1, <3>1
  <2>2. CASE ~ (j <= k)
    <3>1. j + 1 \in DOMAIN q /\ q[j + 1] = w[j]
      BY <1>2, <1>7, <2>2
    <3>2. IndexOf(q, w[j]) = (j + 1) - 1
      BY <1>9, <3>1
    <3>3. QED
      BY <1>1, <2>2, <3>2
  <2>3. QED
    BY <2>1, <2>2
<1>12. ToSet(q) = ToSet(w) \cup {t}
  <2>1. \A j \in DOMAIN q : q[j] \in ToSet(w) \cup {t}
    <3>1. SUFFICES ASSUME NEW j \in 1..N + 1 PROVE q[j] = t \/ \E m \in 1..N : q[j] = w[m]
      BY <1>2, <1>3
    <3>2. CASE j <= k
      BY <1>1, <3>2
    <3>3. CASE j = k + 1
      BY <1>5, <3>3
    <3>4. CASE j > k + 1
      <4>1. j - 1 \in 1..N /\ q[j] = w[j - 1]
        BY <1>1, <3>4
      <4>2. QED
        BY <4>1
    <3>5. QED
      BY <1>1, <3>2, <3>3, <3>4
  <2>2. \A x \in ToSet(w) : \E j \in DOMAIN q : q[j] = x
    <3>1. SUFFICES ASSUME NEW m \in 1..N PROVE \E j \in DOMAIN q : q[j] = w[m]
      BY <1>2 DEF ToSet
    <3>2. CASE m <= k
      BY <1>1, <1>2, <1>6, <3>2
    <3>3. CASE ~ (m <= k)
      BY <1>2, <1>7, <3>3
    <3>4. QED
      BY <3>2, <3>3
  <2>3. \E j \in DOMAIN q : q[j] = t
    BY <1>5
  <2>4. QED
    BY <2>1, <2>2, <2>3 DEF ToSet
<1>13. QED
  BY <1>8, <1>10, <1>11, <1>12 DEF q, k, N

-----------------------------------------------------------------------------
(* A line of tasks, and the order that makes it.                           *)

\* The tasks S, each once.
IsLine(q, S) == q \in Seq(S) /\ ToSet(q) = S /\ \A j, m \in 1..Len(q) : q[j] = q[m] => j = m
Rising(tasks, q) == \A j, m \in 1..Len(q) : j < m => tasks[q[j]].order < tasks[q[m]].order

\* Positions in a line.
LEMMA LineIs ==
  ASSUME NEW q, NEW S, IsLine(q, S)
  PROVE  /\ Len(q) \in Nat /\ DOMAIN q = 1..Len(q)
         /\ \A j \in 1..Len(q) : q[j] \in S /\ IndexOf(q, q[j]) = j - 1
         /\ \A x \in S : IndexOf(q, x) \in 0..(Len(q) - 1) /\ q[IndexOf(q, x) + 1] = x
<1>1. Len(q) \in Nat /\ DOMAIN q = 1..Len(q) /\ \A j \in 1..Len(q) : q[j] \in S
  BY DEF IsLine
<1>2. \A j \in 1..Len(q) : IndexOf(q, q[j]) = j - 1
  BY <1>1, IndexIs DEF IsLine
<1>3. ASSUME NEW x \in S PROVE IndexOf(q, x) \in 0..(Len(q) - 1) /\ q[IndexOf(q, x) + 1] = x
  <2>1. PICK j \in 1..Len(q) : q[j] = x
    BY <1>1 DEF IsLine, ToSet
  <2>2. IndexOf(q, x) = j - 1
    BY <1>2, <2>1
  <2>3. j - 1 \in 0..(Len(q) - 1) /\ (j - 1) + 1 = j
    BY <1>1
  <2>4. QED
    BY <2>1, <2>2, <2>3
<1>4. QED
  BY <1>1, <1>2, <1>3

\* Of as many elements as it is long.
LEMMA LineHasAll ==
  ASSUME NEW q, NEW S, IsLine(q, S)
  PROVE  IsFiniteSet(S) /\ Cardinality(S) = Len(q)
<1>1. Len(q) \in Nat /\ DOMAIN q = 1..Len(q) /\ \A j \in 1..Len(q) : q[j] \in S
  BY LineIs
<1> DEFINE n == Len(q)
           f == [j \in 1..n |-> q[j]]
<1>2. \A x \in S : \E j \in 1..n : f[j] = x
  BY <1>1 DEF IsLine, ToSet
<1>3. \A j, m \in 1..n : f[j] = f[m] => j = m
  BY DEF IsLine
<1>4. f \in [1..n -> S]
  BY <1>1
<1> HIDE DEF f
<1>5. f \in Bijection(1..n, S)
  BY <1>2, <1>3, <1>4 DEF Bijection, Injection, Surjection, IsInjective
<1>6. ExistsBijection(1..n, S)
  BY <1>5 DEF ExistsBijection
<1>7. QED
  BY <1>1, <1>6, FS_NatBijection, FS_CountingElements

\* A rising line of the tasks is the tasks in order.
LEMMA RisingIs ==
  ASSUME NEW tasks, NEW S, NEW q, IsLine(q, S), Rising(tasks, q), Distinct(tasks, S)
  PROVE  InOrder(tasks, S) = q
<1> DEFINE w == InOrder(tasks, S)
           n == Len(q)
<1>1. n \in Nat /\ DOMAIN q = 1..n /\ IsFiniteSet(S) /\ Cardinality(S) = n
  BY LineIs, LineHasAll
<1>2. \A x \in S : Place(tasks, S, x) + 1 \in 1..n /\ w[Place(tasks, S, x) + 1] = x
  BY <1>1, InOrderIs
<1>3. ASSUME NEW j \in 1..n PROVE Place(tasks, S, q[j]) = j - 1
  <2> DEFINE B == Before(tasks, S, q[j])
             f == [m \in 1..(j - 1) |-> q[m]]
  <2>1. \A m \in 1..n : q[m] \in S /\ tasks[q[m]].order \in Nat
    BY LineIs DEF Distinct
  <2>2. \A m \in 1..n : q[m] \in B <=> m < j
    <3>1. SUFFICES ASSUME NEW m \in 1..n PROVE tasks[q[m]].order < tasks[q[j]].order <=> m < j
      BY <2>1 DEF Before
    <3>2. CASE m < j
      BY <3>2 DEF Rising
    <3>3. CASE m = j
      BY <2>1, <3>3
    <3>4. CASE j < m
      <4>1. tasks[q[j]].order < tasks[q[m]].order
        BY <3>4 DEF Rising
      <4>2. QED
        BY <1>1, <2>1, <3>4, <4>1
    <3>5. QED
      BY <1>1, <3>2, <3>3, <3>4
  <2>3. \A x \in B : \E m \in 1..n : q[m] = x
    <3>1. \A x \in B : x \in S
      BY DEF Before
    <3>2. QED
      BY <1>1, <3>1 DEF IsLine, ToSet
  <2> HIDE DEF B
  <2>4. \A m \in 1..(j - 1) : m \in 1..n /\ m < j
    BY <1>1
  <2>5. f \in [1..(j - 1) -> B]
    BY <2>2, <2>4
  <2>6. \A x \in B : \E m \in 1..(j - 1) : f[m] = x
    BY <1>1, <2>2, <2>3
  <2>7. \A l, m \in 1..(j - 1) : f[l] = f[m] => l = m
    BY <2>4 DEF IsLine
  <2> HIDE DEF f
  <2>8. f \in Bijection(1..(j - 1), B)
    BY <2>5, <2>6, <2>7 DEF Bijection, Injection, Surjection, IsInjective
  <2>9. ExistsBijection(1..(j - 1), B) /\ j - 1 \in Nat
    BY <1>1, <2>8 DEF ExistsBijection
  <2>10. Cardinality(B) = j - 1
    BY <2>9, FS_CountingElements
  <2>11. QED
    BY <2>10 DEF B, Place
<1>4. ASSUME NEW j \in 1..n PROVE w[j] = q[j]
  <2>1. q[j] \in S /\ Place(tasks, S, q[j]) + 1 = j
    BY <1>1, <1>3, LineIs
  <2>2. QED
    BY <1>2, <2>1
<1>5. w \in Seq(S) /\ Len(w) = n
  BY <1>1, InOrderIs
<1>6. q \in Seq(S)
  BY DEF IsLine
<1> HIDE DEF w
<1>7. w = q
  BY <1>1, <1>4, <1>5, <1>6
<1>8. QED
  BY <1>7 DEF w

\* The tasks in order are a rising line.
LEMMA InOrderRises ==
  ASSUME NEW tasks, NEW S, IsFiniteSet(S), Distinct(tasks, S)
  PROVE  IsLine(InOrder(tasks, S), S) /\ Rising(tasks, InOrder(tasks, S))
<1> DEFINE q == InOrder(tasks, S)
           n == Cardinality(S)
<1>1. /\ q \in Seq(S) /\ Len(q) = n /\ n \in Nat
      /\ \A i \in 1..n : Place(tasks, S, q[i]) = i - 1
      /\ ToSet(q) = S
  BY InOrderIs
<1>2. \A x, y \in S : Place(tasks, S, x) < Place(tasks, S, y) <=> tasks[x].order < tasks[y].order
  BY PlaceIs
<1> HIDE DEF q
<1>3. \A i \in 1..n : q[i] \in S
  BY <1>1
<1>4. ASSUME NEW j \in 1..n, NEW m \in 1..n, q[j] = q[m] PROVE j = m
  <2>1. j - 1 = m - 1
    BY <1>1, <1>4
  <2>2. QED
    BY <1>1, <2>1
<1>5. ASSUME NEW j \in 1..n, NEW m \in 1..n, j < m PROVE tasks[q[j]].order < tasks[q[m]].order
  <2>1. Place(tasks, S, q[j]) < Place(tasks, S, q[m])
    <3>1. Place(tasks, S, q[j]) = j - 1 /\ Place(tasks, S, q[m]) = m - 1
      BY <1>1
    <3>2. QED
      BY <1>1, <1>5, <3>1
  <2>2. QED
    BY <1>2, <1>3, <2>1
<1>6. IsLine(q, S) /\ Rising(tasks, q)
  BY <1>1, <1>4, <1>5 DEF IsLine, Rising
<1>7. QED
  BY <1>6 DEF q

\* In a rising line the earlier one has the smaller number.
LEMMA RisingOrder ==
  ASSUME NEW tasks, NEW S, NEW q, IsLine(q, S), Rising(tasks, q), Distinct(tasks, S)
  PROVE  \A x, y \in S : tasks[x].order < tasks[y].order <=> IndexOf(q, x) < IndexOf(q, y)
<1>1. SUFFICES ASSUME NEW x \in S, NEW y \in S
               PROVE  tasks[x].order < tasks[y].order <=> IndexOf(q, x) < IndexOf(q, y)
  OBVIOUS
<1> DEFINE j == IndexOf(q, x) + 1
           m == IndexOf(q, y) + 1
<1>2. /\ IndexOf(q, x) \in Int /\ IndexOf(q, y) \in Int
      /\ j \in 1..Len(q) /\ m \in 1..Len(q) /\ q[j] = x /\ q[m] = y /\ Len(q) \in Nat
  <2>1. Len(q) \in Nat /\ IndexOf(q, x) \in 0..(Len(q) - 1) /\ q[IndexOf(q, x) + 1] = x
    BY LineIs
  <2>2. IndexOf(q, y) \in 0..(Len(q) - 1) /\ q[IndexOf(q, y) + 1] = y
    BY LineIs
  <2>3. QED
    BY <2>1, <2>2
<1>3. tasks[x].order \in Nat /\ tasks[y].order \in Nat
  BY DEF Distinct
<1>4. IndexOf(q, x) < IndexOf(q, y) <=> j < m
  BY <1>2
<1> HIDE DEF j, m
<1>5. CASE j < m
  <2>1. tasks[x].order < tasks[y].order
    BY <1>2, <1>5 DEF Rising
  <2>2. QED
    BY <1>4, <1>5, <2>1
<1>6. CASE m < j
  <2>1. tasks[y].order < tasks[x].order
    BY <1>2, <1>6 DEF Rising
  <2>2. ~ (tasks[x].order < tasks[y].order) /\ ~ (j < m)
    BY <1>2, <1>3, <1>6, <2>1
  <2>3. QED
    BY <1>4, <2>2
<1>7. CASE m = j
  <2>1. x = y
    BY <1>2, <1>7
  <2>2. ~ (tasks[x].order < tasks[y].order) /\ ~ (j < m)
    BY <1>2, <1>3, <1>7, <2>1
  <2>3. QED
    BY <1>4, <2>2
<1>8. QED
  BY <1>2, <1>5, <1>6, <1>7

\* Numbered by their positions the tasks come in that order.
LEMMA NumbersMakeLine ==
  ASSUME NEW tasks, NEW S, NEW q, IsLine(q, S), \A x \in S : tasks[x].order = IndexOf(q, x)
  PROVE  Distinct(tasks, S) /\ InOrder(tasks, S) = q
<1>1. /\ Len(q) \in Nat
      /\ \A j \in 1..Len(q) : q[j] \in S /\ IndexOf(q, q[j]) = j - 1
      /\ \A x \in S : IndexOf(q, x) \in 0..(Len(q) - 1) /\ q[IndexOf(q, x) + 1] = x
  BY LineIs
<1>2. Distinct(tasks, S)
  BY <1>1 DEF Distinct
<1>3. Rising(tasks, q)
  <2>1. SUFFICES ASSUME NEW j \in 1..Len(q), NEW m \in 1..Len(q), j < m
                 PROVE  tasks[q[j]].order < tasks[q[m]].order
    BY DEF Rising
  <2>2. tasks[q[j]].order = j - 1 /\ tasks[q[m]].order = m - 1
    BY <1>1
  <2>3. QED
    BY <1>1, <2>1, <2>2
<1>4. QED
  BY <1>2, <1>3, RisingIs

\* Tasks that are in order the same way in two lists, and some of them.
LEMMA SameLine ==
  ASSUME NEW a, NEW b, NEW S, IsFiniteSet(S), Distinct(a, S), Distinct(b, S), InOrder(a, S) = InOrder(b, S),
         NEW R \in SUBSET S
  PROVE  InOrder(a, R) = InOrder(b, R)
<1>1. \A x, y \in S : a[x].order < a[y].order <=> b[x].order < b[y].order
  BY InOrderRises, RisingOrder
<1>2. IsFiniteSet(R) /\ Distinct(a, R) /\ Distinct(b, R)
  BY FS_Subset DEF Distinct
<1>3. IsLine(InOrder(a, R), R) /\ Rising(a, InOrder(a, R))
  BY <1>2, InOrderRises
<1>4. Rising(b, InOrder(a, R))
  <2>1. \A j \in 1..Len(InOrder(a, R)) : InOrder(a, R)[j] \in S
    BY <1>3, LineIs
  <2>2. QED
    BY <1>1, <1>3, <2>1 DEF Rising
<1>5. QED
  BY <1>2, <1>3, <1>4, RisingIs

\* The numbers alone make the order.
LEMMA SameNumbers ==
  ASSUME NEW a, NEW b, NEW S, IsFiniteSet(S), Distinct(a, S), \A x \in S : b[x].order = a[x].order
  PROVE  Distinct(b, S) /\ InOrder(b, S) = InOrder(a, S)
<1>1. Distinct(b, S)
  BY DEF Distinct
<1>2. IsLine(InOrder(a, S), S) /\ Rising(a, InOrder(a, S))
  BY InOrderRises
<1>3. Rising(b, InOrder(a, S))
  <2>1. \A j \in 1..Len(InOrder(a, S)) : InOrder(a, S)[j] \in S
    BY <1>2, LineIs
  <2>2. QED
    BY <1>2, <2>1 DEF Rising
<1>4. QED
  BY <1>1, <1>2, <1>3, RisingIs

\* A line with one more task in it.
LEMMA InsertedIsLine ==
  ASSUME NEW w, NEW S, IsLine(w, S), NEW t, t \notin S, NEW i \in Nat
  PROVE  IsLine(Inserted(w, i, t), S \cup {t})
<1>1. w \in Seq(S \cup {t}) /\ ToSet(w) = S /\ \A j, m \in 1..Len(w) : w[j] = w[m] => j = m
  BY LineIs DEF IsLine
<1>2. Inserted(w, i, t) \in Seq(S \cup {t}) /\ Len(Inserted(w, i, t)) = Len(w) + 1
  BY <1>1, InsertedIs
<1>3. /\ ToSet(Inserted(w, i, t)) = S \cup {t}
      /\ \A j, m \in 1..Len(w) + 1 : Inserted(w, i, t)[j] = Inserted(w, i, t)[m] => j = m
  BY <1>1, IndexInserted
<1>4. QED
  BY <1>2, <1>3 DEF IsLine

\* Siblings with numbers of their own come in order.
LEMMA KidsAre ==
  ASSUME NEW tasks, IsList(tasks), OwnNumbers(tasks), NEW p
  PROVE  /\ IsFiniteSet(KidsOf(tasks, p)) /\ Distinct(tasks, KidsOf(tasks, p))
         /\ IsLine(Siblings(tasks, p), KidsOf(tasks, p))
         /\ \A t : /\ IsFiniteSet(KidsOf(tasks, p) \ {t}) /\ Distinct(tasks, KidsOf(tasks, p) \ {t})
                   /\ IsLine(SiblingsWithout(tasks, p, t), KidsOf(tasks, p) \ {t})
<1>1. KidsOf(tasks, p) \in SUBSET Task /\ \A x \in KidsOf(tasks, p) : x \in DOMAIN tasks /\ tasks[x].up = p
  BY DEF KidsOf, IsList
<1>2. IsFiniteSet(KidsOf(tasks, p))
  BY <1>1, FS_Subset, OutlineBounds
<1>3. Distinct(tasks, KidsOf(tasks, p))
  BY <1>1 DEF OwnNumbers, Distinct
<1>4. ASSUME NEW t
      PROVE  /\ IsFiniteSet(KidsOf(tasks, p) \ {t}) /\ Distinct(tasks, KidsOf(tasks, p) \ {t})
             /\ IsLine(SiblingsWithout(tasks, p, t), KidsOf(tasks, p) \ {t})
  <2>1. IsFiniteSet(KidsOf(tasks, p) \ {t})
    BY <1>2, FS_Subset
  <2>2. Distinct(tasks, KidsOf(tasks, p) \ {t})
    BY <1>3 DEF Distinct
  <2>3. QED
    BY <2>1, <2>2, InOrderRises DEF SiblingsWithout
<1>5. IsLine(Siblings(tasks, p), KidsOf(tasks, p))
  BY <1>2, <1>3, InOrderRises DEF Siblings
<1>6. QED
  BY <1>2, <1>3, <1>4, <1>5

\* Where all siblings have numbers of their own.
LEMMA NumbersOwn ==
  ASSUME NEW tasks, \A p : Distinct(tasks, KidsOf(tasks, p))
  PROVE  OwnNumbers(tasks)
<1>1. ASSUME NEW x \in DOMAIN tasks
      PROVE  /\ tasks[x].order \in Nat
             /\ \A y \in DOMAIN tasks : tasks[x].up = tasks[y].up /\ tasks[x].order = tasks[y].order => x = y
  <2>1. Distinct(tasks, KidsOf(tasks, tasks[x].up)) /\ x \in KidsOf(tasks, tasks[x].up)
    BY DEF KidsOf
  <2>2. \A y \in DOMAIN tasks : tasks[x].up = tasks[y].up => y \in KidsOf(tasks, tasks[x].up)
    BY DEF KidsOf
  <2>3. QED
    BY <2>1, <2>2 DEF Distinct
<1>2. QED
  BY <1>1 DEF OwnNumbers

\* The lines after a move.
LineAfter(tasks, t, p, i, q) ==
  IF q = p THEN Placed(tasks, t, p, i)
  ELSE IF q = tasks[t].up THEN SiblingsWithout(tasks, q, t) ELSE Siblings(tasks, q)

\* A move puts a task into one line, takes it out of another, and leaves the
\* rest.
LEMMA MovedLines ==
  ASSUME NEW tasks, IsList(tasks), OwnNumbers(tasks), NEW t \in DOMAIN tasks, NEW p, NEW i \in Nat
  PROVE  /\ OwnNumbers(Moved(tasks, t, p, i))
         /\ \A q : Siblings(Moved(tasks, t, p, i), q) = LineAfter(tasks, t, p, i, q)
<1> DEFINE new == Moved(tasks, t, p, i)
           line == Placed(tasks, t, p, i)
           left == Left(tasks, t, p)
           old == tasks[t].up
<1>1. /\ DOMAIN new = DOMAIN tasks
      /\ \A s \in DOMAIN tasks :
           /\ new[s].up = IF s = t THEN p ELSE tasks[s].up
           /\ new[s].order = IF s \in ToSet(left) THEN IndexOf(left, s)
                             ELSE IF s \in ToSet(line) THEN IndexOf(line, s) ELSE tasks[s].order
  BY MovedIs
<1>2. IsLine(line, (KidsOf(tasks, p) \ {t}) \cup {t})
  <2>1. IsLine(SiblingsWithout(tasks, p, t), KidsOf(tasks, p) \ {t})
    BY KidsAre
  <2>2. QED
    BY <2>1, InsertedIsLine DEF Placed
<1>3. old # p => left = SiblingsWithout(tasks, old, t) /\ IsLine(left, KidsOf(tasks, old) \ {t})
  BY KidsAre DEF Left
<1>4. old = p => ToSet(left) = {}
  BY DEF Left, ToSet
<1>5. ToSet(line) = (KidsOf(tasks, p) \ {t}) \cup {t} /\ (old # p => ToSet(left) = KidsOf(tasks, old) \ {t})
  BY <1>2, <1>3 DEF IsLine
<1>6. \A q : KidsOf(tasks, q) = {s \in DOMAIN tasks : tasks[s].up = q}
  BY DEF KidsOf
<1>7. \A q : KidsOf(new, q) = {s \in DOMAIN tasks : (IF s = t THEN p ELSE tasks[s].up) = q}
  BY <1>1 DEF KidsOf
<1> HIDE DEF new, line, left
<1>8. Distinct(new, KidsOf(new, p)) /\ Siblings(new, p) = line
  <2>1. KidsOf(new, p) = (KidsOf(tasks, p) \ {t}) \cup {t}
    BY <1>6, <1>7
  <2>2. \A s \in KidsOf(new, p) : s \in DOMAIN tasks /\ s \in ToSet(line) /\ s \notin ToSet(left)
    BY <1>4, <1>5, <1>6, <2>1
  <2>3. \A s \in KidsOf(new, p) : new[s].order = IndexOf(line, s)
    BY <1>1, <2>2
  <2>4. Distinct(new, KidsOf(new, p)) /\ InOrder(new, KidsOf(new, p)) = line
    BY <1>2, <2>1, <2>3, NumbersMakeLine
  <2>5. QED
    BY <2>4 DEF Siblings
<1>9. ASSUME old # p PROVE Distinct(new, KidsOf(new, old)) /\ Siblings(new, old) = left
  <2>1. KidsOf(new, old) = KidsOf(tasks, old) \ {t}
    BY <1>6, <1>7, <1>9
  <2>2. \A s \in KidsOf(new, old) : new[s].order = IndexOf(left, s)
    BY <1>1, <1>5, <1>6, <1>9, <2>1
  <2>3. Distinct(new, KidsOf(new, old)) /\ InOrder(new, KidsOf(new, old)) = left
    BY <1>3, <1>9, <2>1, <2>2, NumbersMakeLine
  <2>4. QED
    BY <2>3 DEF Siblings
<1>10. ASSUME NEW q, q # p, q # old PROVE Distinct(new, KidsOf(new, q)) /\ Siblings(new, q) = Siblings(tasks, q)
  <2>1. KidsOf(new, q) = KidsOf(tasks, q)
    BY <1>6, <1>7, <1>10
  <2>2. \A s \in KidsOf(tasks, q) : s \in DOMAIN tasks /\ s \notin ToSet(line) /\ s \notin ToSet(left)
    BY <1>4, <1>5, <1>6, <1>10
  <2>3. \A s \in KidsOf(tasks, q) : new[s].order = tasks[s].order
    BY <1>1, <2>2
  <2>4. IsFiniteSet(KidsOf(tasks, q)) /\ Distinct(tasks, KidsOf(tasks, q))
    BY KidsAre
  <2>5. QED
    BY <2>1, <2>3, <2>4, SameNumbers DEF Siblings
<1>11. OwnNumbers(new)
  BY <1>8, <1>9, <1>10, NumbersOwn
<1>12. \A q : Siblings(new, q) = IF q = p THEN line ELSE IF q = old THEN SiblingsWithout(tasks, q, t) ELSE Siblings(tasks, q)
  BY <1>3, <1>8, <1>9, <1>10
<1>13. QED
  BY <1>11, <1>12 DEF LineAfter, new, line, old

-----------------------------------------------------------------------------
(* Two lists that show the same tree.                                      *)

Alike(a, b) ==
  /\ DOMAIN a = DOMAIN b
  /\ \A x \in DOMAIN b : a[x].up = b[x].up /\ (a[x].done <=> b[x].done)
  /\ \A p \in DOMAIN b \cup {Null} : Siblings(a, p) = Siblings(b, p)

\* After the same move they show the same tree.
LEMMA MovedAlike ==
  ASSUME NEW a, NEW b, IsList(a), IsList(b), OwnNumbers(a), OwnNumbers(b), Alike(a, b),
         \A x \in DOMAIN b : b[x].up \in DOMAIN b \cup {Null},
         NEW t \in DOMAIN b, NEW p \in DOMAIN b \cup {Null}, NEW i \in Nat
  PROVE  Alike(Moved(a, t, p, i), Moved(b, t, p, i))
<1>1. \A q : KidsOf(a, q) = KidsOf(b, q)
  BY DEF KidsOf, Alike
<1>2. ASSUME NEW q \in DOMAIN b \cup {Null} PROVE SiblingsWithout(a, q, t) = SiblingsWithout(b, q, t)
  <2>1. IsFiniteSet(KidsOf(b, q)) /\ Distinct(a, KidsOf(b, q)) /\ Distinct(b, KidsOf(b, q))
    BY <1>1, KidsAre
  <2>2. InOrder(a, KidsOf(b, q)) = InOrder(b, KidsOf(b, q))
    BY <1>1 DEF Alike, Siblings
  <2>3. QED
    BY <1>1, <2>1, <2>2, SameLine DEF SiblingsWithout
<1>3. t \in DOMAIN a /\ a[t].up = b[t].up /\ b[t].up \in DOMAIN b \cup {Null}
  BY DEF Alike
<1>4. \A q \in DOMAIN b \cup {Null} : LineAfter(a, t, p, i, q) = LineAfter(b, t, p, i, q)
  BY <1>2, <1>3 DEF LineAfter, Placed, Alike
<1>5. \A q \in DOMAIN b \cup {Null} : Siblings(Moved(a, t, p, i), q) = Siblings(Moved(b, t, p, i), q)
  BY <1>3, <1>4, MovedLines
<1>6. /\ DOMAIN Moved(a, t, p, i) = DOMAIN a
      /\ \A s \in DOMAIN a : /\ Moved(a, t, p, i)[s].up = IF s = t THEN p ELSE a[s].up
                             /\ Moved(a, t, p, i)[s].done = a[s].done
  BY <1>3, MovedIs
<1>7. /\ DOMAIN Moved(b, t, p, i) = DOMAIN b
      /\ \A s \in DOMAIN b : /\ Moved(b, t, p, i)[s].up = IF s = t THEN p ELSE b[s].up
                             /\ Moved(b, t, p, i)[s].done = b[s].done
  BY MovedIs
<1>8. QED
  BY <1>5, <1>6, <1>7 DEF Alike

-----------------------------------------------------------------------------
(* Paths.                                                                  *)

Depth(up, a) == Cardinality(Ancestors(up, a))

\* Among the ancestors of a task each has a depth of its own.
LEMMA DepthIs ==
  ASSUME NEW up \in [Task -> Task \cup {Null}], Rooted(up), NEW s \in Task
  PROVE  /\ IsFiniteSet(Ancestors(up, s)) /\ Depth(up, s) \in Nat
         /\ \A a \in Ancestors(up, s) : a \in Task /\ Depth(up, a) \in 0..(Depth(up, s) - 1)
         /\ \A a, b \in Ancestors(up, s) : Depth(up, a) = Depth(up, b) => a = b
<1>1. \A x \in Task : IsFiniteSet(Ancestors(up, x)) /\ Depth(up, x) \in Nat
  <2>1. \A x \in Task : Ancestors(up, x) \in SUBSET Task
    BY DEF Ancestors
  <2>2. QED
    BY <2>1, FS_Subset, FS_CardinalityType, OutlineBounds DEF Depth
<1>2. ASSUME NEW x \in Task, NEW a \in Ancestors(up, x) PROVE a \in Task /\ Depth(up, a) < Depth(up, x)
  <2>1. a \in Task /\ Ancestors(up, a) \subseteq Ancestors(up, x)
    BY AncestorsOfAncestors
  <2>2. a \notin Ancestors(up, a)
    BY <2>1, RootedNotOwn
  <2>3. Cardinality(Ancestors(up, a)) <= Cardinality(Ancestors(up, x))
        /\ (Cardinality(Ancestors(up, x)) = Cardinality(Ancestors(up, a)) => Ancestors(up, x) = Ancestors(up, a))
    BY <1>1, <2>1, FS_Subset
  <2>4. Depth(up, a) \in Nat /\ Depth(up, x) \in Nat
    BY <1>1, <2>1
  <2>5. Depth(up, a) <= Depth(up, x) /\ Depth(up, a) # Depth(up, x)
    BY <2>2, <2>3 DEF Depth
  <2>6. QED
    BY <2>1, <2>4, <2>5
<1>3. ASSUME NEW a \in Ancestors(up, s), NEW b \in Ancestors(up, s), Depth(up, a) = Depth(up, b) PROVE a = b
  <2>1. a = b \/ a \in Ancestors(up, b) \/ b \in Ancestors(up, a)
    BY AncestorsInLine
  <2>2. a \in Task /\ b \in Task /\ Depth(up, a) \in Nat /\ Depth(up, b) \in Nat
    BY <1>1, AncestorsOfAncestors
  <2>3. a \in Ancestors(up, b) => Depth(up, a) < Depth(up, b)
    BY <1>2, <2>2
  <2>4. b \in Ancestors(up, a) => Depth(up, b) < Depth(up, a)
    BY <1>2, <2>2
  <2>5. QED
    BY <1>3, <2>1, <2>2, <2>3, <2>4
<1>4. \A a \in Ancestors(up, s) : a \in Task /\ Depth(up, a) \in 0..(Depth(up, s) - 1)
  <2>1. SUFFICES ASSUME NEW a \in Ancestors(up, s)
                 PROVE  a \in Task /\ Depth(up, a) \in 0..(Depth(up, s) - 1)
    OBVIOUS
  <2>2. a \in Task /\ Depth(up, a) < Depth(up, s)
    BY <1>2
  <2>3. Depth(up, a) \in Nat /\ Depth(up, s) \in Nat
    BY <1>1, <2>2
  <2>4. QED
    BY <2>2, <2>3
<1>5. QED
  BY <1>1, <1>3, <1>4

\* The path lists them by depth.
LEMMA PathIs ==
  ASSUME NEW up \in [Task -> Task \cup {Null}], Rooted(up), NEW s \in Task
  PROVE  /\ PathAt(up, s) \in Seq(Task) /\ Len(PathAt(up, s)) = Depth(up, s) /\ Depth(up, s) \in Nat
         /\ \A i \in 1..Depth(up, s) :
              PathAt(up, s)[i] \in Ancestors(up, s) /\ Depth(up, PathAt(up, s)[i]) = i - 1
         /\ \A a \in Ancestors(up, s) :
              Depth(up, a) + 1 \in 1..Depth(up, s) /\ PathAt(up, s)[Depth(up, a) + 1] = a
         /\ ToSet(PathAt(up, s)) = Ancestors(up, s)
<1> DEFINE S == Ancestors(up, s)
           n == Depth(up, s)
           rank == [a \in S |-> Depth(up, a)]
           q == PathAt(up, s)
<1>1. /\ IsFiniteSet(S) /\ n \in Nat /\ n = Cardinality(S)
      /\ \A a \in S : a \in Task /\ rank[a] \in 0..(n - 1)
      /\ \A a, b \in S : rank[a] = rank[b] => a = b
  BY DepthIs DEF Depth
<1>2. q = [i \in 1..n |-> CHOOSE a \in S : rank[a] = i - 1]
  <2>1. \A i : (CHOOSE a \in S : Cardinality(Ancestors(up, a)) = i - 1) = (CHOOSE a \in S : rank[a] = i - 1)
    BY DEF Depth
  <2>2. q = [i \in 1..n |-> CHOOSE a \in S : Cardinality(Ancestors(up, a)) = i - 1]
    BY DEF PathAt, Depth
  <2>3. QED
    BY <2>1, <2>2
<1>3. \A a \in S : rank[a] = Depth(up, a)
  OBVIOUS
<1> HIDE DEF S, n, rank, q
<1>4. \A i \in 1..n : \E a \in S : rank[a] = i - 1
  BY <1>1, RanksAreTaken
<1>5. \A i \in 1..n : q[i] \in S /\ rank[q[i]] = i - 1
  BY <1>2, <1>4
<1>6. q \in [1..n -> Task]
  <2>1. DOMAIN q = 1..n /\ q = [i \in 1..n |-> q[i]]
    BY <1>2
  <2>2. QED
    BY <1>1, <1>5, <2>1
<1>7. q \in Seq(Task) /\ Len(q) = n
  BY <1>1, <1>6
<1>8. ASSUME NEW a \in S PROVE rank[a] + 1 \in 1..n /\ q[rank[a] + 1] = a
  <2>1. rank[a] \in 0..(n - 1)
    BY <1>1
  <2>2. rank[a] + 1 \in 1..n /\ (rank[a] + 1) - 1 = rank[a]
    BY <1>1, <2>1
  <2>3. q[rank[a] + 1] \in S /\ rank[q[rank[a] + 1]] = rank[a]
    BY <1>5, <2>2
  <2>4. QED
    BY <1>1, <2>2, <2>3
<1>9. ToSet(q) = S
  BY <1>5, <1>6, <1>8 DEF ToSet
<1>10. QED
  BY <1>1, <1>3, <1>5, <1>7, <1>8, <1>9 DEF S, n, q

\* The path of a task is its parent's, and the parent.
LEMMA PathStep ==
  ASSUME NEW up \in [Task -> Task \cup {Null}], Rooted(up), NEW s \in Task
  PROVE  /\ up[s] = Null => PathAt(up, s) = <<>>
         /\ up[s] # Null => PathAt(up, s) = Append(PathAt(up, up[s]), up[s])
<1>1. CASE up[s] = Null
  <2>1. Ancestors(up, s) = {}
    BY <1>1, AncestorsStep, NullAssumption
  <2>2. Depth(up, s) = 0
    BY <2>1, FS_EmptySet DEF Depth
  <2>3. PathAt(up, s) \in Seq(Task) /\ Len(PathAt(up, s)) = 0
    BY <2>2, PathIs
  <2>4. QED
    BY <1>1, <2>3
<1>2. CASE up[s] # Null
  <2> DEFINE u == up[s]
             one == PathAt(up, s)
             two == PathAt(up, u)
             n == Depth(up, u)
  <2>1. u \in Task /\ Ancestors(up, s) = {u} \cup Ancestors(up, u)
    BY <1>2, AncestorsStep, NullAssumption
  <2>2. /\ two \in Seq(Task) /\ Len(two) = n /\ n \in Nat
        /\ \A i \in 1..n : two[i] \in Ancestors(up, u) /\ Depth(up, two[i]) = i - 1
    BY <2>1, PathIs
  <2>3. /\ one \in Seq(Task) /\ Len(one) = Depth(up, s)
        /\ \A a \in Ancestors(up, s) : one[Depth(up, a) + 1] = a
    BY PathIs
  <2>4. Depth(up, s) = n + 1
    <3>1. IsFiniteSet(Ancestors(up, u)) /\ u \notin Ancestors(up, u)
      BY <2>1, DepthIs, RootedNotOwn
    <3>2. Ancestors(up, s) = Ancestors(up, u) \cup {u}
      BY <2>1
    <3>3. QED
      BY <3>1, <3>2, FS_AddElement DEF Depth
  <2> HIDE DEF one, two, n, u
  <2>5. one[n + 1] = u
    BY <2>1, <2>3 DEF n
  <2>6. \A i \in 1..n : one[i] = two[i]
    <3>1. SUFFICES ASSUME NEW i \in 1..n PROVE one[i] = two[i]
      OBVIOUS
    <3>2. two[i] \in Ancestors(up, s) /\ Depth(up, two[i]) = i - 1
      BY <2>1, <2>2
    <3>3. one[(i - 1) + 1] = two[i]
      BY <2>3, <3>2
    <3>4. QED
      BY <2>2, <3>3
  <2>7. one = Append(two, u)
    <3>1. Append(two, u) \in Seq(Task) /\ Len(Append(two, u)) = n + 1 /\ Append(two, u)[n + 1] = u
          /\ \A i \in 1..n : Append(two, u)[i] = two[i]
      BY <2>1, <2>2
    <3> DEFINE w == Append(two, u)
    <3> HIDE DEF w
    <3>2. \A i \in 1..n + 1 : one[i] = w[i]
      <4>1. \A i \in 1..n + 1 : i \in 1..n \/ i = n + 1
        BY <2>2
      <4>2. QED
        BY <2>5, <2>6, <3>1, <4>1 DEF w
    <3>3. one = w
      BY <2>2, <2>3, <2>4, <3>1, <3>2 DEF w
    <3>4. QED
      BY <3>3 DEF w
  <2>8. QED
    BY <1>2, <2>7 DEF one, two, u
<1>3. QED
  BY <1>1, <1>2

\* The end of a longer path.
LEMMA EndOfPath ==
  ASSUME NEW base \in Seq(Task), NEW w \in Seq(Task), NEW u \in Task, NEW m \in 0..Len(w)
  PROVE  base \o SubSeq(Append(w, u), m + 1, Len(w) + 1) = Append(base \o SubSeq(w, m + 1, Len(w)), u)
<1> DEFINE n == Len(w)
           long == SubSeq(Append(w, u), m + 1, n + 1)
           short == SubSeq(w, m + 1, n)
           one == base \o long
           two == Append(base \o short, u)
           k == Len(base)
<1>1. n \in Nat /\ m \in Nat /\ m <= n /\ k \in Nat
  OBVIOUS
<1>2. short \in Seq(Task) /\ Len(short) = n - m /\ \A j \in 1..(n - m) : short[j] = w[m + j]
  BY <1>1
<1>3. /\ Append(w, u) \in Seq(Task) /\ Len(Append(w, u)) = n + 1 /\ Append(w, u)[n + 1] = u
      /\ \A j \in 1..n : Append(w, u)[j] = w[j]
  BY <1>1
<1>4. long \in Seq(Task) /\ Len(long) = n + 1 - m /\ \A j \in 1..(n + 1 - m) : long[j] = Append(w, u)[m + j]
  BY <1>1, <1>3
<1> HIDE DEF long, short
<1>5. long[(n - m) + 1] = u /\ (n - m) + 1 = n + 1 - m /\ \A j \in 1..(n - m) : long[j] = short[j]
  <2>1. (n - m) + 1 \in 1..(n + 1 - m) /\ m + ((n - m) + 1) = n + 1 /\ (n - m) + 1 = n + 1 - m
    BY <1>1
  <2>2. \A j \in 1..(n - m) : j \in 1..(n + 1 - m) /\ m + j \in 1..n
    BY <1>1
  <2>3. long[(n - m) + 1] = u
    BY <1>3, <1>4, <2>1
  <2>4. \A j \in 1..(n - m) : long[j] = short[j]
    BY <1>2, <1>3, <1>4, <2>2
  <2>5. QED
    BY <2>1, <2>3, <2>4
<1> HIDE DEF n
<1>6. \A x, y \in Seq(Task) :
        /\ x \o y \in Seq(Task) /\ Len(x \o y) = Len(x) + Len(y)
        /\ \A j \in 1..Len(x) : (x \o y)[j] = x[j]
        /\ \A j \in 1..Len(y) : (x \o y)[Len(x) + j] = y[j]
  OBVIOUS
<1>7. /\ one \in Seq(Task) /\ Len(one) = k + (n + 1 - m) /\ \A j \in 1..k : one[j] = base[j]
      /\ \A j \in 1..(n + 1 - m) : one[k + j] = long[j]
  <2>1. /\ one \in Seq(Task) /\ Len(one) = k + Len(long) /\ \A j \in 1..k : one[j] = base[j]
        /\ \A j \in 1..Len(long) : one[k + j] = long[j]
    BY <1>4, <1>6
  <2> HIDE DEF one, k
  <2>2. QED
    BY <1>4, <2>1
<1> DEFINE v == base \o short
<1>8. /\ v \in Seq(Task) /\ Len(v) = k + (n - m) /\ \A j \in 1..k : v[j] = base[j]
      /\ \A j \in 1..(n - m) : v[k + j] = short[j]
  <2>1. /\ v \in Seq(Task) /\ Len(v) = k + Len(short) /\ \A j \in 1..k : v[j] = base[j]
        /\ \A j \in 1..Len(short) : v[k + j] = short[j]
    BY <1>2, <1>6
  <2> HIDE DEF v, k
  <2>2. QED
    BY <1>2, <2>1
<1> HIDE DEF one, v
<1>9. /\ two \in Seq(Task) /\ Len(two) = k + (n - m) + 1 /\ two[k + (n - m) + 1] = u
      /\ \A j \in 1..(k + (n - m)) : two[j] = v[j]
  <2>1. two = Append(v, u)
    BY DEF v
  <2> HIDE DEF two
  <2>2. QED
    BY <1>1, <1>8, <2>1
<1> HIDE DEF two
<1>10. Len(one) = Len(two) /\ Len(two) \in Nat
  BY <1>1, <1>7, <1>9
<1>11. ASSUME NEW j \in 1..Len(two) PROVE one[j] = two[j]
  <2>1. CASE j <= k
    <3>1. j \in 1..k /\ j \in 1..(k + (n - m))
      BY <1>1, <1>9, <2>1
    <3>2. QED
      BY <1>7, <1>8, <1>9, <3>1
  <2>2. CASE j > k /\ j <= k + (n - m)
    <3>1. j \in 1..(k + (n - m)) /\ j - k \in 1..(n - m) /\ j - k \in 1..(n + 1 - m) /\ k + (j - k) = j
      BY <1>1, <2>2
    <3>2. one[j] = long[j - k] /\ v[j] = short[j - k] /\ two[j] = v[j]
      BY <1>7, <1>8, <1>9, <3>1
    <3>3. QED
      BY <1>5, <3>1, <3>2
  <2>3. CASE j = k + (n - m) + 1
    <3>1. (n - m) + 1 \in 1..(n + 1 - m) /\ j = k + ((n - m) + 1)
      BY <1>1, <2>3
    <3>2. one[j] = long[(n - m) + 1]
      BY <1>7, <3>1
    <3>3. QED
      BY <1>5, <1>9, <2>3, <3>2
  <2>4. QED
    BY <1>1, <1>9, <2>1, <2>2, <2>3
<1>12. one = two
  BY <1>7, <1>9, <1>10, <1>11
<1>13. QED
  BY <1>12 DEF one, two, n, long, short

\* The path that applyMove gives a task, from the paths before the move.
PathAfter(up, t, p, s) ==
  LET base == IF p = Null THEN <<>> ELSE Append(PathAt(up, p), p) IN
  IF s = t THEN base
  ELSE IF t \in ToSet(PathAt(up, s))
  THEN base \o SubSeq(PathAt(up, s), Len(PathAt(up, t)) + 1, Len(PathAt(up, s)))
  ELSE PathAt(up, s)

\* It is the path in the tree after the move.
LEMMA PathAfterIs ==
  ASSUME NEW up \in [Task -> Task \cup {Null}], Rooted(up), NEW t \in Task, NEW p \in Task \cup {Null},
         p # t, p \notin Below(up, t)
  PROVE  \A s \in Task : PathAfter(up, t, p, s) = PathAt([up EXCEPT ![t] = p], s)
<1> DEFINE new == [up EXCEPT ![t] = p]
           P(s) == PathAfter(up, t, p, s)
           base == IF p = Null THEN <<>> ELSE Append(PathAt(up, p), p)
           wrong == {s \in Task : P(s) # PathAt(new, s)}
<1>1. new \in [Task -> Task \cup {Null}] /\ Rooted(new) /\ new[t] = p /\ \A s \in Task \ {t} : new[s] = up[s]
  BY MoveKeepsRooted
<1> HIDE DEF new
<1>2. SUFFICES ASSUME wrong # {} PROVE FALSE
  BY DEF new
<1>3. PICK s \in wrong : new[s] \notin wrong
  <2>1. wrong \in SUBSET Task
    OBVIOUS
  <2> HIDE DEF wrong
  <2>2. QED
    BY <1>1, <1>2, <2>1 DEF Rooted
<1>4. s \in Task /\ P(s) # PathAt(new, s) /\ (new[s] # Null => new[s] \in Task /\ P(new[s]) = PathAt(new, new[s]))
  BY <1>1, <1>3
<1>5. /\ P(t) = base
      /\ \A x \in Task : x # t /\ t \notin ToSet(PathAt(up, x)) => P(x) = PathAt(up, x)
      /\ \A x \in Task : x # t /\ t \in ToSet(PathAt(up, x)) =>
           P(x) = base \o SubSeq(PathAt(up, x), Len(PathAt(up, t)) + 1, Len(PathAt(up, x)))
  BY DEF PathAfter
<1>6. \A x \in Task : PathAt(up, x) \in Seq(Task) /\ ToSet(PathAt(up, x)) = Ancestors(up, x)
  BY PathIs
<1>7. base \in Seq(Task)
  <2>1. CASE p = Null
    BY <2>1
  <2>2. CASE p # Null
    <3>1. p \in Task /\ PathAt(up, p) \in Seq(Task)
      BY <1>6, <2>2
    <3>2. QED
      BY <2>2, <3>1
  <2>3. QED
    BY <2>1, <2>2
<1>8. /\ new[s] = Null => PathAt(new, s) = <<>>
      /\ new[s] # Null => PathAt(new, s) = Append(PathAt(new, new[s]), new[s])
  BY <1>1, <1>4, PathStep
<1>9. /\ up[s] = Null => PathAt(up, s) = <<>> /\ Ancestors(up, s) = {}
      /\ up[s] # Null => /\ PathAt(up, s) = Append(PathAt(up, up[s]), up[s])
                         /\ up[s] \in Task /\ Ancestors(up, s) = {up[s]} \cup Ancestors(up, up[s])
  BY <1>4, PathStep, AncestorsStep, NullAssumption
<1> HIDE DEF P, base, wrong
<1>10. CASE s = t
  <2>1. CASE p = Null
    BY <1>1, <1>4, <1>5, <1>8, <1>10, <2>1 DEF base
  <2>2. CASE p # Null
    <3>1. p \in Task /\ t \notin Ancestors(up, p)
      BY <2>2 DEF Below
    <3>2. P(p) = PathAt(up, p)
      BY <1>5, <1>6, <3>1
    <3>3. PathAt(new, s) = Append(PathAt(up, p), p)
      BY <1>1, <1>4, <1>8, <1>10, <2>2, <3>2
    <3>4. QED
      BY <1>4, <1>5, <1>10, <2>2, <3>3 DEF base
  <2>3. QED
    BY <2>1, <2>2
<1>11. CASE s # t /\ up[s] = Null
  <2>1. new[s] = Null
    BY <1>1, <1>4, <1>11
  <2>2. P(s) = PathAt(up, s)
    BY <1>4, <1>5, <1>6, <1>9, <1>11
  <2>3. QED
    BY <1>4, <1>8, <1>9, <1>11, <2>1, <2>2
<1>12. CASE s # t /\ up[s] = t
  <2>1. new[s] = t /\ t # Null
    BY <1>1, <1>4, <1>12, NullAssumption
  <2>2. PathAt(new, s) = Append(base, t)
    BY <1>4, <1>5, <1>8, <2>1
  <2>3. t \in ToSet(PathAt(up, s)) /\ PathAt(up, s) = Append(PathAt(up, t), t)
    BY <1>4, <1>6, <1>9, <1>12, <2>1
  <2> DEFINE w == PathAt(up, t)
  <2>4. w \in Seq(Task)
    BY <1>6
  <2>5. P(s) = base \o SubSeq(PathAt(up, s), Len(w) + 1, Len(PathAt(up, s)))
    BY <1>4, <1>5, <1>12, <2>3
  <2>6. PathAt(up, s) = Append(w, t)
    BY <2>3
  <2> HIDE DEF w
  <2>7. Len(Append(w, t)) = Len(w) + 1 /\ Len(w) \in 0..Len(w) /\ SubSeq(w, Len(w) + 1, Len(w)) = <<>>
    BY <2>4
  <2>8. base \o SubSeq(Append(w, t), Len(w) + 1, Len(w) + 1) = Append(base \o SubSeq(w, Len(w) + 1, Len(w)), t)
    BY <1>7, <2>4, <2>7, EndOfPath
  <2>9. base \o <<>> = base
    BY <1>7
  <2>10. P(s) = Append(base, t)
    BY <2>5, <2>6, <2>7, <2>8, <2>9
  <2>11. QED
    BY <1>4, <2>2, <2>10
<1>13. CASE s # t /\ up[s] # Null /\ up[s] # t
  <2> DEFINE u == up[s]
             w == PathAt(up, u)
             m == Len(PathAt(up, t))
  <2>1. new[s] = u /\ u \in Task /\ u # Null /\ u # t
    BY <1>1, <1>4, <1>9, <1>13
  <2>2. PathAt(new, s) = Append(P(u), u)
    BY <1>4, <1>8, <2>1
  <2>3. PathAt(up, s) = Append(w, u) /\ Ancestors(up, s) = {u} \cup Ancestors(up, u) /\ w \in Seq(Task)
    BY <1>6, <1>9, <1>13
  <2>4. CASE t \notin Ancestors(up, u)
    <3>1. P(u) = w
      BY <1>5, <1>6, <2>1, <2>4
    <3>2. P(s) = PathAt(up, s)
      BY <1>4, <1>5, <1>6, <1>13, <2>1, <2>3, <2>4
    <3>3. QED
      BY <1>4, <2>2, <2>3, <3>1, <3>2
  <2>5. CASE t \in Ancestors(up, u)
    <3>1. P(u) = base \o SubSeq(w, m + 1, Len(w))
      BY <1>5, <1>6, <2>1, <2>5
    <3>2. P(s) = base \o SubSeq(PathAt(up, s), m + 1, Len(PathAt(up, s)))
      BY <1>4, <1>5, <1>6, <1>13, <2>3, <2>5
    <3>3. m \in 0..Len(w)
      <4>1. m = Depth(up, t) /\ Len(w) = Depth(up, u)
        BY <2>1, PathIs
      <4>2. Depth(up, t) \in 0..(Depth(up, u) - 1) /\ Depth(up, u) \in Nat
        BY <2>1, <2>5, DepthIs
      <4>3. QED
        BY <4>1, <4>2
    <3> HIDE DEF w, m, u
    <3>4. Len(PathAt(up, s)) = Len(w) + 1
      BY <2>1, <2>3
    <3>5. base \o SubSeq(Append(w, u), m + 1, Len(w) + 1) = Append(base \o SubSeq(w, m + 1, Len(w)), u)
      <4>1. base \in Seq(Task) /\ w \in Seq(Task) /\ u \in Task /\ m \in 0..Len(w)
        BY <1>7, <2>1, <2>3, <3>3
      <4>2. QED
        BY <4>1, EndOfPath
    <3>6. P(s) = Append(P(u), u)
      BY <2>3, <3>1, <3>2, <3>4, <3>5
    <3>7. QED
      BY <1>4, <2>2, <3>6
  <2>6. QED
    BY <2>4, <2>5
<1>14. QED
  BY <1>10, <1>11, <1>12, <1>13

-----------------------------------------------------------------------------
(* What is shown of a list, and a move in it.                              *)

\* A list with the same rows but for their paths.
SameRowsAs(new, tasks) ==
  /\ IsList(new) /\ DOMAIN new = DOMAIN tasks
  /\ \A s \in DOMAIN tasks : new[s].up = tasks[s].up /\ new[s].order = tasks[s].order /\ new[s].done = tasks[s].done

WithPaths(new, tasks, path) ==
  /\ DOMAIN new = DOMAIN tasks /\ new = [s \in DOMAIN tasks |-> new[s]]
  /\ \A s \in DOMAIN tasks : new[s] = [tasks[s] EXCEPT !.path = path[s]]

\* Other paths make no other row.
LEMMA OtherPaths ==
  ASSUME NEW tasks, IsList(tasks), NEW path, NEW new,
         WithPaths(new, tasks, path)
  PROVE  SameRowsAs(new, tasks) /\ \A s \in DOMAIN tasks : new[s].path = path[s]
<1>1. ASSUME NEW s \in DOMAIN tasks
      PROVE  new[s] = [up |-> tasks[s].up, order |-> tasks[s].order, done |-> tasks[s].done, path |-> path[s]]
  <2>1. tasks[s] = [up |-> tasks[s].up, order |-> tasks[s].order, done |-> tasks[s].done, path |-> tasks[s].path]
    BY DEF IsList, IsRow
  <2>2. new[s] = [tasks[s] EXCEPT !.path = path[s]]
    BY DEF WithPaths
  <2>3. QED
    BY <2>1, <2>2
<1>2. ASSUME NEW s \in DOMAIN tasks PROVE IsRow(new[s])
  <2>1. PICK a, b, c, d : new[s] = [up |-> a, order |-> b, done |-> c, path |-> d]
    BY <1>1
  <2>2. new[s].up = a /\ new[s].order = b /\ new[s].done = c /\ new[s].path = d
    BY <2>1
  <2>3. QED
    BY <2>1, <2>2 DEF IsRow
<1>3. DOMAIN new = DOMAIN tasks /\ new = [s \in DOMAIN tasks |-> new[s]]
  BY DEF WithPaths
<1>4. IsList(new)
  BY <1>2, <1>3 DEF IsList
<1>5. QED
  BY <1>1, <1>3, <1>4 DEF SameRowsAs

\* The same rows show the same lines.
LEMMA SameRowsShow ==
  ASSUME NEW tasks, IsList(tasks), OwnNumbers(tasks), NEW new, SameRowsAs(new, tasks)
  PROVE  OwnNumbers(new) /\ Alike(new, tasks) /\ \A p : Siblings(new, p) = Siblings(tasks, p)
<1>1. OwnNumbers(new)
  BY DEF SameRowsAs, OwnNumbers
<1>2. ASSUME NEW p PROVE Siblings(new, p) = Siblings(tasks, p)
  <2>1. KidsOf(new, p) = KidsOf(tasks, p) /\ \A x \in KidsOf(tasks, p) : new[x].order = tasks[x].order
    BY DEF KidsOf, SameRowsAs
  <2>2. IsFiniteSet(KidsOf(tasks, p)) /\ Distinct(tasks, KidsOf(tasks, p))
    BY KidsAre
  <2>3. QED
    BY <2>1, <2>2, SameNumbers DEF Siblings
<1>3. Alike(new, tasks)
  BY <1>2 DEF Alike, SameRowsAs
<1>4. QED
  BY <1>1, <1>2, <1>3

\* The browser's list as it comes from the server.
LEMMA LoadedRows ==
  ASSUME NEW tasks, IsTree(tasks), OwnNumbers(tasks)
  PROVE  /\ IsList(Loaded(tasks)) /\ OwnNumbers(Loaded(tasks)) /\ Alike(Loaded(tasks), tasks)
         /\ \A s \in DOMAIN tasks : Loaded(tasks)[s].path = PathAt(Parents(tasks), s)
         /\ \A s \in DOMAIN tasks : Loaded(tasks)[s].up = tasks[s].up /\ Loaded(tasks)[s].order = tasks[s].order
<1> DEFINE path == [s \in DOMAIN tasks |-> PathAt(Parents(tasks), s)]
           new == Loaded(tasks)
<1>1. IsList(tasks)
  BY DEF IsTree
<1>2. WithPaths(new, tasks, path)
  BY DEF Loaded, WithPaths
<1>3. \A s \in DOMAIN tasks : path[s] = PathAt(Parents(tasks), s)
  OBVIOUS
<1> HIDE DEF path, new
<1>4. SameRowsAs(new, tasks) /\ \A s \in DOMAIN tasks : new[s].path = path[s]
  BY <1>1, <1>2, OtherPaths
<1>5. OwnNumbers(new) /\ Alike(new, tasks)
  BY <1>1, <1>4, SameRowsShow
<1>6. QED
  BY <1>3, <1>4, <1>5 DEF SameRowsAs, new

\* Two lists show the same if they are alike and have the same paths.
LEMMA ShowsIs ==
  ASSUME NEW a, NEW b, IsList(a), IsList(b), OwnNumbers(a), OwnNumbers(b),
         \A x \in DOMAIN b : b[x].up \in DOMAIN b \cup {Null}
  PROVE  Arrangement(a) = Arrangement(b) <=> Alike(a, b) /\ \A x \in DOMAIN b : a[x].path = b[x].path
<1>1. DOMAIN a \in SUBSET Task /\ DOMAIN b \in SUBSET Task /\ Null \notin DOMAIN a /\ Null \notin DOMAIN b
  BY NullAssumption DEF IsList
<1>2. ASSUME Arrangement(a) = Arrangement(b)
      PROVE  Alike(a, b) /\ \A x \in DOMAIN b : a[x].path = b[x].path
  <2>1. /\ [p \in DOMAIN a \cup {Null} |-> Siblings(a, p)] = [p \in DOMAIN b \cup {Null} |-> Siblings(b, p)]
        /\ DoneIn(a) = DoneIn(b)
        /\ [x \in DOMAIN a |-> a[x].path] = [x \in DOMAIN b |-> b[x].path]
    BY <1>2 DEF Arrangement
  <2>2. DOMAIN a = DOMAIN b
    <3>1. DOMAIN [x \in DOMAIN a |-> a[x].path] = DOMAIN [x \in DOMAIN b |-> b[x].path]
      BY <2>1
    <3>2. QED
      BY <3>1
  <2>3. ASSUME NEW x \in DOMAIN b PROVE a[x].path = b[x].path
    <3>1. [y \in DOMAIN a |-> a[y].path][x] = [y \in DOMAIN b |-> b[y].path][x]
      BY <2>1
    <3>2. QED
      BY <2>2, <3>1
  <2>4. ASSUME NEW p \in DOMAIN b \cup {Null} PROVE Siblings(a, p) = Siblings(b, p)
    <3>1. [q \in DOMAIN a \cup {Null} |-> Siblings(a, q)][p] = [q \in DOMAIN b \cup {Null} |-> Siblings(b, q)][p]
      BY <2>1
    <3>2. QED
      BY <2>2, <3>1
  <2>5. ASSUME NEW x \in DOMAIN b PROVE a[x].up = b[x].up
    <3>1. b[x].up \in DOMAIN b \cup {Null} /\ x \in KidsOf(b, b[x].up)
      BY DEF KidsOf
    <3>2. ToSet(Siblings(a, b[x].up)) = KidsOf(a, b[x].up) /\ ToSet(Siblings(b, b[x].up)) = KidsOf(b, b[x].up)
      BY KidsAre DEF IsLine
    <3>3. x \in KidsOf(a, b[x].up)
      BY <2>4, <3>1, <3>2
    <3>4. QED
      BY <3>3 DEF KidsOf
  <2>6. ASSUME NEW x \in DOMAIN b PROVE a[x].done <=> b[x].done
    BY <2>1, <2>2 DEF DoneIn
  <2>7. QED
    BY <2>2, <2>3, <2>4, <2>5, <2>6 DEF Alike
<1>3. ASSUME Alike(a, b), \A x \in DOMAIN b : a[x].path = b[x].path
      PROVE  Arrangement(a) = Arrangement(b)
  <2>1. DOMAIN a = DOMAIN b
    BY <1>3 DEF Alike
  <2>2. [p \in DOMAIN a \cup {Null} |-> Siblings(a, p)] = [p \in DOMAIN b \cup {Null} |-> Siblings(b, p)]
    <3>1. \A p \in DOMAIN b \cup {Null} : Siblings(a, p) = Siblings(b, p)
      BY <1>3 DEF Alike
    <3>2. QED
      BY <2>1, <3>1
  <2>3. DoneIn(a) = DoneIn(b)
    BY <1>3 DEF DoneIn, Alike
  <2>4. [x \in DOMAIN a |-> a[x].path] = [x \in DOMAIN b |-> b[x].path]
    BY <1>3, <2>1
  <2>5. QED
    BY <2>2, <2>3, <2>4 DEF Arrangement
<1>4. QED
  BY <1>2, <1>3

\* What a list shows of a tree.
Sees(a, b) == Alike(a, b) /\ \A x \in DOMAIN b : a[x].path = PathAt(Parents(b), x)

\* It shows what there is if it has its lines and paths.
LEMMA SeesIs ==
  ASSUME NEW a, NEW b, IsList(a), OwnNumbers(a), IsTree(b), OwnNumbers(b)
  PROVE  Arrangement(a) = Arrangement(Loaded(b)) <=> Sees(a, b)
<1> DEFINE L == Loaded(b)
<1>1. /\ IsList(L) /\ OwnNumbers(L) /\ Alike(L, b)
      /\ \A s \in DOMAIN b : L[s].path = PathAt(Parents(b), s)
  BY LoadedRows
<1> HIDE DEF L
<1>2. \A x \in DOMAIN L : L[x].up \in DOMAIN L \cup {Null}
  BY <1>1 DEF Alike, IsTree
<1>3. Arrangement(a) = Arrangement(L) <=> Alike(a, L) /\ \A x \in DOMAIN L : a[x].path = L[x].path
  BY <1>1, <1>2, ShowsIs
<1>4. Alike(a, L) <=> Alike(a, b)
  BY <1>1 DEF Alike
<1>5. DOMAIN L = DOMAIN b
  BY <1>1 DEF Alike
<1>6. QED
  BY <1>1, <1>3, <1>4, <1>5 DEF Sees, L

\* The ancestors that applyMove gives a task.
MovedPath(tasks, t, p, s) ==
  LET base == IF p \notin DOMAIN tasks THEN <<>> ELSE Append(tasks[p].path, p) IN
  IF s = t THEN base
  ELSE IF t \in ToSet(tasks[s].path)
  THEN base \o SubSeq(tasks[s].path, Len(tasks[t].path) + 1, Len(tasks[s].path))
  ELSE tasks[s].path

\* But for the ancestors applyMove does what move_task does.
LEMMA ApplyMoveRows ==
  ASSUME NEW tasks, IsList(tasks), NEW t \in DOMAIN tasks, NEW p, NEW i
  PROVE  /\ SameRowsAs(ApplyMove(tasks, t, p, i), Moved(tasks, t, p, i))
         /\ \A s \in DOMAIN tasks : ApplyMove(tasks, t, p, i)[s].path = MovedPath(tasks, t, p, s)
<1> DEFINE new == ApplyMove(tasks, t, p, i)
           mid == Moved(tasks, t, p, i)
           path == [s \in DOMAIN tasks |-> MovedPath(tasks, t, p, s)]
<1>1. IsList(mid) /\ DOMAIN mid = DOMAIN tasks
  BY MovedIs
<1>2. new = [s \in DOMAIN tasks |-> [mid[s] EXCEPT !.path = MovedPath(tasks, t, p, s)]]
  BY DEF ApplyMove, MovedPath
<1>3. \A s \in DOMAIN tasks : path[s] = MovedPath(tasks, t, p, s)
  OBVIOUS
<1> HIDE DEF new, mid, path
<1>4. WithPaths(new, mid, path)
  BY <1>1, <1>2, <1>3 DEF WithPaths
<1>5. SameRowsAs(new, mid) /\ \A s \in DOMAIN mid : new[s].path = path[s]
  BY <1>1, <1>4, OtherPaths
<1>6. QED
  BY <1>1, <1>3, <1>5 DEF new, mid

\* The list stays one in which siblings have numbers of their own.
LEMMA ApplyMoveKeeps ==
  ASSUME NEW tasks, IsList(tasks), OwnNumbers(tasks), NEW t, NEW p, NEW i \in Nat
  PROVE  IsList(ApplyMove(tasks, t, p, i)) /\ OwnNumbers(ApplyMove(tasks, t, p, i))
<1>1. CASE t \notin DOMAIN tasks
  BY <1>1 DEF ApplyMove
<1>2. CASE t \in DOMAIN tasks
  <2>1. SameRowsAs(ApplyMove(tasks, t, p, i), Moved(tasks, t, p, i))
    BY <1>2, ApplyMoveRows
  <2>2. IsList(Moved(tasks, t, p, i)) /\ OwnNumbers(Moved(tasks, t, p, i))
    BY <1>2, MovedIs, MovedLines
  <2>3. QED
    BY <2>1, <2>2, SameRowsShow DEF SameRowsAs
<1>3. QED
  BY <1>1, <1>2

\* Applied to what the browser shows of a tree, it shows what the server makes
\* of the tree.
LEMMA MoveShows ==
  ASSUME NEW a, NEW b, IsList(a), OwnNumbers(a), IsTree(b), OwnNumbers(b), Sees(a, b),
         NEW t \in DOMAIN b, NEW p, NEW i \in Nat,
         p = Null \/ (p \in DOMAIN b /\ p # t /\ p \notin Under(b, t))
  PROVE  Sees(ApplyMove(a, t, p, i), Moved(b, t, p, i))
<1> DEFINE one == ApplyMove(a, t, p, i)
           two == Moved(b, t, p, i)
           up == Parents(b)
<1>1. DOMAIN a = DOMAIN b /\ Alike(a, b) /\ IsList(b) /\ DOMAIN b \in SUBSET Task
      /\ (\A x \in DOMAIN b : b[x].up \in DOMAIN b \cup {Null}) /\ Null \notin DOMAIN b
  BY NullAssumption DEF Sees, Alike, IsTree, IsList
<1>2. Alike(Moved(a, t, p, i), two)
  BY <1>1, MovedAlike
<1>3. SameRowsAs(one, Moved(a, t, p, i)) /\ \A s \in DOMAIN b : one[s].path = MovedPath(a, t, p, s)
  BY <1>1, ApplyMoveRows
<1>4. IsList(Moved(a, t, p, i)) /\ OwnNumbers(Moved(a, t, p, i))
  BY <1>1, MovedIs, MovedLines
<1>5. Alike(one, Moved(a, t, p, i))
  BY <1>3, <1>4, SameRowsShow
<1>6. DOMAIN two = DOMAIN b /\ Parents(two) = [up EXCEPT ![t] = p]
  BY MoveKeepsTree
<1> HIDE DEF one, two
<1>7. Alike(one, two)
  BY <1>2, <1>5 DEF Alike
<1>8. /\ up \in [Task -> Task \cup {Null}] /\ Rooted(up) /\ t \in Task /\ p \in Task \cup {Null} /\ p # t
      /\ p \notin Below(up, t)
  <2>1. up \in [Task -> Task \cup {Null}] /\ Rooted(up)
    BY ParentsAre
  <2>2. Null \notin Below(up, t)
    BY NullAssumption DEF Below
  <2>3. QED
    BY <1>1, <2>1, <2>2, NullAssumption DEF Under
<1>9. \A s \in DOMAIN b : a[s].path = PathAt(up, s)
  BY DEF Sees
<1> HIDE DEF up
<1>10. \A s \in DOMAIN b : MovedPath(a, t, p, s) = PathAfter(up, t, p, s)
  <2>1. (IF p \notin DOMAIN a THEN <<>> ELSE Append(a[p].path, p))
          = (IF p = Null THEN <<>> ELSE Append(PathAt(up, p), p))
    BY <1>1, <1>9
  <2>2. QED
    BY <1>9, <2>1 DEF MovedPath, PathAfter
<1>11. \A s \in Task : PathAfter(up, t, p, s) = PathAt([up EXCEPT ![t] = p], s)
  BY <1>8, PathAfterIs
<1>12. \A s \in DOMAIN two : one[s].path = PathAt(Parents(two), s)
  BY <1>1, <1>3, <1>6, <1>10, <1>11
<1>13. QED
  BY <1>7, <1>12 DEF Sees, one, two

-----------------------------------------------------------------------------
(* Taken back.                                                             *)

\* A task taken out of a line again.
LEMMA TakenOut ==
  ASSUME NEW tasks, NEW S, NEW t, t \notin S, Distinct(tasks, S \cup {t}), NEW w, IsLine(w, S), NEW i \in Nat,
         InOrder(tasks, S \cup {t}) = Inserted(w, i, t)
  PROVE  InOrder(tasks, S) = w
<1> DEFINE q == Inserted(w, i, t)
           k == Least(i, Len(w))
<1>1. IsFiniteSet(S) /\ IsFiniteSet(S \cup {t}) /\ Distinct(tasks, S)
  BY LineHasAll, FS_AddElement DEF Distinct
<1>2. IsLine(q, S \cup {t}) /\ Rising(tasks, q)
  BY <1>1, InOrderRises
<1>3. \A x, y \in S \cup {t} : tasks[x].order < tasks[y].order <=> IndexOf(q, x) < IndexOf(q, y)
  BY <1>2, RisingOrder
<1>4. /\ Len(w) \in Nat /\ k \in 0..Len(w)
      /\ \A j \in 1..Len(w) : w[j] \in S /\ IndexOf(q, w[j]) = IF j <= k THEN j - 1 ELSE j
  <2>1. w \in Seq(S \cup {t}) /\ ToSet(w) = S /\ \A j, m \in 1..Len(w) : w[j] = w[m] => j = m
    BY LineIs DEF IsLine
  <2>2. \A j \in 1..Len(w) : w[j] \in S
    BY LineIs
  <2>3. Len(w) \in Nat /\ k \in 0..Len(w)
    BY <2>1, InsertedIs
  <2>4. \A j \in 1..Len(w) : IndexOf(Inserted(w, i, t), w[j]) = IF j <= Least(i, Len(w)) THEN j - 1 ELSE j
    BY <2>1, IndexInserted
  <2>5. QED
    BY <2>2, <2>3, <2>4
<1> HIDE DEF q, k
<1>5. Rising(tasks, w)
  <2>1. SUFFICES ASSUME NEW j \in 1..Len(w), NEW m \in 1..Len(w), j < m
                 PROVE  tasks[w[j]].order < tasks[w[m]].order
    BY DEF Rising
  <2>2. IndexOf(q, w[j]) < IndexOf(q, w[m])
    <3>1. IndexOf(q, w[j]) = IF j <= k THEN j - 1 ELSE j
      BY <1>4
    <3>2. IndexOf(q, w[m]) = IF m <= k THEN m - 1 ELSE m
      BY <1>4
    <3>3. QED
      BY <1>4, <2>1, <3>1, <3>2
  <2>3. QED
    BY <1>3, <1>4, <2>2
<1>6. QED
  BY <1>1, <1>5, RisingIs

\* A task put back at its place.
LEMMA PutBack ==
  ASSUME NEW tasks, NEW S, IsFiniteSet(S), Distinct(tasks, S), NEW t \in S
  PROVE  /\ Place(tasks, S, t) \in Nat
         /\ Inserted(InOrder(tasks, S \ {t}), Place(tasks, S, t), t) = InOrder(tasks, S)
<1> DEFINE R == S \ {t}
           w == InOrder(tasks, R)
           r == Place(tasks, S, t)
           q == Inserted(w, r, t)
           n == Len(w)
<1>1. IsFiniteSet(R) /\ Distinct(tasks, R) /\ IsFiniteSet(R \cup {t}) /\ R \cup {t} = S /\ t \notin R
  BY FS_Subset DEF Distinct
<1>2. IsLine(w, R) /\ Rising(tasks, w)
  BY <1>1, InOrderRises
<1>3. Cardinality(S) = n + 1 /\ n \in Nat
  <2>1. Cardinality(R) = n /\ n \in Nat
    BY <1>2, LineHasAll, LineIs
  <2>2. Cardinality(R \cup {t}) = Cardinality(R) + 1
    BY <1>1, FS_AddElement
  <2>3. QED
    BY <1>1, <2>1, <2>2
<1>4. r \in 0..n
  <2>1. r \in 0..(Cardinality(S) - 1)
    BY PlaceIs
  <2> HIDE DEF r, n
  <2>2. QED
    BY <1>3, <2>1
<1>5. \A j \in 1..n : w[j] \in R /\ Place(tasks, R, w[j]) = j - 1
  <2>1. \A j \in 1..n : w[j] \in R /\ IndexOf(w, w[j]) = j - 1
    BY <1>2, LineIs
  <2>2. \A x \in R : IndexOf(w, x) = Place(tasks, R, x)
    BY <1>1, InOrderIs
  <2>3. QED
    BY <2>1, <2>2
<1>6. \A x \in S : tasks[x].order \in Nat /\ (tasks[x].order = tasks[t].order => x = t)
  BY DEF Distinct
<1>7. \A x, y \in S : Place(tasks, S, x) < Place(tasks, S, y) <=> tasks[x].order < tasks[y].order
  BY PlaceIs
<1> HIDE DEF n, r
<1>8. ASSUME NEW j \in 1..n
      PROVE  IF j <= r THEN tasks[w[j]].order < tasks[t].order ELSE tasks[t].order < tasks[w[j]].order
  <2> DEFINE x == w[j]
  <2>1. x \in R /\ x \in S /\ x # t /\ Place(tasks, R, x) = j - 1 /\ tasks[x].order \in Nat /\ tasks[t].order \in Nat
        /\ tasks[x].order # tasks[t].order
    BY <1>5, <1>6
  <2> HIDE DEF x
  <2>2. CASE tasks[x].order < tasks[t].order
    <3>1. Before(tasks, S, x) = Before(tasks, R, x)
      BY <1>6, <2>1, <2>2 DEF Before
    <3>2. Place(tasks, S, x) = j - 1
      BY <2>1, <3>1 DEF Place
    <3>3. Place(tasks, S, x) < r
      BY <1>7, <2>1, <2>2 DEF r
    <3>4. j <= r
      BY <1>3, <1>4, <3>2, <3>3
    <3>5. QED
      BY <2>2, <3>4 DEF x
  <2>3. CASE tasks[t].order < tasks[x].order
    <3>1. Before(tasks, S, x) = Before(tasks, R, x) \cup {t} /\ t \notin Before(tasks, R, x)
      BY <2>3 DEF Before
    <3>2. IsFiniteSet(Before(tasks, R, x))
      BY <1>1, FS_Subset DEF Before
    <3>3. Place(tasks, S, x) = (j - 1) + 1
      BY <2>1, <3>1, <3>2, FS_AddElement DEF Place
    <3>4. r < Place(tasks, S, x)
      BY <1>7, <2>1, <2>3 DEF r
    <3>5. ~ (j <= r)
      BY <1>3, <1>4, <3>3, <3>4
    <3>6. QED
      BY <2>3, <3>5 DEF x
  <2>4. QED
    BY <2>1, <2>2, <2>3
<1>9. r \in Nat /\ Least(r, n) = r
  BY <1>3, <1>4 DEF Least
<1> HIDE DEF w
<1>10. IsLine(q, S)
  BY <1>1, <1>2, <1>9, InsertedIsLine
<1>11. /\ Len(q) = n + 1
       /\ \A j \in 1..n + 1 : q[j] = IF j <= r THEN w[j] ELSE IF j = r + 1 THEN t ELSE w[j - 1]
  <2>1. w \in Seq(S) /\ r \in Nat
    BY <1>1, <1>2, <1>9 DEF IsLine
  <2>2. Len(Inserted(w, r, t)) = Len(w) + 1
    BY <2>1, InsertedIs
  <2>3. \A j \in 1..Len(w) + 1 :
             Inserted(w, r, t)[j] = IF j <= Least(r, Len(w)) THEN w[j]
                                    ELSE IF j = Least(r, Len(w)) + 1 THEN t ELSE w[j - 1]
    BY <2>1, InsertedIs
  <2>4. QED
    BY <1>9, <2>2, <2>3 DEF n
<1> HIDE DEF q
<1>12. Rising(tasks, q)
  <2>1. SUFFICES ASSUME NEW j \in 1..n + 1, NEW m \in 1..n + 1, j < m
                 PROVE  tasks[q[j]].order < tasks[q[m]].order
    BY <1>11 DEF Rising
  <2>2. \A a, b \in 1..n : a < b => tasks[w[a]].order < tasks[w[b]].order
    BY <1>2 DEF Rising, n
  <2>3. CASE m <= r
    <3>1. j \in 1..n /\ m \in 1..n /\ q[j] = w[j] /\ q[m] = w[m]
      BY <1>3, <1>4, <1>11, <2>1, <2>3
    <3>2. QED
      BY <2>1, <2>2, <3>1
  <2>4. CASE m = r + 1
    <3>1. j \in 1..n /\ j <= r /\ q[j] = w[j] /\ q[m] = t
      BY <1>3, <1>4, <1>11, <2>1, <2>4
    <3>2. QED
      BY <1>8, <3>1
  <2>5. CASE m > r + 1
    <3>1. m - 1 \in 1..n /\ ~ (m - 1 <= r) /\ q[m] = w[m - 1]
      BY <1>3, <1>4, <1>11, <2>1, <2>5
    <3>2. CASE j <= r
      <4>1. j \in 1..n /\ j < m - 1 /\ q[j] = w[j]
        BY <1>3, <1>4, <1>11, <2>1, <2>5, <3>2
      <4>2. QED
        BY <2>2, <3>1, <4>1
    <3>3. CASE j = r + 1
      <4>1. q[j] = t
        BY <1>3, <1>4, <1>11, <2>1, <3>3
      <4>2. QED
        BY <1>8, <3>1, <4>1
    <3>4. CASE j > r + 1
      <4>1. j - 1 \in 1..n /\ j - 1 < m - 1 /\ q[j] = w[j - 1]
        BY <1>3, <1>4, <1>11, <2>1, <3>4
      <4>2. QED
        BY <2>2, <3>1, <4>1
    <3>5. QED
      BY <1>4, <3>2, <3>3, <3>4
  <2>6. QED
    BY <1>4, <2>3, <2>4, <2>5
<1>13. InOrder(tasks, S) = q
  BY <1>10, <1>12, RisingIs
<1>14. QED
  BY <1>9, <1>13 DEF q, w, r

\* Alike lists have the same tasks below each.
LEMMA AlikeKids ==
  ASSUME NEW a, NEW b, Alike(a, b)
  PROVE  \A q : KidsOf(a, q) = KidsOf(b, q)
BY DEF KidsOf, Alike

\* Moved back to where it was, the task leaves the tree as it was.
LEMMA MoveBack ==
  ASSUME NEW l, IsTree(l), OwnNumbers(l), NEW t \in DOMAIN l, NEW p, NEW i \in Nat,
         p = Null \/ (p \in DOMAIN l /\ p # t /\ p \notin Under(l, t)),
         NEW b, IsTree(b), OwnNumbers(b), Alike(b, Moved(l, t, p, i))
  PROVE  /\ CurrentPosition(l, t).index \in Nat
         /\ Alike(Moved(b, t, CurrentPosition(l, t).up, CurrentPosition(l, t).index), l)
<1> DEFINE u == l[t].up
           r == Place(l, KidsOf(l, u), t)
           m == Moved(l, t, p, i)
           D == DOMAIN l \cup {Null}
<1>1. /\ IsList(l) /\ IsList(b) /\ u \in D /\ p \in D
      /\ DOMAIN m = DOMAIN l
      /\ \A s \in DOMAIN l : m[s].up = (IF s = t THEN p ELSE l[s].up) /\ m[s].done = l[s].done
  <2>1. IsList(l) /\ IsList(b) /\ u \in D /\ p \in D
    BY DEF IsTree
  <2>2. /\ DOMAIN m = DOMAIN l
        /\ \A s \in DOMAIN l : m[s].up = (IF s = t THEN p ELSE l[s].up) /\ m[s].done = l[s].done
    BY <2>1, MovedIs
  <2>3. QED
    BY <2>1, <2>2
<1>2. CurrentPosition(l, t) = [up |-> u, index |-> r]
  BY DEF CurrentPosition, Place
<1>3. \A q : Siblings(m, q) = LineAfter(l, t, p, i, q)
  BY <1>1, MovedLines
<1> HIDE DEF m
<1>4. /\ DOMAIN b = DOMAIN l /\ b[t].up = p
      /\ \A s \in DOMAIN l : b[s].up = (IF s = t THEN p ELSE l[s].up) /\ (b[s].done <=> l[s].done)
      /\ \A q \in D : Siblings(b, q) = LineAfter(l, t, p, i, q)
  BY <1>1, <1>3 DEF Alike, m
<1>5. \A q : KidsOf(b, q) = {s \in DOMAIN l : (IF s = t THEN p ELSE l[s].up) = q}
  BY <1>4 DEF KidsOf
<1>6. \A q : KidsOf(l, q) = {s \in DOMAIN l : l[s].up = q}
  BY DEF KidsOf
<1>7. ASSUME NEW q \in D PROVE SiblingsWithout(b, q, t) = SiblingsWithout(l, q, t)
  <2>1. KidsOf(b, q) \ {t} = KidsOf(l, q) \ {t}
    BY <1>5, <1>6
  <2>2. CASE q = p
    <3> DEFINE K == KidsOf(l, q) \ {t}
               w == SiblingsWithout(l, q, t)
    <3>1. KidsOf(b, q) = K \cup {t} /\ t \notin K
      BY <1>5, <1>6, <2>2
    <3>2. IsLine(w, K)
      BY <1>1, KidsAre
    <3>3. Distinct(b, KidsOf(b, q))
      BY <1>1, KidsAre
    <3>4. Siblings(b, q) = Inserted(w, i, t)
      BY <1>4, <2>2 DEF LineAfter, Placed
    <3> HIDE DEF K, w
    <3>5. Distinct(b, K \cup {t}) /\ InOrder(b, K \cup {t}) = Inserted(w, i, t)
      BY <3>1, <3>3, <3>4 DEF Siblings
    <3>6. InOrder(b, K) = w
      BY <3>1, <3>2, <3>5, TakenOut
    <3>7. QED
      BY <2>1, <3>6 DEF K, w, SiblingsWithout
  <2>3. CASE q # p /\ q = u
    <3>1. KidsOf(b, q) = KidsOf(b, q) \ {t}
      BY <1>5, <2>3
    <3>2. Siblings(b, q) = SiblingsWithout(l, q, t)
      BY <1>4, <2>3 DEF LineAfter
    <3>3. QED
      BY <3>1, <3>2 DEF Siblings, SiblingsWithout
  <2>4. CASE q # p /\ q # u
    <3>1. KidsOf(b, q) = KidsOf(b, q) \ {t} /\ KidsOf(l, q) = KidsOf(l, q) \ {t}
      BY <1>5, <1>6, <2>4
    <3>2. Siblings(b, q) = Siblings(l, q)
      BY <1>4, <2>4 DEF LineAfter
    <3>3. QED
      BY <3>1, <3>2 DEF Siblings, SiblingsWithout
  <2>5. QED
    BY <2>2, <2>3, <2>4
<1>8. r \in Nat /\ Inserted(SiblingsWithout(l, u, t), r, t) = Siblings(l, u)
  <2>1. IsFiniteSet(KidsOf(l, u)) /\ Distinct(l, KidsOf(l, u)) /\ t \in KidsOf(l, u)
    BY <1>1, <1>6, KidsAre
  <2> HIDE DEF u
  <2>2. r \in Nat
    BY <2>1, PutBack
  <2>3. Inserted(InOrder(l, KidsOf(l, u) \ {t}), r, t) = InOrder(l, KidsOf(l, u))
    BY <2>1, PutBack
  <2>4. QED
    BY <2>2, <2>3 DEF Siblings, SiblingsWithout
<1> HIDE DEF u, r
<1> DEFINE back == Moved(b, t, u, r)
<1>9. /\ DOMAIN back = DOMAIN l
      /\ \A s \in DOMAIN l : back[s].up = (IF s = t THEN u ELSE b[s].up) /\ back[s].done = b[s].done
  BY <1>1, <1>4, MovedIs
<1>10. \A q : Siblings(back, q) = LineAfter(b, t, u, r, q)
  BY <1>1, <1>4, <1>8, MovedLines
<1> HIDE DEF back
<1>11. ASSUME NEW q \in D PROVE Siblings(back, q) = Siblings(l, q)
  <2>1. CASE q = u
    <3>1. Siblings(back, q) = Inserted(SiblingsWithout(b, u, t), r, t)
      BY <1>10, <2>1 DEF LineAfter, Placed
    <3>2. QED
      BY <1>7, <1>8, <2>1, <3>1
  <2>2. CASE q # u /\ q = p
    <3>1. Siblings(back, q) = SiblingsWithout(b, q, t)
      BY <1>4, <1>10, <2>2 DEF LineAfter
    <3>2. KidsOf(l, q) \ {t} = KidsOf(l, q)
      BY <1>6, <2>2 DEF u
    <3>3. QED
      BY <1>7, <3>1, <3>2 DEF Siblings, SiblingsWithout
  <2>3. CASE q # u /\ q # p
    <3>1. Siblings(back, q) = Siblings(b, q)
      BY <1>4, <1>10, <2>3 DEF LineAfter
    <3>2. Siblings(b, q) = Siblings(l, q)
      BY <1>4, <2>3 DEF LineAfter, u
    <3>3. QED
      BY <3>1, <3>2
  <2>4. QED
    BY <2>1, <2>2, <2>3
<1>12. \A s \in DOMAIN l : back[s].up = l[s].up /\ (back[s].done <=> l[s].done)
  BY <1>4, <1>9 DEF u
<1>13. Alike(back, l)
  BY <1>9, <1>11, <1>12 DEF Alike
<1>14. QED
  BY <1>2, <1>8, <1>13 DEF back

\* Alike trees have the same parents.
LEMMA AlikeParents ==
  ASSUME NEW a, NEW b, Alike(a, b)
  PROVE  Parents(a) = Parents(b) /\ DoneIn(a) = DoneIn(b)
BY DEF Alike, Parents, DoneIn

\* A task lies at the same place in lists that show the same.
LEMMA AlikePlace ==
  ASSUME NEW a, NEW b, IsList(a), IsList(b), OwnNumbers(a), OwnNumbers(b), Alike(a, b), NEW t \in DOMAIN b,
         b[t].up \in DOMAIN b \cup {Null}
  PROVE  CurrentPosition(a, t) = CurrentPosition(b, t) /\ CurrentPosition(b, t).index \in Nat
<1> DEFINE u == b[t].up
           S == KidsOf(b, u)
<1>1. a[t].up = u /\ t \in S /\ KidsOf(a, u) = S
  BY AlikeKids DEF Alike, KidsOf
<1>2. IsFiniteSet(S) /\ Distinct(a, S) /\ Distinct(b, S)
  BY <1>1, KidsAre
<1>3. InOrder(a, S) = InOrder(b, S)
  BY <1>1 DEF Alike, Siblings
<1>4. CurrentPosition(a, t) = [up |-> u, index |-> Place(a, S, t)]
  BY <1>1 DEF CurrentPosition, Place
<1>5. CurrentPosition(b, t) = [up |-> u, index |-> Place(b, S, t)]
  BY DEF CurrentPosition, Place
<1> HIDE DEF S, u
<1>6. IndexOf(InOrder(a, S), t) = Place(a, S, t)
  BY <1>1, <1>2, InOrderIs
<1>7. IndexOf(InOrder(b, S), t) = Place(b, S, t)
  BY <1>1, <1>2, InOrderIs
<1>8. Place(b, S, t) \in 0..(Cardinality(S) - 1)
  BY <1>1, <1>2, PlaceIs
<1>9. QED
  BY <1>3, <1>4, <1>5, <1>6, <1>7, <1>8

\* A list that is like a tree is one.
LEMMA AlikeTree ==
  ASSUME NEW a, NEW b, IsList(a), IsTree(b), Alike(a, b)
  PROVE  IsTree(a)
<1>1. DOMAIN a = DOMAIN b /\ \A s \in DOMAIN b : a[s].up = b[s].up
  BY DEF Alike
<1>2. QED
  BY <1>1, SameParents

\* Trees are shown the same if they are alike.
LEMMA ShownAlike ==
  ASSUME NEW a, NEW b, IsTree(a), OwnNumbers(a), IsTree(b), OwnNumbers(b)
  PROVE  Arrangement(Loaded(a)) = Arrangement(Loaded(b)) <=> Alike(a, b)
<1> DEFINE la == Loaded(a)
<1>1. IsList(la) /\ OwnNumbers(la) /\ Alike(la, a) /\ \A s \in DOMAIN a : la[s].path = PathAt(Parents(a), s)
  BY LoadedRows
<1>2. Arrangement(la) = Arrangement(Loaded(b)) <=> Sees(la, b)
  BY <1>1, SeesIs
<1> HIDE DEF la
<1>3. ASSUME Sees(la, b) PROVE Alike(a, b)
  BY <1>1, <1>3 DEF Sees, Alike
<1>4. ASSUME Alike(a, b) PROVE Sees(la, b)
  <2>1. Alike(la, b)
    BY <1>1, <1>4 DEF Alike
  <2>2. Parents(a) = Parents(b) /\ DOMAIN a = DOMAIN b
    BY <1>4, AlikeParents DEF Alike
  <2>3. QED
    BY <1>1, <2>1, <2>2 DEF Sees
<1>5. QED
  BY <1>2, <1>3, <1>4 DEF la

\* A move of task t from a place, as what was shown before and after it.
MoveRecord(t, from, before, after) ==
  \E l, p : \E i \in Nat :
    /\ IsTree(l) /\ OwnNumbers(l) /\ t \in DOMAIN l
    /\ p = Null \/ (p \in DOMAIN l /\ p # t /\ p \notin Under(l, t))
    /\ before = Arrangement(Loaded(l)) /\ after = Arrangement(Loaded(Moved(l, t, p, i)))
    /\ from = CurrentPosition(l, t)

\* Back at that place, all is shown as before.
LEMMA MoveUndone ==
  ASSUME NEW b, IsTree(b), OwnNumbers(b), NEW t, NEW from, NEW before, NEW after,
         MoveRecord(t, from, before, after), after = Arrangement(Loaded(b))
  PROVE  Arrangement(Loaded(Moved(b, t, from.up, from.index))) = before
<1>1. PICK l, p : \E i \in Nat :
         /\ IsTree(l) /\ OwnNumbers(l) /\ t \in DOMAIN l
         /\ p = Null \/ (p \in DOMAIN l /\ p # t /\ p \notin Under(l, t))
         /\ before = Arrangement(Loaded(l)) /\ after = Arrangement(Loaded(Moved(l, t, p, i)))
         /\ from = CurrentPosition(l, t)
  BY DEF MoveRecord
<1>2. PICK i \in Nat :
         /\ IsTree(l) /\ OwnNumbers(l) /\ t \in DOMAIN l
         /\ p = Null \/ (p \in DOMAIN l /\ p # t /\ p \notin Under(l, t))
         /\ before = Arrangement(Loaded(l)) /\ after = Arrangement(Loaded(Moved(l, t, p, i)))
         /\ from = CurrentPosition(l, t)
  BY <1>1
<1> DEFINE m == Moved(l, t, p, i)
           back == Moved(b, t, from.up, from.index)
<1>3. IsList(l) /\ IsList(b)
  BY <1>2 DEF IsTree
<1>4. IsTree(m)
  BY <1>2, MoveKeepsTree
<1>5. OwnNumbers(m)
  BY <1>2, <1>3, MovedLines
<1>6. Alike(b, m)
  <2> HIDE DEF m
  <2>1. Arrangement(Loaded(b)) = Arrangement(Loaded(m))
    BY <1>2 DEF m
  <2>2. QED
    BY <1>4, <1>5, <2>1, ShownAlike
<1>7. DOMAIN b = DOMAIN l
  BY <1>2, <1>3, <1>6, MovedIs DEF Alike
<1>8. from.index \in Nat
  BY <1>2, <1>6, MoveBack
<1>9. Alike(back, l)
  BY <1>2, <1>6, MoveBack
<1>10. IsList(back)
  BY <1>2, <1>3, <1>7, MovedIs
<1>11. OwnNumbers(back)
  BY <1>2, <1>3, <1>7, <1>8, MovedLines
<1> HIDE DEF back, m
<1>12. IsTree(back)
  BY <1>2, <1>9, <1>10, AlikeTree
<1>13. Arrangement(Loaded(back)) = Arrangement(Loaded(l))
  BY <1>2, <1>9, <1>11, <1>12, ShownAlike
<1>14. QED
  BY <1>2, <1>13 DEF back

-----------------------------------------------------------------------------
(* Completing, and taking it back.                                         *)

\* What is done in a tree, after completing or reopening.
LEMMA SetDoneShows ==
  ASSUME NEW tasks, IsTree(tasks), OwnNumbers(tasks), NEW ts, ts \subseteq DOMAIN tasks, NEW to \in BOOLEAN
  PROVE  /\ IsTree(SetDone(tasks, ts, to)) /\ OwnNumbers(SetDone(tasks, ts, to))
         /\ DOMAIN SetDone(tasks, ts, to) = DOMAIN tasks
         /\ Parents(SetDone(tasks, ts, to)) = Parents(tasks)
         /\ \A s \in DOMAIN tasks : SetDone(tasks, ts, to)[s].up = tasks[s].up
         /\ \A q : Siblings(SetDone(tasks, ts, to), q) = Siblings(tasks, q)
         /\ DoneIn(SetDone(tasks, ts, to)) = IF to THEN DoneIn(tasks) \cup ts ELSE DoneIn(tasks) \ ts
<1> DEFINE new == SetDone(tasks, ts, to)
<1>1. IsList(tasks)
  BY DEF IsTree
<1>2. SameShape(new, tasks) /\ DoneAlso(new, tasks, ts, to)
  BY <1>1, SetDoneIs
<1> HIDE DEF new
<1>3. /\ IsList(new) /\ DOMAIN new = DOMAIN tasks
      /\ \A s \in DOMAIN tasks : new[s].up = tasks[s].up /\ new[s].order = tasks[s].order
  BY <1>2 DEF SameShape
<1>4. Parents(new) = Parents(tasks) /\ IsTree(new)
  BY <1>3, SameParents
<1>5. OwnNumbers(new)
  BY <1>3 DEF OwnNumbers
<1>6. ASSUME NEW q PROVE Siblings(new, q) = Siblings(tasks, q)
  <2>1. KidsOf(new, q) = KidsOf(tasks, q) /\ KidsOf(tasks, q) \subseteq DOMAIN tasks
    BY <1>3 DEF KidsOf
  <2>2. IsFiniteSet(KidsOf(tasks, q)) /\ Distinct(tasks, KidsOf(tasks, q))
    BY <1>1, KidsAre
  <2>3. \A x \in KidsOf(tasks, q) : new[x].order = tasks[x].order
    BY <1>3, <2>1
  <2>4. QED
    BY <2>1, <2>2, <2>3, SameNumbers DEF Siblings
<1>7. DoneIn(new) = IF to THEN DoneIn(tasks) \cup ts ELSE DoneIn(tasks) \ ts
  <2>1. \A s \in DOMAIN tasks : new[s].done = IF s \in ts THEN to ELSE tasks[s].done
    BY <1>2 DEF DoneAlso
  <2>2. \A s \in DOMAIN tasks : (s \in ts => new[s].done = to) /\ (s \notin ts => new[s].done = tasks[s].done)
    BY <2>1
  <2>3. CASE to = TRUE
    <3>1. \A s \in DOMAIN tasks : s \in DoneIn(new) <=> s \in DoneIn(tasks) \/ s \in ts
      BY <1>3, <2>2, <2>3 DEF DoneIn
    <3>2. DoneIn(new) \subseteq DOMAIN tasks /\ DoneIn(tasks) \subseteq DOMAIN tasks
      BY <1>3 DEF DoneIn
    <3>3. QED
      BY <2>3, <3>1, <3>2
  <2>4. CASE to = FALSE
    <3>1. \A s \in DOMAIN tasks : s \in DoneIn(new) <=> s \in DoneIn(tasks) /\ s \notin ts
      BY <1>3, <2>2, <2>4 DEF DoneIn
    <3>2. DoneIn(new) \subseteq DOMAIN tasks /\ DoneIn(tasks) \subseteq DOMAIN tasks
      BY <1>3 DEF DoneIn
    <3>3. QED
      BY <2>4, <3>1, <3>2
  <2>5. QED
    BY <2>3, <2>4
<1>8. QED
  BY <1>3, <1>4, <1>5, <1>6, <1>7 DEF new

\* Reopening right after completing reopens what was completed.
LEMMA ReopensCompleted ==
  ASSUME NEW up \in [Task -> Task \cup {Null}], Rooted(up), NEW t \in Task, NEW dn \in SUBSET Task,
         DownClosed(up, dn), t \notin dn
  PROVE  /\ Reopened(up, dn \cup ({t} \cup FinishedAncestors(up, dn, t)), t) = {t} \cup FinishedAncestors(up, dn, t)
         /\ ({t} \cup FinishedAncestors(up, dn, t)) \cap dn = {}
<1> DEFINE F == FinishedAncestors(up, dn, t)
           new == dn \cup ({t} \cup F)
<1>1. \A a \in F : a \in Ancestors(up, t) /\ a \notin dn
  BY DEF FinishedAncestors, Between
<1>2. \A a \in F : Between(up, t, a) \subseteq F
  BY FinishedBetween
<1>3. ASSUME NEW a \in Ancestors(up, t), Between(up, t, a) \subseteq new PROVE a \in F
  <2>1. a \in Between(up, t, a) /\ a \in Task
    BY DEF Between, Ancestors
  <2>2. a # t
    BY RootedNotOwn
  <2>3. t \in Below(up, a)
    BY DEF Below
  <2>4. a \notin dn
    BY <2>3 DEF DownClosed
  <2>5. QED
    BY <1>3, <2>1, <2>2, <2>4
<1> HIDE DEF F
<1>4. Reopened(up, new, t) = {t} \cup F
  BY <1>1, <1>2, <1>3 DEF Reopened
<1>5. QED
  BY <1>1, <1>4 DEF F

\* Completing task t, as what was shown before and after it.
DoneRecord(t, before, after) ==
  \E l :
    /\ IsTree(l) /\ OwnNumbers(l) /\ t \in DOMAIN l /\ t \notin DoneIn(l) /\ DownClosed(Parents(l), DoneIn(l))
    /\ before = Arrangement(Loaded(l))
    /\ after = Arrangement(Loaded(SetDone(l, {t} \cup FinishedAncestors(Parents(l), DoneIn(l), t), TRUE)))

\* Reopened, all is shown as before.
LEMMA DoneUndone ==
  ASSUME NEW b, IsTree(b), OwnNumbers(b), NEW t, NEW before, NEW after,
         DoneRecord(t, before, after), after = Arrangement(Loaded(b))
  PROVE  Arrangement(Loaded(SetDone(b, Reopened(Parents(b), DoneIn(b), t), FALSE))) = before
<1>1. PICK l :
         /\ IsTree(l) /\ OwnNumbers(l) /\ t \in DOMAIN l /\ t \notin DoneIn(l) /\ DownClosed(Parents(l), DoneIn(l))
         /\ before = Arrangement(Loaded(l))
         /\ after = Arrangement(Loaded(SetDone(l, {t} \cup FinishedAncestors(Parents(l), DoneIn(l), t), TRUE)))
  BY DEF DoneRecord
<1> DEFINE up == Parents(l)
           dn == DoneIn(l)
           X == {t} \cup FinishedAncestors(up, dn, t)
           m == SetDone(l, X, TRUE)
           back == SetDone(b, X, FALSE)
<1>2. up \in [Task -> Task \cup {Null}] /\ Rooted(up) /\ \A x \in Task : up[x] # Null => up[x] \in DOMAIN l
  BY <1>1, ParentsAre
<1>3. DOMAIN l \in SUBSET Task /\ dn \in SUBSET Task /\ t \in Task
  BY <1>1 DEF IsTree, IsList, DoneIn
<1>4. X \subseteq DOMAIN l
  <2>1. Ancestors(up, t) \subseteq DOMAIN l
    BY <1>2, <1>3, AncestorsIn
  <2>2. QED
    BY <1>1, <2>1 DEF FinishedAncestors
<1>5. Reopened(up, dn \cup X, t) = X /\ X \cap dn = {}
  BY <1>1, <1>2, <1>3, ReopensCompleted
<1> HIDE DEF X, up, dn
<1>6. /\ IsTree(m) /\ OwnNumbers(m) /\ DOMAIN m = DOMAIN l /\ Parents(m) = up /\ DoneIn(m) = dn \cup X
      /\ \A s \in DOMAIN l : m[s].up = l[s].up
      /\ \A q : Siblings(m, q) = Siblings(l, q)
  BY <1>1, <1>4, SetDoneShows DEF up, dn
<1> HIDE DEF m
<1>7. Alike(b, m)
  <2>1. Arrangement(Loaded(b)) = Arrangement(Loaded(m))
    BY <1>1 DEF m, X, up, dn
  <2>2. QED
    BY <1>6, <2>1, ShownAlike
<1>8. Parents(b) = up /\ DoneIn(b) = dn \cup X /\ DOMAIN b = DOMAIN l
  BY <1>6, <1>7, AlikeParents DEF Alike
<1>9. Reopened(Parents(b), DoneIn(b), t) = X
  BY <1>5, <1>8
<1>10. X \subseteq DOMAIN b
  BY <1>4, <1>8
<1>11. /\ IsTree(back) /\ OwnNumbers(back) /\ DOMAIN back = DOMAIN b /\ DoneIn(back) = DoneIn(b) \ X
       /\ \A s \in DOMAIN b : back[s].up = b[s].up
       /\ \A q : Siblings(back, q) = Siblings(b, q)
  BY <1>10, SetDoneShows
<1> HIDE DEF back
<1>12. DoneIn(back) = DoneIn(l)
  BY <1>5, <1>8, <1>11 DEF dn
<1>13. Alike(back, l)
  <2>1. \A s \in DOMAIN l : back[s].done <=> l[s].done
    BY <1>8, <1>11, <1>12 DEF DoneIn
  <2>2. \A s \in DOMAIN l : back[s].up = l[s].up
    BY <1>6, <1>7, <1>8, <1>11 DEF Alike
  <2>3. \A q \in DOMAIN l \cup {Null} : Siblings(back, q) = Siblings(l, q)
    BY <1>6, <1>7, <1>8, <1>11 DEF Alike
  <2>4. QED
    BY <1>8, <1>11, <2>1, <2>2, <2>3 DEF Alike
<1>14. Arrangement(Loaded(back)) = Arrangement(Loaded(l))
  BY <1>1, <1>11, <1>13, ShownAlike
<1>15. QED
  BY <1>1, <1>9, <1>14 DEF back

-----------------------------------------------------------------------------
(* What the server keeps: siblings have numbers of their own, and what is   *)
(* below a completed task is completed.                                    *)

\* Positions in a sequence.
LEMMA IndexOfMember ==
  ASSUME NEW q, NEW x \in ToSet(q), DOMAIN q \subseteq Nat \ {0}
  PROVE  IndexOf(q, x) \in Nat /\ q[IndexOf(q, x) + 1] = x
<1> DEFINE j == CHOOSE i \in DOMAIN q : q[i] = x
<1>1. \E i \in DOMAIN q : q[i] = x
  BY DEF ToSet
<1>2. j \in DOMAIN q /\ q[j] = x
  BY <1>1
<1>3. IndexOf(q, x) = j - 1
  BY <1>1 DEF IndexOf
<1> HIDE DEF j
<1>4. j \in Nat /\ j # 0
  BY <1>2
<1>5. j - 1 \in Nat /\ (j - 1) + 1 = j
  BY <1>4
<1>6. QED
  BY <1>2, <1>3, <1>5

\* The line that takes a task's place among its siblings.
LEMMA LiftLineHas ==
  ASSUME NEW tasks, IsList(tasks), OwnNumbers(tasks), NEW t \in DOMAIN tasks, tasks[t].up # t
  PROVE  /\ ToSet(LiftLine(tasks, t)) = (KidsOf(tasks, tasks[t].up) \ {t}) \cup KidsOf(tasks, t)
         /\ DOMAIN LiftLine(tasks, t) \subseteq Nat \ {0}
<1> DEFINE p == tasks[t].up
           all == Siblings(tasks, p)
           own == Siblings(tasks, t)
           at == IndexOf(all, t)
           A == KidsOf(tasks, p)
           B == KidsOf(tasks, t)
           x == SubSeq(all, 1, at)
           z == SubSeq(all, at + 2, Len(all))
           n == Len(all)
<1>1. IsLine(all, A) /\ IsLine(own, B) /\ t \in A
  <2>1. t \in A
    BY DEF KidsOf
  <2>2. QED
    BY <2>1, KidsAre
<1>2. LiftLine(tasks, t) = x \o own \o z
  BY DEF LiftLine
<1> HIDE DEF p, A, B, all, own
<1>3. /\ n \in Nat /\ DOMAIN all = 1..n /\ at \in 0..(n - 1) /\ all[at + 1] = t
      /\ \A j \in 1..n : all[j] \in A
      /\ \A y \in A : IndexOf(all, y) \in 0..(n - 1) /\ all[IndexOf(all, y) + 1] = y
  BY <1>1, LineIs
<1>4. all \in Seq(A) /\ own \in Seq(B) /\ \A j, m \in 1..n : all[j] = all[m] => j = m
  BY <1>1 DEF IsLine
<1> HIDE DEF at, n
<1>5. x \in Seq(A) /\ Len(x) = at /\ \A j \in 1..at : x[j] = all[j]
  <2>1. at \in 0..Len(all)
    BY <1>3 DEF n
  <2>2. QED
    BY <1>4, <2>1
<1>6. z \in Seq(A) /\ Len(z) = n - at - 1 /\ \A j \in 1..(n - at - 1) : z[j] = all[at + 1 + j]
  <2>1. at \in Nat /\ at < Len(all) /\ Len(all) \in Nat
    BY <1>3 DEF n
  <2>2. QED
    BY <1>4, <2>1 DEF n
<1> HIDE DEF x, z
<1> DEFINE xo == x \o own
<1>7. xo \in Seq(A \cup B) /\ Len(xo) = Len(x) + Len(own) /\ Len(x) \in Nat /\ Len(own) \in Nat
  BY <1>4, <1>5
<1>8. \A j \in 1..(Len(x) + Len(own)) : xo[j] = IF j <= Len(x) THEN x[j] ELSE own[j - Len(x)]
  BY <1>4, <1>5
<1> HIDE DEF xo
<1> DEFINE q == xo \o z
<1>9. q \in Seq(A \cup B) /\ Len(q) = Len(xo) + Len(z) /\ Len(z) \in Nat
  BY <1>6, <1>7
<1>10. \A j \in 1..(Len(xo) + Len(z)) : q[j] = IF j <= Len(xo) THEN xo[j] ELSE z[j - Len(xo)]
  BY <1>6, <1>7
<1>11. q = LiftLine(tasks, t)
  BY <1>2 DEF xo
<1> HIDE DEF q
<1>12. DOMAIN q = 1..Len(q) /\ Len(q) \in Nat
  BY <1>9
<1>13. ASSUME NEW y \in A, y # t PROVE y \in ToSet(q)
  <2> DEFINE j == IndexOf(all, y)
  <2>1. j \in 0..(n - 1) /\ all[j + 1] = y /\ j # at
    BY <1>3, <1>13
  <2> HIDE DEF j
  <2>2. CASE j < at
    <3>1. j + 1 \in 1..at /\ j + 1 <= Len(x) /\ j + 1 \in 1..(Len(x) + Len(own)) /\ j + 1 <= Len(xo)
          /\ j + 1 \in 1..(Len(xo) + Len(z))
      BY <1>3, <1>5, <1>7, <1>9, <2>1, <2>2
    <3>2. q[j + 1] = y
      BY <1>5, <1>8, <1>10, <2>1, <3>1
    <3>3. QED
      BY <1>9, <1>12, <3>1, <3>2 DEF ToSet
  <2>3. CASE j > at
    <3> DEFINE m == j - at
    <3>0. at \in Nat /\ j \in Nat /\ n \in Nat /\ j < n /\ at < n
      BY <1>3, <2>1
    <3>1. m \in 1..(n - at - 1) /\ at + 1 + m = j + 1
      BY <3>0, <2>3
    <3> HIDE DEF m
    <3>2. z[m] = y /\ m \in 1..Len(z)
      BY <1>6, <2>1, <3>1
    <3>3. Len(xo) + m \in 1..(Len(xo) + Len(z)) /\ ~ (Len(xo) + m <= Len(xo)) /\ (Len(xo) + m) - Len(xo) = m
      BY <1>7, <1>9, <3>2
    <3>4. q[Len(xo) + m] = y
      BY <1>10, <3>2, <3>3
    <3>5. QED
      BY <1>9, <1>12, <3>3, <3>4 DEF ToSet
  <2>4. QED
    BY <1>3, <2>1, <2>2, <2>3
<1>14. ASSUME NEW y \in B PROVE y \in ToSet(q)
  <2>1. PICK j \in 1..Len(own) : own[j] = y
    <3>1. IndexOf(own, y) \in 0..(Len(own) - 1) /\ own[IndexOf(own, y) + 1] = y
      BY <1>1, LineIs
    <3>2. IndexOf(own, y) + 1 \in 1..Len(own)
      BY <1>7, <3>1
    <3>3. QED
      BY <3>1, <3>2
  <2> DEFINE m == Len(x) + j
  <2>2. m \in 1..(Len(x) + Len(own)) /\ ~ (m <= Len(x)) /\ m - Len(x) = j
    BY <1>7, <2>1
  <2>3. m \in 1..(Len(xo) + Len(z)) /\ m <= Len(xo)
    BY <1>7, <1>9, <2>2
  <2>4. q[m] = y
    BY <1>8, <1>10, <2>1, <2>2, <2>3
  <2>5. QED
    BY <1>9, <1>12, <2>3, <2>4 DEF ToSet
<1>15. ASSUME NEW y \in ToSet(q) PROVE y \in (A \ {t}) \cup B
  <2>1. PICK i \in 1..Len(q) : q[i] = y
    BY <1>12, <1>15 DEF ToSet
  <2>2. CASE i <= Len(x)
    <3>1. i \in 1..at /\ i \in 1..(Len(x) + Len(own)) /\ i <= Len(xo) /\ i \in 1..(Len(xo) + Len(z)) /\ i \in 1..n
          /\ i # at + 1 /\ at + 1 \in 1..n
      BY <1>3, <1>5, <1>7, <1>9, <2>1, <2>2
    <3>2. q[i] = all[i]
      BY <1>5, <1>8, <1>10, <2>2, <3>1
    <3>3. QED
      BY <1>3, <1>4, <2>1, <3>1, <3>2
  <2>3. CASE Len(x) < i /\ i <= Len(xo)
    <3>1. i \in 1..(Len(x) + Len(own)) /\ i \in 1..(Len(xo) + Len(z)) /\ i - Len(x) \in 1..Len(own) /\ ~ (i <= Len(x))
      BY <1>7, <1>9, <2>1, <2>3
    <3>2. q[i] = own[i - Len(x)]
      BY <1>8, <1>10, <2>3, <3>1
    <3>3. own[i - Len(x)] \in B
      BY <1>1, <3>1, LineIs
    <3>4. QED
      BY <2>1, <3>2, <3>3
  <2>4. CASE i > Len(xo)
    <3> DEFINE m == i - Len(xo)
    <3>1. m \in 1..(n - at - 1) /\ i \in 1..(Len(xo) + Len(z)) /\ ~ (i <= Len(xo))
      BY <1>3, <1>6, <1>7, <1>9, <2>1, <2>4
    <3>2. q[i] = z[m]
      BY <1>10, <3>1
    <3> HIDE DEF m
    <3>3. at + 1 + m \in 1..n /\ at + 1 \in 1..n /\ at + 1 + m # at + 1
      BY <1>3, <3>1
    <3>4. q[i] = all[at + 1 + m]
      BY <1>6, <3>1, <3>2
    <3>5. QED
      BY <1>3, <1>4, <2>1, <3>3, <3>4
  <2>5. QED
    BY <1>7, <1>9, <2>1, <2>2, <2>3, <2>4
<1>16. ToSet(q) = (A \ {t}) \cup B
  BY <1>13, <1>14, <1>15
<1>17. QED
  BY <1>11, <1>12, <1>16 DEF A, B, p

\* Numbers and what is done, as the server keeps them.
Orderly(tasks) == OwnNumbers(tasks) /\ DownClosed(Parents(tasks), DoneIn(tasks))

\* What is done is closed downwards if each subtask of what is done is done.
LEMMA DoneBelow ==
  ASSUME NEW tasks, IsTree(tasks)
  PROVE  DownClosed(Parents(tasks), DoneIn(tasks))
           <=> \A x \in DOMAIN tasks : tasks[x].up \in DoneIn(tasks) => x \in DoneIn(tasks)
<1> DEFINE up == Parents(tasks)
           dn == DoneIn(tasks)
<1>1. DOMAIN tasks \in SUBSET Task /\ dn \in SUBSET Task
  BY DEF IsTree, IsList, DoneIn
<1>2. up \in [Task -> Task \cup {Null}]
  BY ParentsAre
<1>3. \A x \in Task : up[x] = IF x \in DOMAIN tasks THEN tasks[x].up ELSE Null
  BY DEF Parents
<1> HIDE DEF up, dn
<1>4. DownClosed(up, dn) <=> \A x \in Task : up[x] \in dn => x \in dn
  BY <1>1, <1>2, DownClosedIsLocal
<1>5. (\A x \in Task : up[x] \in dn => x \in dn) <=> \A x \in DOMAIN tasks : tasks[x].up \in dn => x \in dn
  BY <1>1, <1>3, NullAssumption
<1>6. QED
  BY <1>4, <1>5 DEF up, dn

\* A move among open tasks,
LEMMA MoveOrderly ==
  ASSUME NEW tasks, IsTree(tasks), Orderly(tasks), NEW t \in DOMAIN tasks, NEW p, NEW i \in Nat,
         p = Null \/ (p \in DOMAIN tasks /\ p # t /\ p \notin Under(tasks, t)), p \notin DoneIn(tasks)
  PROVE  Orderly(Moved(tasks, t, p, i))
<1> DEFINE new == Moved(tasks, t, p, i)
<1>1. IsList(tasks) /\ OwnNumbers(tasks)
  BY DEF IsTree, Orderly
<1>2. IsTree(new)
  BY MoveKeepsTree
<1>3. /\ DOMAIN new = DOMAIN tasks
      /\ \A s \in DOMAIN tasks : new[s].up = (IF s = t THEN p ELSE tasks[s].up) /\ new[s].done = tasks[s].done
  BY <1>1, MovedIs
<1>4. OwnNumbers(new)
  BY <1>1, MovedLines
<1> HIDE DEF new
<1>5. DoneIn(new) = DoneIn(tasks)
  BY <1>3 DEF DoneIn
<1>6. \A x \in DOMAIN tasks : tasks[x].up \in DoneIn(tasks) => x \in DoneIn(tasks)
  BY DoneBelow DEF Orderly
<1>7. \A x \in DOMAIN new : new[x].up \in DoneIn(new) => x \in DoneIn(new)
  BY <1>3, <1>5, <1>6
<1>8. DownClosed(Parents(new), DoneIn(new))
  BY <1>2, <1>7, DoneBelow
<1>9. QED
  BY <1>4, <1>8 DEF Orderly, new

\* completing a task whose subtasks are completed,
LEMMA CompleteOrderly ==
  ASSUME NEW tasks, IsTree(tasks), Orderly(tasks), NEW t \in DOMAIN tasks, Under(tasks, t) \subseteq DoneIn(tasks)
  PROVE  Orderly(SetDone(tasks, {t} \cup FinishedAncestors(Parents(tasks), DoneIn(tasks), t), TRUE))
<1> DEFINE up == Parents(tasks)
           dn == DoneIn(tasks)
           X == {t} \cup FinishedAncestors(up, dn, t)
           new == SetDone(tasks, X, TRUE)
<1>1. up \in [Task -> Task \cup {Null}] /\ \A x \in Task : up[x] # Null => up[x] \in DOMAIN tasks
  BY ParentsAre
<1>2. DOMAIN tasks \in SUBSET Task /\ dn \in SUBSET Task /\ t \in Task
  BY DEF IsTree, IsList, DoneIn
<1>3. X \subseteq DOMAIN tasks
  <2>1. Ancestors(up, t) \subseteq DOMAIN tasks
    BY <1>1, <1>2, AncestorsIn
  <2>2. QED
    BY <2>1 DEF FinishedAncestors
<1>4. DownClosed(up, dn) /\ Below(up, t) \subseteq dn /\ OwnNumbers(tasks)
  BY DEF Orderly, Under
<1>5. DownClosed(up, dn \cup {t} \cup FinishedAncestors(up, dn, t))
  BY <1>1, <1>2, <1>4, CompleteDownClosed
<1>6. dn \cup {t} \cup FinishedAncestors(up, dn, t) = dn \cup X
  OBVIOUS
<1> HIDE DEF X, up, dn
<1>7. OwnNumbers(new) /\ Parents(new) = up /\ DoneIn(new) = dn \cup X
  BY <1>3, <1>4, SetDoneShows DEF up, dn
<1>8. Orderly(new)
  BY <1>5, <1>6, <1>7 DEF Orderly
<1>9. QED
  BY <1>8 DEF X, up, dn

\* reopening one,
LEMMA ReopenOrderly ==
  ASSUME NEW tasks, IsTree(tasks), Orderly(tasks), NEW t \in DOMAIN tasks
  PROVE  Orderly(SetDone(tasks, Reopened(Parents(tasks), DoneIn(tasks), t), FALSE))
<1> DEFINE up == Parents(tasks)
           dn == DoneIn(tasks)
           X == Reopened(up, dn, t)
           new == SetDone(tasks, X, FALSE)
<1>1. up \in [Task -> Task \cup {Null}] /\ \A x \in Task : up[x] # Null => up[x] \in DOMAIN tasks
  BY ParentsAre
<1>2. DOMAIN tasks \in SUBSET Task /\ dn \in SUBSET Task /\ t \in Task
  BY DEF IsTree, IsList, DoneIn
<1>3. X \subseteq DOMAIN tasks
  <2>1. Ancestors(up, t) \subseteq DOMAIN tasks
    BY <1>1, <1>2, AncestorsIn
  <2>2. QED
    BY <2>1 DEF Reopened
<1>4. DownClosed(up, dn) /\ OwnNumbers(tasks)
  BY DEF Orderly
<1>5. DownClosed(up, dn \ X)
  BY <1>1, <1>2, <1>4, ReopenDownClosed
<1> HIDE DEF X, up, dn
<1>6. OwnNumbers(new) /\ Parents(new) = up /\ DoneIn(new) = dn \ X
  BY <1>3, <1>4, SetDoneShows DEF up, dn
<1>7. Orderly(new)
  BY <1>5, <1>6 DEF Orderly
<1>8. QED
  BY <1>7 DEF X, up, dn

\* deleting tasks with what is below them,
LEMMA CutOrderly ==
  ASSUME NEW tasks, IsTree(tasks), Orderly(tasks), NEW gone, \A s \in DOMAIN tasks \ gone : tasks[s].up \notin gone
  PROVE  Orderly(Without(tasks, gone))
<1> DEFINE new == Without(tasks, gone)
<1>1. IsList(tasks) /\ OwnNumbers(tasks)
  BY DEF IsTree, Orderly
<1>2. IsTree(new)
  BY CutKeepsTree
<1>3. DOMAIN new = DOMAIN tasks \ gone /\ \A s \in DOMAIN tasks \ gone : new[s] = tasks[s]
  BY <1>1, WithoutIs
<1> HIDE DEF new
<1>4. OwnNumbers(new)
  BY <1>1, <1>3 DEF OwnNumbers
<1>5. \A x \in DOMAIN tasks : tasks[x].up \in DoneIn(tasks) => x \in DoneIn(tasks)
  BY DoneBelow DEF Orderly
<1>6. \A x : x \in DoneIn(new) <=> x \in DoneIn(tasks) /\ x \notin gone
  BY <1>3 DEF DoneIn
<1>7. \A x \in DOMAIN new : new[x].up \in DoneIn(new) => x \in DoneIn(new)
  BY <1>3, <1>5, <1>6
<1>8. DownClosed(Parents(new), DoneIn(new))
  BY <1>2, <1>7, DoneBelow
<1>9. QED
  BY <1>4, <1>8 DEF Orderly, new

\* and lifting what is below a task.
LEMMA LiftOrderly ==
  ASSUME NEW tasks, IsTree(tasks), Orderly(tasks), NEW t \in DOMAIN tasks
  PROVE  Orderly(Lifted(tasks, t))
<1> DEFINE new == Lifted(tasks, t)
           p == tasks[t].up
           line == LiftLine(tasks, t)
<1>1. IsList(tasks) /\ OwnNumbers(tasks)
  BY DEF IsTree, Orderly
<1>2. IsTree(new)
  BY LiftKeepsTree
<1>3. DOMAIN new = DOMAIN tasks \ {t} /\ RaisedFrom(new, tasks, t) /\ LineNumbered(new, tasks, t)
  BY <1>1, LiftedIs
<1> HIDE DEF new, line
<1>4. ASSUME NEW s \in DOMAIN new
      PROVE  /\ s \in DOMAIN tasks /\ s # t
             /\ tasks[s].up = t => new[s].up = p
             /\ tasks[s].up # t => new[s].up = tasks[s].up
             /\ new[s].done = tasks[s].done
             /\ new[s].order = IF HasKids(tasks, t) /\ s \in ToSet(line) THEN IndexOf(line, s) ELSE tasks[s].order
  BY <1>3 DEF RaisedFrom, LineNumbered, line
<1>5. p # t
  <2>1. Parents(tasks) \in [Task -> Task \cup {Null}] /\ Rooted(Parents(tasks)) /\ Parents(tasks)[t] = p
    BY ParentsAre
  <2>2. t \in Task /\ t # Null
    BY NullAssumption DEF IsTree, IsList
  <2>3. t \notin Ancestors(Parents(tasks), t)
    BY <2>1, <2>2, RootedNotOwn
  <2>4. QED
    BY <2>1, <2>2, <2>3, AncestorsClosed
<1>6. ToSet(line) = (KidsOf(tasks, p) \ {t}) \cup KidsOf(tasks, t) /\ DOMAIN line \subseteq Nat \ {0}
  BY <1>1, <1>5, LiftLineHas DEF line
<1>7. \A x \in ToSet(line) : IndexOf(line, x) \in Nat /\ line[IndexOf(line, x) + 1] = x
  BY <1>6, IndexOfMember
<1>8. OwnNumbers(new)
  <2>1. CASE ~ HasKids(tasks, t)
    <3>1. \A s \in DOMAIN new : tasks[s].up # t
      BY <1>4, <2>1 DEF HasKids, KidsOf
    <3>2. \A s \in DOMAIN new : s \in DOMAIN tasks /\ new[s].up = tasks[s].up /\ new[s].order = tasks[s].order
      BY <1>4, <2>1, <3>1
    <3>3. QED
      BY <1>1, <3>2 DEF OwnNumbers
  <2>2. CASE HasKids(tasks, t)
    <3>1. \A s \in DOMAIN new : new[s].order = IF s \in ToSet(line) THEN IndexOf(line, s) ELSE tasks[s].order
      BY <1>4, <2>2
    <3>2. \A s \in DOMAIN new : new[s].order \in Nat
      BY <1>1, <1>4, <1>7, <3>1 DEF OwnNumbers
    <3>3. \A s \in DOMAIN new : s \in ToSet(line) <=> new[s].up = p
      BY <1>4, <1>6 DEF KidsOf
    <3>4. ASSUME NEW x \in DOMAIN new, NEW y \in DOMAIN new, new[x].up = new[y].up, new[x].order = new[y].order
          PROVE  x = y
      <4>1. CASE new[x].up = p
        <5>1. x \in ToSet(line) /\ y \in ToSet(line)
          BY <3>3, <3>4, <4>1
        <5>2. IndexOf(line, x) = IndexOf(line, y)
          BY <3>1, <3>4, <5>1
        <5>3. QED
          BY <1>7, <5>1, <5>2
      <4>2. CASE new[x].up # p
        <5>1. x \notin ToSet(line) /\ y \notin ToSet(line)
          BY <3>3, <3>4, <4>2
        <5>2. tasks[x].up # t /\ tasks[y].up # t
          BY <1>4, <3>4, <4>2
        <5>3. tasks[x].up = tasks[y].up /\ tasks[x].order = tasks[y].order
          BY <1>4, <3>1, <3>4, <5>1, <5>2
        <5>4. QED
          BY <1>1, <1>4, <5>3 DEF OwnNumbers
      <4>3. QED
        BY <4>1, <4>2
    <3>5. QED
      BY <3>2, <3>4 DEF OwnNumbers
  <2>3. QED
    BY <2>1, <2>2
<1>9. \A x \in DOMAIN tasks : tasks[x].up \in DoneIn(tasks) => x \in DoneIn(tasks)
  BY DoneBelow DEF Orderly
<1>10. \A x : x \in DoneIn(new) <=> x \in DoneIn(tasks) /\ x # t
  <2>1. ASSUME NEW x \in DOMAIN new PROVE x \in DoneIn(new) <=> x \in DoneIn(tasks) /\ x # t
    BY <1>4, <2>1 DEF DoneIn
  <2>2. \A x : x \in DoneIn(new) => x \in DOMAIN new
    BY DEF DoneIn
  <2>3. \A x : x \in DoneIn(tasks) /\ x # t => x \in DOMAIN new
    BY <1>3 DEF DoneIn
  <2>4. QED
    BY <2>1, <2>2, <2>3
<1>11. ASSUME NEW x \in DOMAIN new, new[x].up \in DoneIn(new) PROVE x \in DoneIn(new)
  <2>1. x \in DOMAIN tasks /\ x # t /\ new[x].up \in DoneIn(tasks)
    BY <1>4, <1>10, <1>11
  <2>2. CASE tasks[x].up = t
    <3>1. t \in DoneIn(tasks)
      BY <1>4, <1>9, <2>1, <2>2
    <3>2. QED
      BY <1>9, <1>10, <2>1, <2>2, <3>1
  <2>3. CASE tasks[x].up # t
    BY <1>4, <1>9, <1>10, <2>1, <2>3
  <2>4. QED
    BY <2>2, <2>3
<1>12. DownClosed(Parents(new), DoneIn(new))
  BY <1>2, <1>11, DoneBelow
<1>13. QED
  BY <1>8, <1>12 DEF Orderly, new

\* So whatever the server does keeps them.
LEMMA AppliedOrderly ==
  ASSUME NEW c \in Call, IsTree(store), Orderly(store), Legal(c), Applied(calls[c].kind, calls[c].task, calls[c].to),
         calls[c].kind \in {"move", "undo"} => calls[c].to.index \in Nat
  PROVE  Orderly(store')
<1> DEFINE kind == calls[c].kind
           t == calls[c].task
           to == calls[c].to
<1>1. t \in DOMAIN store /\ DOMAIN store \in SUBSET Task
  BY DEF IsTree, IsList, Legal
<1>2. \/ kind \in {"move", "undo"} /\ store' = Moved(store, t, to.up, to.index)
      \/ /\ kind = "complete"
         /\ store' = SetDone(store, {t} \cup FinishedAncestors(Parents(store), DoneIn(store), t), TRUE)
      \/ /\ kind \in {"reopen", "undone"}
         /\ store' = SetDone(store, Reopened(Parents(store), DoneIn(store), t), FALSE)
      \/ kind = "delete" /\ store' = Without(store, {t})
      \/ kind = "lift" /\ store' = Lifted(store, t)
      \/ kind = "subtree" /\ store' = Without(store, {t} \cup Under(store, t))
  BY DEF Applied
<1>3. CASE kind \in {"move", "undo"} /\ store' = Moved(store, t, to.up, to.index)
  <2>1. to.up = Null \/ (to.up \in DOMAIN store /\ ~ store[to.up].done /\ to.up # t /\ to.up \notin Under(store, t))
    BY <1>3 DEF Legal
  <2>2. to.up \notin DoneIn(store)
    BY <1>1, <2>1, NullAssumption DEF DoneIn
  <2>3. to.index \in Nat
    BY <1>3
  <2> HIDE DEF to, t
  <2>4. Orderly(Moved(store, t, to.up, to.index))
    BY <1>1, <2>1, <2>2, <2>3, MoveOrderly
  <2>5. QED
    BY <1>3, <2>4
<1>4. CASE /\ kind = "complete"
           /\ store' = SetDone(store, {t} \cup FinishedAncestors(Parents(store), DoneIn(store), t), TRUE)
  <2>1. Under(store, t) \subseteq DoneIn(store)
    BY <1>4 DEF Legal
  <2> HIDE DEF t
  <2>2. QED
    BY <1>1, <1>4, <2>1, CompleteOrderly
<1>5. CASE /\ kind \in {"reopen", "undone"}
           /\ store' = SetDone(store, Reopened(Parents(store), DoneIn(store), t), FALSE)
  BY <1>1, <1>5, ReopenOrderly
<1>6. CASE kind = "delete" /\ store' = Without(store, {t})
  <2>1. \A s \in DOMAIN store \ {t} : store[s].up \notin {t}
    BY <1>6 DEF Legal, HasKids, KidsOf
  <2> HIDE DEF t
  <2>2. Orderly(Without(store, {t}))
    BY <2>1, CutOrderly
  <2>3. QED
    BY <1>6, <2>2
<1>7. CASE kind = "lift" /\ store' = Lifted(store, t)
  BY <1>1, <1>7, LiftOrderly
<1>8. CASE kind = "subtree" /\ store' = Without(store, {t} \cup Under(store, t))
  <2> DEFINE up == Parents(store)
             gone == {t} \cup Under(store, t)
  <2>0. Under(store, t) \subseteq DOMAIN store
    BY UnderIs
  <2>1. ASSUME NEW s \in DOMAIN store, store[s].up \in gone PROVE s \in Under(store, t)
    <3>0. up \in [Task -> Task \cup {Null}] /\ up[s] = store[s].up
      BY ParentsAre
    <3>1. up \in [Task -> Task \cup {Null}] /\ s \in Task /\ up[s] = store[s].up /\ up[s] \in Task
      BY <1>1, <2>0, <2>1, <3>0
    <3>2. Ancestors(up, s) = {up[s]} \cup Ancestors(up, up[s])
      BY <3>1, AncestorsStep, NullAssumption
    <3>3. QED
      BY <2>1, <3>1, <3>2 DEF Under, Below
  <2>2. \A s \in DOMAIN store \ gone : store[s].up \notin gone
    BY <2>1
  <2>3. store' = Without(store, gone)
    BY <1>8
  <2> HIDE DEF gone
  <2>4. Orderly(Without(store, gone))
    BY <2>2, CutOrderly
  <2>5. QED
    BY <2>3, <2>4
<1>9. QED
  BY <1>2, <1>3, <1>4, <1>5, <1>6, <1>7, <1>8

\* At first they are kept.
LEMMA TreesOrderly ==
  ASSUME NEW s \in Trees
  PROVE  Orderly(s)
<1>1. IsTree(s) /\ DOMAIN s = Task /\ \A t \in Task : s[t].order \in Nat
  BY TreesAre
<1>2. PICK first \in 0..1 : \A p \in Task \cup {Null} :
         {s[t].order : t \in KidsOf(s, p)} = first..(Cardinality(KidsOf(s, p)) - 1 + first)
  BY DEF Trees
<1>3. ASSUME NEW p \in Task \cup {Null}, NEW x \in KidsOf(s, p), NEW y \in KidsOf(s, p), s[x].order = s[y].order
      PROVE  x = y
  <2> DEFINE K == KidsOf(s, p)
             n == Cardinality(K)
             R == first..(n - 1 + first)
             f == [t \in K |-> s[t].order]
  <2>1. IsFiniteSet(K) /\ n \in Nat
    <3>1. K \in SUBSET Task
      BY <1>1 DEF KidsOf
    <3>2. QED
      BY <3>1, FS_Subset, FS_CardinalityType, OutlineBounds
  <2>2. n # 0
    BY <1>3, <2>1, FS_EmptySet
  <2>3. {f[t] : t \in K} = R
    BY <1>2
  <2> HIDE DEF n
  <2>4. Cardinality(R) = n
    <3>1. first \in Int /\ n - 1 + first \in Int /\ ~ (first > n - 1 + first) /\ n - 1 + first - first + 1 = n
      BY <2>1, <2>2
    <3> DEFINE m == n - 1 + first
    <3>2. m \in Int /\ ~ (first > m) /\ m - first + 1 = n
      BY <2>1, <2>2
    <3> HIDE DEF m
    <3>3. Cardinality(first..m) = IF first > m THEN 0 ELSE m - first + 1
      BY <3>2, FS_Interval
    <3>4. Cardinality(first..m) = n
      BY <3>2, <3>3
    <3>5. QED
      BY <3>4 DEF m
  <2> HIDE DEF R
  <2>5. f \in [K -> R] /\ \A r \in R : \E t \in K : f[t] = r
    BY <2>3
  <2>6. \A t \in K : f[t] = s[t].order
    OBVIOUS
  <2> HIDE DEF f, K
  <2>7. f \in Surjection(K, R)
    BY <2>5 DEF Surjection
  <2>8. f \in Injection(K, R)
    BY <2>1, <2>4, <2>7, FS_SurjSameCardinalityImpliesInj DEF n
  <2>9. \A a, b \in K : f[a] = f[b] => a = b
    BY <2>5, <2>8 DEF Injection, IsInjective
  <2>10. QED
    BY <1>3, <2>6, <2>9 DEF K
<1>4. OwnNumbers(s)
  <2>1. \A t \in Task : s[t].up \in Task \cup {Null}
    BY <1>1 DEF IsTree
  <2>2. \A t \in Task : t \in KidsOf(s, s[t].up)
    BY <1>1 DEF KidsOf
  <2>3. QED
    BY <1>1, <1>3, <2>1, <2>2 DEF OwnNumbers
<1>5. \A x \in DOMAIN s : s[x].up \in DoneIn(s) => x \in DoneIn(s)
  <2>1. \A t \in Task : s[t].up # Null => (s[s[t].up].done => s[t].done)
    BY DEF Trees
  <2>2. QED
    BY <1>1, <2>1, NullAssumption DEF DoneIn
<1>6. DownClosed(Parents(s), DoneIn(s))
  BY <1>1, <1>5, DoneBelow
<1>7. QED
  BY <1>4, <1>6 DEF Orderly

-----------------------------------------------------------------------------
(* What a request knows of what was shown.                                 *)

Showable(tasks) == IsList(tasks) /\ OwnNumbers(tasks)

\* A move has a place to go to and, to be taken back, the list as it was,
MoveFine(call) ==
  call.phase # "free" =>
    /\ call.kind \in {"move", "undo"} => call.to.index \in Nat /\ Showable(call.snapshot)
    /\ call.kind = "move" => call.from.index \in Nat
\* one that is sent the place where the task was,
SentFine(call) ==
  call.phase = "sent" =>
    /\ call.kind = "move" => /\ call.from = CurrentPosition(call.snapshot, call.task)
                             /\ call.before = <<>> /\ call.after = <<>>
    /\ call.kind = "undo" /\ call.before # call.after => MoveRecord(call.task, call.to, call.before, call.after)
    /\ call.kind = "undone" /\ call.before # call.after => DoneRecord(call.task, call.before, call.after)
\* and when it is applied, what was shown before and is shown after it.
AppliedFine(call) ==
  call.phase = "applied" =>
    /\ call.kind = "move" =>
         /\ call.before = Arrangement(call.snapshot) =>
              call.after = Arrangement(ApplyMove(call.snapshot, call.task, call.to.up, call.to.index))
         /\ call.before # call.after => MoveRecord(call.task, call.from, call.before, call.after)
    /\ call.kind = "complete" /\ call.before # call.after => DoneRecord(call.task, call.before, call.after)
CallFine(call) == MoveFine(call) /\ SentFine(call) /\ AppliedFine(call)

\* The toast knows it then.
ToastFine ==
  /\ toast.kind = "move" =>
       /\ toast.from.index \in Nat
       /\ toast.before # toast.after => MoveRecord(toast.task, toast.from, toast.before, toast.after)
  /\ toast.kind = "complete" /\ toast.before # toast.after => DoneRecord(toast.task, toast.before, toast.after)

\* A place has a number.
LEMMA PlaceHasIndex ==
  ASSUME NEW tasks, Showable(tasks), NEW t
  PROVE  CurrentPosition(tasks, t).index \in Nat
<1> DEFINE S == KidsOf(tasks, tasks[t].up)
<1>1. IsFiniteSet(S)
  BY KidsAre DEF Showable
<1>2. Before(tasks, S, t) \subseteq S
  BY DEF Before
<1>3. Cardinality(Before(tasks, S, t)) \in Nat
  BY <1>1, <1>2, FS_Subset, FS_CardinalityType
<1>4. QED
  BY <1>3 DEF CurrentPosition

\* Something is shown of every list.
LEMMA SomethingShown ==
  ASSUME NEW tasks
  PROVE  Arrangement(tasks) # <<>>
<1>1. "done" \in DOMAIN Arrangement(tasks)
  BY DEF Arrangement
<1>2. DOMAIN <<>> = {}
  OBVIOUS
<1>3. QED
  BY <1>1, <1>2

\* A move that the user made seeing what there is.
LEMMA ShownMove ==
  ASSUME NEW a, Showable(a), NEW b, IsTree(b), OwnNumbers(b), Arrangement(a) = Arrangement(Loaded(b)),
         NEW t \in DOMAIN b, NEW p, NEW i \in Nat, p = Null \/ (p \in DOMAIN b /\ p # t /\ p \notin Under(b, t))
  PROVE  /\ Arrangement(Loaded(Moved(b, t, p, i))) = Arrangement(ApplyMove(a, t, p, i))
         /\ MoveRecord(t, CurrentPosition(a, t), Arrangement(Loaded(b)), Arrangement(Loaded(Moved(b, t, p, i))))
<1>1. IsList(a) /\ OwnNumbers(a) /\ IsList(b)
  BY DEF Showable, IsTree
<1>2. Sees(a, b)
  BY <1>1, SeesIs
<1>3. Sees(ApplyMove(a, t, p, i), Moved(b, t, p, i))
  BY <1>1, <1>2, MoveShows
<1>4. IsList(ApplyMove(a, t, p, i)) /\ OwnNumbers(ApplyMove(a, t, p, i))
  BY <1>1, ApplyMoveKeeps
<1>5. IsTree(Moved(b, t, p, i))
  BY MoveKeepsTree
<1>6. OwnNumbers(Moved(b, t, p, i))
  BY <1>1, MovedLines
<1>7. Arrangement(ApplyMove(a, t, p, i)) = Arrangement(Loaded(Moved(b, t, p, i)))
  BY <1>3, <1>4, <1>5, <1>6, SeesIs
<1>8. CurrentPosition(a, t) = CurrentPosition(b, t)
  <2>1. Alike(a, b) /\ b[t].up \in DOMAIN b \cup {Null}
    BY <1>2 DEF Sees, IsTree
  <2>2. QED
    BY <1>1, <2>1, AlikePlace
<1>9. MoveRecord(t, CurrentPosition(b, t), Arrangement(Loaded(b)), Arrangement(Loaded(Moved(b, t, p, i))))
  BY DEF MoveRecord
<1>10. QED
  BY <1>7, <1>8, <1>9

-----------------------------------------------------------------------------
(* What they know is kept.                                                 *)

\* Kinds of requests that know nothing of what was shown.
LEMMA OtherKinds ==
  ASSUME NEW call, call.kind \notin {"move", "undo", "undone", "complete"} \/ call.phase = "free"
  PROVE  CallFine(call)
BY DEF CallFine, MoveFine, SentFine, AppliedFine

\* Nothing of it depends on who hears the answer.
LEMMA UnheardFine ==
  ASSUME NEW call, IsCall(call), CallFine(call), NEW new, new = [call EXCEPT !.heard = FALSE]
  PROVE  CallFine(new)
<1>1. /\ new.kind = call.kind /\ new.task = call.task /\ new.to = call.to /\ new.phase = call.phase
      /\ new.snapshot = call.snapshot /\ new.from = call.from /\ new.before = call.before /\ new.after = call.after
  BY DEF IsCall, Fields
<1>2. MoveFine(new)
  BY <1>1 DEF CallFine, MoveFine
<1>3. SentFine(new)
  BY <1>1 DEF CallFine, SentFine
<1>4. AppliedFine(new)
  BY <1>1 DEF CallFine, AppliedFine
<1>5. QED
  BY <1>2, <1>3, <1>4 DEF CallFine

\* One request is replaced.
LEMMA OneCall ==
  ASSUME AreCalls, \A d \in Call : CallFine(calls[d]), NEW c \in Call, NEW new, CallFine(new),
         calls' = [calls EXCEPT ![c] = new]
  PROVE  \A d \in Call : CallFine(calls'[d])
<1>1. calls' = [d \in Call |-> IF d = c THEN new ELSE calls[d]]
  BY DEF AreCalls
<1>2. \A d \in Call : calls'[d] = IF d = c THEN new ELSE calls[d]
  BY <1>1
<1>3. QED
  BY <1>2

\* A move that is sent, or sent back,
LEMMA MoveSentFine ==
  ASSUME AreCalls, \A d \in Call : CallFine(calls[d]), Showable(list), ToastFine, SendsMove
  PROVE  (\A d \in Call : CallFine(calls'[d])) /\ Showable(list)'
<1>1. PICK c \in Call : \E kind, t, to, from, ghost :
    /\ SendMove(c, kind, t, to, from, ghost)
    /\ \/ kind = "move" /\ IsMove(to) /\ from = CurrentPosition(list, t) /\ ghost = NoToast
       \/ kind = "undo" /\ to = toast.from /\ t = toast.task /\ ghost = toast /\ toast.kind = "move"
  BY DEF SendsMove
<1>2. PICK kind, t, to, from, ghost :
    /\ SendMove(c, kind, t, to, from, ghost)
    /\ \/ kind = "move" /\ IsMove(to) /\ from = CurrentPosition(list, t) /\ ghost = NoToast
       \/ kind = "undo" /\ to = toast.from /\ t = toast.task /\ ghost = toast /\ toast.kind = "move"
  BY <1>1
<1> DEFINE call == [Free EXCEPT !.kind = kind, !.task = t, !.to = to, !.phase = "sent", !.snapshot = list,
                         !.from = from, !.before = ghost.before, !.after = ghost.after]
<1>3. calls' = [calls EXCEPT ![c] = call] /\ list' = ApplyMove(list, t, to.up, to.index)
  BY <1>2 DEF SendMove, Ask
<1>4. /\ call.kind = kind /\ call.task = t /\ call.to = to /\ call.phase = "sent" /\ call.snapshot = list
      /\ call.from = from /\ call.before = ghost.before /\ call.after = ghost.after
  BY FreeIs DEF IsCall, Fields
<1> HIDE DEF call
<1>5. to.index \in Nat
  BY <1>2 DEF IsMove, ToastFine
<1>6. kind = "move" => from.index \in Nat
  BY <1>2, PlaceHasIndex
<1>7. MoveFine(call)
  BY <1>2, <1>4, <1>5, <1>6 DEF MoveFine
<1>8. SentFine(call)
  <2>1. CASE kind = "move" /\ from = CurrentPosition(list, t) /\ ghost = NoToast
    <3>1. ghost.before = <<>> /\ ghost.after = <<>>
      BY <2>1 DEF NoToast
    <3>2. QED
      BY <1>4, <2>1, <3>1 DEF SentFine
  <2>2. CASE kind = "undo" /\ to = toast.from /\ t = toast.task /\ ghost = toast /\ toast.kind = "move"
    <3>1. toast.before # toast.after => MoveRecord(t, to, toast.before, toast.after)
      BY <2>2 DEF ToastFine
    <3>2. call.before = toast.before /\ call.after = toast.after /\ call.kind = "undo"
      BY <1>4, <2>2
    <3>3. call.before # call.after => MoveRecord(call.task, call.to, call.before, call.after)
      BY <1>4, <3>1, <3>2
    <3>4. QED
      BY <3>2, <3>3 DEF SentFine
  <2>3. QED
    BY <1>2, <2>1, <2>2
<1>9. CallFine(call)
  BY <1>4, <1>7, <1>8 DEF CallFine, AppliedFine
<1>10. \A d \in Call : CallFine(calls'[d])
  BY <1>3, <1>9, OneCall
<1>11. Showable(list)'
  <2>1. IsList(ApplyMove(list, t, to.up, to.index)) /\ OwnNumbers(ApplyMove(list, t, to.up, to.index))
    BY <1>5, ApplyMoveKeeps DEF Showable
  <2>2. QED
    BY <1>3, <2>1 DEF Showable
<1>12. QED
  BY <1>10, <1>11

\* a task that is to be completed or reopened,
LEMMA DoneSentFine ==
  ASSUME AreCalls, \A d \in Call : CallFine(calls[d]), ToastFine, AsksForDone
  PROVE  \A d \in Call : CallFine(calls'[d])
<1>1. PICK c \in Call : \E kind, t, before, after :
       /\ Asks(c, kind, t, before, after)
       /\ \/ kind \in {"complete", "reopen"}
          \/ kind = "undone" /\ t = toast.task /\ before = toast.before /\ after = toast.after
             /\ toast.kind = "complete"
  BY DEF AsksForDone
<1>2. PICK kind, t, before, after :
       /\ Asks(c, kind, t, before, after)
       /\ \/ kind \in {"complete", "reopen"}
          \/ kind = "undone" /\ t = toast.task /\ before = toast.before /\ after = toast.after
             /\ toast.kind = "complete"
  BY <1>1
<1> DEFINE call == [Free EXCEPT !.kind = kind, !.task = t, !.phase = "sent", !.before = before, !.after = after]
<1>3. calls' = [calls EXCEPT ![c] = call]
  BY <1>2 DEF Asks, Ask
<1>4. /\ call.kind = kind /\ call.task = t /\ call.phase = "sent" /\ call.before = before /\ call.after = after
  BY FreeIs DEF IsCall, Fields
<1> HIDE DEF call
<1>5. kind = "undone" => (before # after => DoneRecord(t, before, after))
  BY <1>2 DEF ToastFine
<1>6. SentFine(call)
  <2>1. call.kind \notin {"move", "undo"}
    BY <1>2, <1>4
  <2>2. call.kind = "undone" /\ call.before # call.after => DoneRecord(call.task, call.before, call.after)
    BY <1>4, <1>5
  <2>3. QED
    BY <2>1, <2>2 DEF SentFine
<1>7. CallFine(call)
  BY <1>2, <1>4, <1>6 DEF CallFine, MoveFine, AppliedFine
<1>8. QED
  BY <1>3, <1>7, OneCall

\* a deletion,
LEMMA DeleteSentFine ==
  ASSUME AreCalls, \A d \in Call : CallFine(calls[d]), NEW c \in Call, NEW kind \in {"delete", "lift", "subtree"},
         NEW t, NEW wants, SendDelete(c, kind, t, wants)
  PROVE  \A d \in Call : CallFine(calls'[d])
<1> DEFINE new == [Free EXCEPT !.kind = kind, !.task = t, !.wants = wants, !.phase = "sent", !.heard = TRUE]
<1>1. new.kind = kind
  BY FreeIs DEF IsCall, Fields
<1>2. calls' = [d \in Call |-> IF d = c THEN new ELSE [calls[d] EXCEPT !.heard = FALSE]]
  BY DEF SendDelete
<1> HIDE DEF new
<1>3. calls'[c] = new /\ CallFine(new)
  BY <1>1, <1>2, OtherKinds
<1>4. ASSUME NEW d \in Call, d # c PROVE CallFine(calls'[d])
  <2>1. IsCall(calls[d]) /\ CallFine(calls[d]) /\ calls'[d] = [calls[d] EXCEPT !.heard = FALSE]
    BY <1>2, <1>4 DEF AreCalls
  <2>2. QED
    BY <2>1, UnheardFine
<1>5. QED
  BY <1>3, <1>4

\* the deletions that are sent when the page is left,
LEMMA LeavesFine ==
  ASSUME AreCalls, \A d \in Call : CallFine(calls[d]), LeavePage
  PROVE  \A d \in Call : CallFine(calls'[d])
<1>1. PICK sent \in {f \in [Call -> Waiting \cup {0}] :
                    /\ \A c \in Call : f[c] # 0 => calls[c].phase = "free"
                    /\ \A i \in Waiting : Cardinality({c \in Call : f[c] = i}) = 1} :
        calls' = [c \in Call |->
          IF sent[c] = 0 THEN [calls[c] EXCEPT !.heard = FALSE]
          ELSE [Free EXCEPT !.kind = "delete", !.task = pending[sent[c]].task, !.wants = {pending[sent[c]].task},
                            !.phase = "sent"]]
  BY DEF LeavePage
<1>2. ASSUME NEW d \in Call, sent[d] = 0 PROVE CallFine(calls'[d])
  <2>1. IsCall(calls[d]) /\ CallFine(calls[d]) /\ calls'[d] = [calls[d] EXCEPT !.heard = FALSE]
    BY <1>1, <1>2 DEF AreCalls
  <2>2. QED
    BY <2>1, UnheardFine
<1>3. ASSUME NEW d \in Call, sent[d] # 0 PROVE CallFine(calls'[d])
  <2> DEFINE t == pending[sent[d]].task
  <2> HIDE DEF t
  <2>1. calls'[d] = [Free EXCEPT !.kind = "delete", !.task = t, !.wants = {t}, !.phase = "sent"]
    BY <1>1, <1>3 DEF t
  <2>2. calls'[d].kind = "delete"
    BY <2>1, FreeIs DEF IsCall, Fields
  <2>3. QED
    BY <2>2, OtherKinds
<1>4. QED
  BY <1>2, <1>3

\* and a request that is applied,
LEMMA ApplyFine ==
  ASSUME AreCalls, IsTree(store), Orderly(store), \A d \in Call : CallFine(calls[d]), NEW c \in Call, Apply(c)
  PROVE  (\A d \in Call : CallFine(calls'[d])) /\ Orderly(store')
<1> DEFINE call == calls[c]
           kind == call.kind
           t == call.task
           p == call.to.up
           i == call.to.index
           seen == kind = "complete" \/ (kind = "move" /\ Arrangement(call.snapshot) = Content)
           before == IF seen THEN Content ELSE call.before
           after == IF seen THEN Content' ELSE call.after
           new == [call EXCEPT !.phase = "applied", !.before = before, !.after = after]
<1>1. call.phase = "sent" /\ Legal(c) /\ Applied(kind, t, call.to)
  BY DEF Apply
<1>2. calls' = [calls EXCEPT ![c].phase = "applied", ![c].before = before, ![c].after = after]
  BY DEF Apply
<1>3. IsCall(call) /\ CallFine(call) /\ calls = [d \in Call |-> calls[d]]
  BY DEF AreCalls
<1>4. calls' = [calls EXCEPT ![c] = new]
  BY <1>2, <1>3
<1>5. kind \in {"move", "undo"} => i \in Nat /\ Showable(call.snapshot)
  BY <1>1, <1>3 DEF CallFine, MoveFine
<1>6. Orderly(store')
  BY <1>1, <1>5, AppliedOrderly
<1>7. Content = Arrangement(Loaded(store)) /\ Content' = Arrangement(Loaded(store'))
  BY DEF Content
<1>8. t \in DOMAIN store
  BY <1>1 DEF Legal
<1> HIDE DEF before, after
<1>9. /\ new.kind = kind /\ new.task = t /\ new.to = call.to /\ new.phase = "applied"
      /\ new.snapshot = call.snapshot /\ new.from = call.from /\ new.before = before /\ new.after = after
  <2> HIDE DEF call
  <2>1. QED
    BY <1>3 DEF IsCall, Fields
<1> HIDE DEF new
<1>10. MoveFine(new)
  BY <1>1, <1>3, <1>9 DEF CallFine, MoveFine
<1>11. ASSUME kind = "move" PROVE AppliedFine(new)
  <2>1. /\ store' = Moved(store, t, p, i)
        /\ p = Null \/ (p \in DOMAIN store /\ p # t /\ p \notin Under(store, t))
    BY <1>1, <1>11 DEF Applied, Legal
  <2>2. call.from = CurrentPosition(call.snapshot, t) /\ call.before = <<>> /\ call.after = <<>>
    BY <1>1, <1>3, <1>11 DEF CallFine, SentFine
  <2>3. CASE Arrangement(call.snapshot) = Content
    <3>1. before = Content /\ after = Content'
      BY <1>11, <2>3 DEF before, after
    <3> DEFINE a == call.snapshot
    <3>2. Showable(a) /\ IsTree(store) /\ OwnNumbers(store) /\ Arrangement(a) = Arrangement(Loaded(store)) /\ i \in Nat
      BY <1>5, <1>7, <1>11, <2>3 DEF Orderly
    <3> HIDE DEF a, p, i, t
    <3>3. Arrangement(Loaded(Moved(store, t, p, i))) = Arrangement(ApplyMove(a, t, p, i))
      BY <1>8, <2>1, <3>2, ShownMove
    <3>4. MoveRecord(t, CurrentPosition(a, t), Arrangement(Loaded(store)), Arrangement(Loaded(Moved(store, t, p, i))))
      BY <1>8, <2>1, <3>2, ShownMove
    <3>5. new.after = Arrangement(ApplyMove(a, t, p, i))
      BY <1>7, <1>9, <2>1, <3>1, <3>3
    <3>6. MoveRecord(t, call.from, new.before, new.after)
      BY <1>7, <1>9, <2>1, <2>2, <3>1, <3>4 DEF a
    <3>7. new.after = Arrangement(ApplyMove(new.snapshot, new.task, new.to.up, new.to.index))
      BY <1>9, <3>5 DEF a, p, i
    <3>8. MoveRecord(new.task, new.from, new.before, new.after)
      BY <1>9, <3>6
    <3>9. QED
      BY <1>9, <1>11, <3>7, <3>8 DEF AppliedFine
  <2>4. CASE Arrangement(call.snapshot) # Content
    <3>1. before = <<>> /\ after = <<>>
      BY <1>11, <2>2, <2>4 DEF before, after
    <3>2. new.before # Arrangement(new.snapshot) /\ new.before = new.after
      BY <1>9, <3>1, SomethingShown
    <3>3. QED
      BY <1>9, <1>11, <3>2 DEF AppliedFine
  <2>5. QED
    BY <2>3, <2>4
<1>12. ASSUME kind = "complete" PROVE AppliedFine(new)
  <2>1. before = Content /\ after = Content'
    BY <1>12 DEF before, after
  <2> DEFINE X == {t} \cup FinishedAncestors(Parents(store), DoneIn(store), t)
  <2>2. store' = SetDone(store, X, TRUE) /\ ~ store[t].done
    BY <1>1, <1>12 DEF Applied, Legal
  <2>3. t \notin DoneIn(store)
    BY <2>2 DEF DoneIn
  <2>4. OwnNumbers(store) /\ DownClosed(Parents(store), DoneIn(store))
    BY DEF Orderly
  <2> HIDE DEF t
  <2>5. DoneRecord(t, Arrangement(Loaded(store)), Arrangement(Loaded(SetDone(store, X, TRUE))))
    BY <1>8, <2>3, <2>4 DEF DoneRecord
  <2>6. DoneRecord(new.task, new.before, new.after)
    BY <1>7, <1>9, <2>1, <2>2, <2>5
  <2>7. QED
    BY <1>9, <1>12, <2>6 DEF AppliedFine
<1>13. AppliedFine(new)
  <2>1. CASE kind \notin {"move", "complete"}
    BY <1>9, <2>1 DEF AppliedFine
  <2>2. QED
    BY <1>11, <1>12, <2>1
<1>14. CallFine(new)
  BY <1>9, <1>10, <1>13 DEF CallFine, SentFine
<1>15. QED
  BY <1>4, <1>6, <1>14, OneCall

\* refused,
LEMMA RefuseFine ==
  ASSUME AreCalls, \A d \in Call : CallFine(calls[d]), NEW c \in Call, Refuse(c)
  PROVE  \A d \in Call : CallFine(calls'[d])
<1> DEFINE call == calls[c]
           new == [call EXCEPT !.phase = "refused"]
<1>1. call.phase = "sent" /\ calls' = [calls EXCEPT ![c].phase = "refused"]
  BY DEF Refuse
<1>2. IsCall(call) /\ CallFine(call) /\ calls = [d \in Call |-> calls[d]]
  BY DEF AreCalls
<1>3. calls' = [calls EXCEPT ![c] = new]
  BY <1>1, <1>2
<1>4. /\ new.kind = call.kind /\ new.to = call.to /\ new.phase = "refused"
      /\ new.snapshot = call.snapshot /\ new.from = call.from
  <2> HIDE DEF call
  <2>1. QED
    BY <1>2 DEF IsCall, Fields
<1> HIDE DEF new
<1>5. MoveFine(new)
  BY <1>1, <1>2, <1>4 DEF CallFine, MoveFine
<1>6. CallFine(new)
  BY <1>4, <1>5 DEF CallFine, SentFine, AppliedFine
<1>7. QED
  BY <1>3, <1>6, OneCall

\* or over.
LEMMA OverFine ==
  ASSUME AreCalls, \A d \in Call : CallFine(calls[d]), NEW c \in Call, calls' = [calls EXCEPT ![c] = Free]
  PROVE  \A d \in Call : CallFine(calls'[d])
<1>1. CallFine(Free)
  BY FreeIs, OtherKinds
<1>2. QED
  BY <1>1, OneCall

\* The toast changes only with an answer.
LEMMA ToastIs ==
  ASSUME [Next]_vars
  PROVE  toast' \in {toast, NoToast} \/ \E c \in Call : Answered(c)
<1>1. CASE AtTheTree
  <2>1. UNCHANGED toast
    BY <1>1 DEF AtTheTree, ArrowDown, ArrowUp, ArrowLeft, SelectRow, ToggleShowDone, ToggleFilter, ToggleSort,
        PickRow, OpenSelected, Toggle, DragStart, Tab, ShiftTab, AltArrow, MoveTo, ToggleDone, DeleteKey, Looking
  <2>2. QED
    BY <2>1
<1>2. CASE InDialogs
  <2>1. UNCHANGED toast
    BY <1>2 DEF InDialogs, CloseDialog, OpenNeighbour, PickProject, MoveTo, DeleteParent, Looking
  <2>2. QED
    BY <2>1
<1>3. CASE DragOver \/ HoverOpens \/ DragEnd \/ Undo \/ ToastGoes
  BY <1>3 DEF DragOver, HoverOpens, DragEnd, MoveTo, Undo, ToastGoes
<1>4. CASE UndoDelete \/ (\E i \in DOMAIN pending : TimerFires(i)) \/ LeavePage \/ (\E t \in Active : ActiveChanges(t))
  BY <1>4 DEF UndoDelete, TimerFires, LeavePage, ActiveChanges
<1>5. CASE (\E c \in Call : Apply(c) \/ Refuse(c) \/ Failed(c)) \/ Fetched \/ UNCHANGED vars
  BY <1>5 DEF Apply, Refuse, Failed, Fetched, vars
<1>6. QED
  BY <1>1, <1>2, <1>3, <1>4, <1>5 DEF Next

\* It knows what the request knew that was answered.
LEMMA ToastFineStep ==
  ASSUME AreCalls, \A c \in Call : CallFine(calls[c]), ToastFine, [Next]_vars
  PROVE  ToastFine'
<1>1. ASSUME toast' = NoToast PROVE ToastFine'
  <2>1. toast'.kind = "none"
    BY <1>1 DEF NoToast
  <2>2. QED
    BY <2>1 DEF ToastFine
<1>2. ASSUME toast' = toast PROVE ToastFine'
  BY <1>2 DEF ToastFine
<1>3. ASSUME NEW c \in Call, Answered(c) PROVE ToastFine'
  <2> DEFINE call == calls[c]
  <2>1. call.phase = "applied" /\ MoveFine(call) /\ AppliedFine(call)
    BY <1>3 DEF Answered, CallFine
  <2>2. \/ toast' = toast
        \/ /\ toast'.kind = call.kind /\ toast'.task = call.task /\ toast'.from = call.from
           /\ toast'.before = call.before /\ toast'.after = call.after
    BY <1>3 DEF Answered
  <2> HIDE DEF call
  <2>3. ASSUME toast'.kind = call.kind, toast'.task = call.task, toast'.from = call.from,
               toast'.before = call.before, toast'.after = call.after
        PROVE  ToastFine'
    <3>1. call.kind = "move" => call.from.index \in Nat
      BY <2>1 DEF MoveFine
    <3>2. call.kind = "move" /\ call.before # call.after => MoveRecord(call.task, call.from, call.before, call.after)
      BY <2>1 DEF AppliedFine
    <3>3. call.kind = "complete" /\ call.before # call.after => DoneRecord(call.task, call.before, call.after)
      BY <2>1 DEF AppliedFine
    <3>4. toast'.kind = "move" => toast'.from.index \in Nat
      BY <2>3, <3>1
    <3>5. toast'.kind = "move" /\ toast'.before # toast'.after
            => MoveRecord(toast'.task, toast'.from, toast'.before, toast'.after)
      BY <2>3, <3>2
    <3>6. toast'.kind = "complete" /\ toast'.before # toast'.after
            => DoneRecord(toast'.task, toast'.before, toast'.after)
      BY <2>3, <3>3
    <3>7. QED
      BY <3>4, <3>5, <3>6 DEF ToastFine
  <2>4. QED
    BY <1>2, <2>2, <2>3
<1>4. QED
  BY <1>1, <1>2, <1>3, ToastIs

\* What is known of what was shown.
RecordInv ==
  /\ WellTyped /\ Orderly(store) /\ Showable(list)
  /\ \A c \in Call : CallFine(calls[c])
  /\ ToastFine

\* The browser's list as it is fetched.
LEMMA LoadedShowable ==
  ASSUME NEW tasks, IsTree(tasks), Orderly(tasks)
  PROVE  Showable(Loaded(tasks))
BY LoadedRows DEF Orderly, Showable

\* It is known at first,
LEMMA RecordInit ==
  ASSUME Init
  PROVE  RecordInv
<1>1. /\ store \in Trees /\ list = Loaded(store) /\ calls = [c \in Call |-> Free] /\ toast = NoToast
  BY DEF Init
<1>2. WellTyped
  BY DeletionInit DEF DeletionInv
<1>3. Orderly(store)
  BY <1>1, TreesOrderly
<1>4. Showable(list)
  BY <1>1, <1>2, <1>3, LoadedShowable DEF WellTyped
<1>5. CallFine(Free)
  BY FreeIs, OtherKinds
<1>6. \A c \in Call : CallFine(calls[c])
  BY <1>1, <1>5
<1>7. toast.kind = "none"
  BY <1>1 DEF NoToast
<1>8. ToastFine
  BY <1>7 DEF ToastFine
<1>9. QED
  BY <1>2, <1>3, <1>4, <1>6, <1>8 DEF RecordInv

\* and stays known.
LEMMA RecordStep ==
  ASSUME RecordInv, [Next]_vars
  PROVE  RecordInv'
<1> DEFINE Fine == \A c \in Call : CallFine(calls[c])
<1>1. /\ WellTyped /\ Orderly(store) /\ Showable(list) /\ Fine /\ ToastFine
      /\ AreCalls /\ IsTree(store) /\ ToastTyped
  BY DEF RecordInv, WellTyped
<1>2. WellTyped' /\ StepForms
  BY <1>1, TypedStep, NextIs
<1>3. ToastFine'
  BY <1>1, ToastFineStep
<1>4. SUFFICES Orderly(store') /\ Showable(list') /\ Fine'
  BY <1>2, <1>3 DEF RecordInv
<1>5. ASSUME calls' = calls PROVE Fine'
  BY <1>1, <1>5
<1>6. ASSUME store' = store PROVE Orderly(store')
  BY <1>1, <1>6
<1>7. ASSUME list' = list PROVE Showable(list')
  BY <1>1, <1>7
<1>8. CASE Stays \/ HidesRow \/ UndoDelete
  <2>1. calls' = calls /\ store' = store /\ list' = list
    BY <1>8 DEF Stays, HidesRow, UndoDelete
  <2>2. QED
    BY <1>5, <1>6, <1>7, <2>1
<1>9. CASE SendsMove
  <2>1. store' = store
    BY <1>9 DEF SendsMove
  <2>2. Fine' /\ Showable(list)'
    BY <1>1, <1>9, MoveSentFine
  <2>3. Showable(list')
    BY <2>2 DEF Showable, IsList, OwnNumbers
  <2>4. QED
    BY <1>6, <2>1, <2>2, <2>3
<1>10. CASE AsksForDone
  <2>1. store' = store /\ list' = list
    BY <1>10 DEF AsksForDone
  <2>2. Fine'
    BY <1>1, <1>10, DoneSentFine
  <2>3. QED
    BY <1>6, <1>7, <2>1, <2>2
<1>11. CASE AsksForParent
  <2>1. store' = store /\ list' = list
    BY <1>11 DEF AsksForParent
  <2>2. PICK c \in Call : \E kind, t : \E wants : kind \in {"lift", "subtree"} /\ SendDelete(c, kind, t, wants)
    BY <1>11 DEF AsksForParent
  <2>3. PICK kind, t : \E wants : kind \in {"lift", "subtree"} /\ SendDelete(c, kind, t, wants)
    BY <2>2
  <2>4. PICK wants : kind \in {"lift", "subtree"} /\ SendDelete(c, kind, t, wants)
    BY <2>3
  <2>5. Fine'
    BY <1>1, <2>4, DeleteSentFine
  <2>6. QED
    BY <1>6, <1>7, <2>1, <2>5
<1>12. ASSUME NEW i \in DOMAIN pending, TimerFires(i) PROVE Orderly(store') /\ Showable(list') /\ Fine'
  <2>1. store' = store /\ list' = list
    BY <1>12 DEF TimerFires
  <2> DEFINE t == pending[i].task
  <2>2. PICK c \in Call : SendDelete(c, "delete", t, {t})
    BY <1>12 DEF TimerFires
  <2> HIDE DEF t
  <2>3. Fine'
    BY <1>1, <2>2, DeleteSentFine
  <2>4. QED
    BY <1>6, <1>7, <2>1, <2>3
<1>13. CASE LeavePage
  <2>1. store' = store /\ list' = list
    BY <1>13 DEF LeavePage
  <2>2. Fine'
    BY <1>1, <1>13, LeavesFine
  <2>3. QED
    BY <1>6, <1>7, <2>1, <2>2
<1>14. ASSUME NEW c \in Call, Apply(c) PROVE Orderly(store') /\ Showable(list') /\ Fine'
  <2>1. list' = list
    BY <1>14 DEF Apply
  <2>2. Fine' /\ Orderly(store')
    BY <1>1, <1>14, ApplyFine
  <2>3. QED
    BY <1>7, <2>1, <2>2
<1>15. ASSUME NEW c \in Call, Refuse(c) PROVE Orderly(store') /\ Showable(list') /\ Fine'
  <2>1. store' = store /\ list' = list
    BY <1>15 DEF Refuse
  <2>2. Fine'
    BY <1>1, <1>15, RefuseFine
  <2>3. QED
    BY <1>6, <1>7, <2>1, <2>2
<1>16. ASSUME NEW c \in Call, Answered(c) PROVE Orderly(store') /\ Showable(list') /\ Fine'
  <2>1. store' = store /\ list' = list /\ calls' = [calls EXCEPT ![c] = Free]
    BY <1>16 DEF Answered
  <2>2. Fine'
    BY <1>1, <2>1, OverFine
  <2>3. QED
    BY <1>6, <1>7, <2>1, <2>2
<1>17. ASSUME NEW c \in Call, Failed(c) PROVE Orderly(store') /\ Showable(list') /\ Fine'
  <2> DEFINE call == calls[c]
  <2>1. /\ call.phase = "refused" /\ store' = store /\ calls' = [calls EXCEPT ![c] = Free]
        /\ list' = list \/ (call.kind \in {"move", "undo"} /\ list' = call.snapshot)
    BY <1>17 DEF Failed
  <2>2. call.kind \in {"move", "undo"} => Showable(call.snapshot)
    BY <1>1, <2>1 DEF CallFine, MoveFine
  <2>3. Showable(list')
    BY <1>7, <2>1, <2>2
  <2>4. Fine'
    BY <1>1, <2>1, OverFine
  <2>5. QED
    BY <1>6, <2>1, <2>3, <2>4
<1>18. CASE Fetched
  <2>1. store' = store /\ calls' = calls /\ list' = Loaded(store)
    BY <1>18 DEF Fetched
  <2>2. Showable(list')
    BY <1>1, <2>1, LoadedShowable
  <2>3. QED
    BY <1>5, <1>6, <2>1, <2>2
<1>19. QED
  BY <1>2, <1>8, <1>9, <1>10, <1>11, <1>12, <1>13, <1>14, <1>15, <1>16, <1>17, <1>18 DEF StepForms

\* So no row jumps,
LEMMA RecordHolds ==
  ASSUME RecordInv
  PROVE  NothingJumps
<1>1. SUFFICES ASSUME NEW c \in Call, calls[c].kind = "move", calls[c].phase = "applied",
                      calls[c].before = Arrangement(calls[c].snapshot), Content = calls[c].after,
                      list = ApplyMove(calls[c].snapshot, calls[c].task, calls[c].to.up, calls[c].to.index)
               PROVE  Arrangement(list) = Content
  BY DEF NothingJumps
<1>2. AppliedFine(calls[c])
  BY DEF RecordInv, CallFine
<1>3. QED
  BY <1>1, <1>2 DEF AppliedFine

\* What a request becomes when the server applies it comes of Apply.
LEMMA OnlyApply ==
  ASSUME WellTyped, [Next]_vars, NEW c \in Call, calls[c].phase = "sent", calls'[c].phase = "applied"
  PROVE  Apply(c)
<1>1. AreCalls /\ StepForms /\ PhaseOf[c] = "sent" /\ PhaseOf'[c] = "applied"
  BY NextIs DEF WellTyped, PhaseOf
<1>2. ASSUME NEW d \in Call, NEW kind, NEW t, NEW phase, NEW wants, NEW snapshot, phase # "applied",
             Becomes(d, kind, t, phase, wants, snapshot)
      PROVE  FALSE
  BY <1>1, <1>2 DEF Becomes, Others
<1>3. ASSUME calls' = calls PROVE FALSE
  BY <1>1, <1>3, SameCalls
<1>4. ~ (Stays \/ HidesRow \/ UndoDelete \/ Fetched)
  BY <1>3 DEF Stays, HidesRow, UndoDelete, Fetched
<1>5. ~ SendsMove
  BY <1>1, <1>2, MoveSent DEF SendsMove
<1>6. ~ AsksForDone
  BY <1>1, <1>2, DoneSent DEF AsksForDone
<1>7. ~ AsksForParent
  BY <1>1, <1>2, DeleteSent DEF AsksForParent
<1>8. ~ \E i \in DOMAIN pending : TimerFires(i)
  BY <1>1, <1>2, DeleteSent DEF TimerFires
<1>9. ~ LeavePage
  <2>1. SUFFICES ASSUME LeavePage PROVE FALSE
    OBVIOUS
  <2>2. PICK sent : Leaves(sent)
    BY <1>1, <2>1, LeavePageIs
  <2>3. QED
    BY <1>1, <2>2 DEF Leaves
<1>10. ~ \E d \in Call : Refuse(d) \/ Answered(d) \/ Failed(d)
  BY <1>1, <1>2, RefuseIs, AnsweredIs, FailedIs
<1>11. PICK d \in Call : Apply(d)
  BY <1>1, <1>4, <1>5, <1>6, <1>7, <1>8, <1>9, <1>10 DEF StepForms
<1>12. d = c
  BY <1>1, <1>11, ApplyIs DEF WellTyped, Becomes, Others
<1>13. QED
  BY <1>11, <1>12

\* UndoRestores, of one step.
PutsBack ==
  \A c \in Call :
    calls[c].phase = "sent" /\ calls'[c].phase = "applied" /\ calls[c].kind \in {"undo", "undone"}
    /\ calls[c].after = Content /\ calls[c].after # calls[c].before
      => Content' = calls[c].before

\* and what is undone is as it was.
LEMMA RecordRestores ==
  ASSUME RecordInv, [Next]_vars
  PROVE  PutsBack
<1>1. SUFFICES ASSUME NEW c \in Call, calls[c].phase = "sent", calls'[c].phase = "applied",
                      calls[c].kind \in {"undo", "undone"}, calls[c].after = Content,
                      calls[c].after # calls[c].before
               PROVE  Content' = calls[c].before
  BY DEF PutsBack
<1> DEFINE t == calls[c].task
           to == calls[c].to
           before == calls[c].before
           after == calls[c].after
<1>2. Apply(c)
  BY <1>1, OnlyApply DEF RecordInv
<1>3. Applied(calls[c].kind, t, to)
  BY <1>2 DEF Apply
<1>4. IsTree(store) /\ OwnNumbers(store) /\ SentFine(calls[c])
  BY DEF RecordInv, WellTyped, Orderly, CallFine
<1>5. Content = Arrangement(Loaded(store)) /\ Content' = Arrangement(Loaded(store'))
  BY DEF Content
<1>6. CASE calls[c].kind = "undo"
  <2>1. store' = Moved(store, t, to.up, to.index)
    BY <1>3, <1>6 DEF Applied
  <2>2. MoveRecord(t, to, before, after)
    BY <1>1, <1>4, <1>6 DEF SentFine
  <2>3. after = Arrangement(Loaded(store))
    BY <1>1, <1>5
  <2> HIDE DEF t, to, before, after
  <2>4. Arrangement(Loaded(Moved(store, t, to.up, to.index))) = before
    BY <1>4, <2>2, <2>3, MoveUndone
  <2>5. QED
    BY <1>5, <2>1, <2>4 DEF before
<1>7. CASE calls[c].kind = "undone"
  <2>1. store' = SetDone(store, Reopened(Parents(store), DoneIn(store), t), FALSE)
    BY <1>3, <1>7 DEF Applied
  <2>2. DoneRecord(t, before, after)
    BY <1>1, <1>4, <1>7 DEF SentFine
  <2>3. after = Arrangement(Loaded(store))
    BY <1>1, <1>5
  <2> HIDE DEF t, before, after
  <2>4. Arrangement(Loaded(SetDone(store, Reopened(Parents(store), DoneIn(store), t), FALSE))) = before
    BY <1>4, <2>2, <2>3, DoneUndone
  <2>5. QED
    BY <1>5, <2>1, <2>4 DEF before
<1>8. QED
  BY <1>1, <1>6, <1>7

\* What the browser shows before the answer is what the server made of the
\* move: when the list comes, no row jumps, whatever else is under way.
THEOREM MovesDoNotJump == Spec => []NothingJumps
<1>1. Init => RecordInv
  BY RecordInit
<1>2. RecordInv /\ [Next]_vars => RecordInv'
  BY RecordStep
<1>3. RecordInv => NothingJumps
  BY RecordHolds
<1>4. QED
  BY <1>1, <1>2, <1>3, PTL DEF Spec

\* Undo puts the task back exactly where it was, and reopens exactly what was
\* completed along, if nothing else has changed.
THEOREM UndoPutsBack == Spec => UndoRestores
<1>1. Init => RecordInv
  BY RecordInit
<1>2. RecordInv /\ [Next]_vars => RecordInv'
  BY RecordStep
<1>3. RecordInv /\ [Next]_vars => PutsBack
  BY RecordRestores
<1>4. Spec => [][PutsBack]_vars
  BY <1>1, <1>2, <1>3, PTL DEF Spec
<1>5. QED
  BY <1>4 DEF UndoRestores, PutsBack

=============================================================================
