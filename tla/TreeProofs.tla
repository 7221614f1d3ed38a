----------------------------- MODULE TreeProofs -----------------------------
(***************************************************************************)
(* The tree of tasks and its Start/End graph: what ancestors are, what      *)
(* completing and reopening a task keep, and what changes of the edges keep *)
(* the graph acyclic: removing some, adding one whose source its target     *)
(* does not reach, adding a leaf task, and taking out nodes that are        *)
(* bridged.                                                                 *)
(***************************************************************************)
EXTENDS StartEndGraph, TLAPS

-----------------------------------------------------------------------------
(* Ancestors.                                                              *)

LEMMA AncestorsClosed ==
  ASSUME NEW up \in [Task -> Task \cup {Null}], NEW x \in Task
  PROVE  /\ up[x] # Null => up[x] \in Ancestors(up, x)
         /\ \A a \in Ancestors(up, x) : up[a] # Null => up[a] \in Ancestors(up, x)
BY DEF Ancestors

\* The ancestors are the least set that is closed.
LEMMA AncestorsLeast ==
  ASSUME NEW up, NEW x, NEW S \in SUBSET Task,
         \A y \in S \cup {x} : up[y] # Null => up[y] \in S
  PROVE  Ancestors(up, x) \subseteq S
BY DEF Ancestors

LEMMA AncestorsStep ==
  ASSUME NEW up \in [Task -> Task \cup {Null}], NEW x \in Task, Null \notin Task
  PROVE  /\ up[x] = Null => Ancestors(up, x) = {}
         /\ up[x] # Null => Ancestors(up, x) = {up[x]} \cup Ancestors(up, up[x])
<1>1. CASE up[x] = Null
  <2> DEFINE S == {y \in Task : FALSE}
  <2>1. S \in SUBSET Task /\ \A y \in S \cup {x} : up[y] # Null => up[y] \in S
    BY <1>1
  <2>2. Ancestors(up, x) \subseteq S
    BY <2>1, AncestorsLeast
  <2>3. QED
    BY <1>1, <2>2
<1>2. CASE up[x] # Null
  <2> DEFINE p == up[x]
  <2>1. p \in Task
    BY <1>2
  <2>2. Ancestors(up, x) \subseteq {p} \cup Ancestors(up, p)
    <3>1. {p} \cup Ancestors(up, p) \in SUBSET Task
      BY <2>1 DEF Ancestors
    <3>2. \A y \in ({p} \cup Ancestors(up, p)) \cup {x} :
             up[y] # Null => up[y] \in {p} \cup Ancestors(up, p)
      BY <2>1, AncestorsClosed
    <3>3. QED
      BY <3>1, <3>2, AncestorsLeast
  <2>3. Ancestors(up, p) \subseteq Ancestors(up, x)
    <3>1. Ancestors(up, x) \in SUBSET Task
      BY DEF Ancestors
    <3>2. \A y \in Ancestors(up, x) \cup {p} : up[y] # Null => up[y] \in Ancestors(up, x)
      BY <1>2, AncestorsClosed
    <3>3. QED
      BY <3>1, <3>2, AncestorsLeast
  <2>4. p \in Ancestors(up, x)
    BY <1>2, AncestorsClosed
  <2>5. QED
    BY <1>2, <2>2, <2>3, <2>4
<1>3. QED
  BY <1>1, <1>2

\* Ancestors are tasks in the database.
LEMMA AncestorsIn ==
  ASSUME NEW T \in SUBSET Task, NEW up, NEW x,
         \A y \in Task : up[y] # Null => up[y] \in T,
         x \in Task
  PROVE  Ancestors(up, x) \subseteq T
<1>1. \A y \in T \cup {x} : up[y] # Null => up[y] \in T
  OBVIOUS
<1>2. QED
  BY <1>1, AncestorsLeast

LEMMA AncestorsOfAncestors ==
  ASSUME NEW up \in [Task -> Task \cup {Null}], NEW x \in Task, NEW y \in Ancestors(up, x)
  PROVE  y \in Task /\ Ancestors(up, y) \subseteq Ancestors(up, x)
<1>1. \A z \in Ancestors(up, x) : up[z] # Null => up[z] \in Ancestors(up, x)
  BY AncestorsClosed
<1>2. y \in Task /\ Ancestors(up, x) \in SUBSET Task
  BY DEF Ancestors
<1>3. QED
  BY <1>1, <1>2, AncestorsLeast

\* Of two ancestors of a task one is above the other.
LEMMA AncestorsInLine ==
  ASSUME NEW up \in [Task -> Task \cup {Null}], NEW x \in Task,
         NEW a \in Ancestors(up, x), NEW b \in Ancestors(up, x)
  PROVE  a = b \/ a \in Ancestors(up, b) \/ b \in Ancestors(up, a)
<1> DEFINE S == {c \in Ancestors(up, x) :
                   a = c \/ a \in Ancestors(up, c) \/ c \in Ancestors(up, a)}
<1>1. a \in Task /\ Ancestors(up, x) \in SUBSET Task
  BY DEF Ancestors
<1>2. ASSUME up[x] # Null PROVE up[x] \in S
  BY <1>2, AncestorsStep, AncestorsClosed, NullAssumption
<1>3. ASSUME NEW c \in S, up[c] # Null PROVE up[c] \in S
  <2>1. c \in Task /\ up[c] \in Ancestors(up, x)
    BY <1>1, <1>3, AncestorsClosed
  <2>2. CASE a = c
    BY <1>1, <1>3, <2>1, <2>2, AncestorsClosed
  <2>3. CASE a \in Ancestors(up, c)
    BY <1>3, <2>1, <2>3, AncestorsStep, NullAssumption
  <2>4. CASE c \in Ancestors(up, a)
    BY <1>1, <1>3, <2>1, <2>4, AncestorsClosed
  <2>5. QED
    BY <2>2, <2>3, <2>4
<1>4. S \in SUBSET Task
  BY <1>1
<1> HIDE DEF S
<1>5. Ancestors(up, x) \subseteq S
  BY <1>2, <1>3, <1>4, AncestorsLeast
<1>6. QED
  BY <1>5 DEF S

\* No part of the tree goes up for ever.
Rooted(up) == \A S \in SUBSET Task : S # {} => \E y \in S : up[y] \notin S

LEMMA RootedNotOwn ==
  ASSUME NEW up \in [Task -> Task \cup {Null}], Rooted(up), NEW x \in Task
  PROVE  x \notin Ancestors(up, x)
<1> SUFFICES ASSUME x \in Ancestors(up, x) PROVE FALSE
  OBVIOUS
<1> DEFINE B == Below(up, x)
<1>1. B \in SUBSET Task /\ x \in B
  BY DEF Below
<1>2. PICK y \in B : up[y] \notin B
  BY <1>1 DEF Rooted
<1>3. y \in Task /\ x \in Ancestors(up, y)
  BY <1>2 DEF Below
<1>4. up[y] \in Task /\ (x = up[y] \/ x \in Ancestors(up, up[y]))
  BY <1>3, AncestorsStep, NullAssumption
<1>5. QED
  BY <1>2, <1>4 DEF Below

\* Every walk up ends at a task without a parent.
LEMMA RootedHasRoot ==
  ASSUME NEW up \in [Task -> Task \cup {Null}], Rooted(up), NEW x \in Task
  PROVE  \E r \in {x} \cup Ancestors(up, x) : up[r] = Null
<1> DEFINE W == {x} \cup Ancestors(up, x)
<1>1. W \in SUBSET Task /\ W # {}
  BY DEF Ancestors
<1>2. PICK y \in W : up[y] \notin W
  BY <1>1 DEF Rooted
<1>3. up[y] # Null => up[y] \in W
  BY AncestorsClosed
<1>4. QED
  BY <1>2, <1>3

-----------------------------------------------------------------------------
(* Completing and reopening.  What is below a completed task is completed:  *)
(* no more than that a subtask of one is.                                   *)

DownClosed(up, dn) == \A t \in dn : Below(up, t) \subseteq dn

LEMMA DownClosedIsLocal ==
  ASSUME NEW up \in [Task -> Task \cup {Null}], NEW dn \in SUBSET Task
  PROVE  DownClosed(up, dn) <=> \A x \in Task : up[x] \in dn => x \in dn
<1>1. ASSUME DownClosed(up, dn), NEW x \in Task, up[x] \in dn PROVE x \in dn
  <2>1. up[x] \in Ancestors(up, x)
    BY <1>1, AncestorsClosed, NullAssumption
  <2>2. QED
    BY <1>1, <2>1 DEF DownClosed, Below
<1>2. ASSUME \A x \in Task : up[x] \in dn => x \in dn,
             NEW t \in dn, NEW x \in Below(up, t), x \notin dn
      PROVE  FALSE
  <2>1. Task \ dn \in SUBSET Task /\ \A y \in (Task \ dn) \cup {x} : up[y] # Null => up[y] \in Task \ dn
    BY <1>2 DEF Below
  <2>2. Ancestors(up, x) \subseteq Task \ dn
    BY <2>1, AncestorsLeast
  <2>3. QED
    BY <1>2, <2>2 DEF Below
<1>3. QED
  BY <1>1, <1>2 DEF DownClosed

\* Between a task and an ancestor that is finished with it all are.
LEMMA FinishedBetween ==
  ASSUME NEW up \in [Task -> Task \cup {Null}], NEW t \in Task, NEW dn \in SUBSET Task,
         NEW a \in FinishedAncestors(up, dn, t), NEW b \in Between(up, t, a)
  PROVE  b \in FinishedAncestors(up, dn, t)
<1>1. /\ a \in Ancestors(up, t) /\ b \in Ancestors(up, t) /\ b \in Task
      /\ b = a \/ a \in Ancestors(up, b)
  BY DEF FinishedAncestors, Between, Ancestors
<1>2. ASSUME NEW c \in Between(up, t, b)
      PROVE  /\ c \notin dn
             /\ Children(up, c) \subseteq dn \cup {t} \cup Between(up, t, b)
  <2>1. c \in Ancestors(up, t) /\ c \in Task /\ (c = b \/ b \in Ancestors(up, c))
    BY <1>2 DEF Between, Ancestors
  <2>2. c = a \/ a \in Ancestors(up, c)
    BY <1>1, <2>1, AncestorsOfAncestors
  <2>3. c \in Between(up, t, a)
    BY <2>1, <2>2 DEF Between
  <2>4. c \notin dn /\ Children(up, c) \subseteq dn \cup {t} \cup Between(up, t, a)
    BY <2>3 DEF FinishedAncestors
  <2>5. ASSUME NEW d \in Children(up, c), d \in Between(up, t, a)
        PROVE  d \in Between(up, t, b)
    <3>1. d \in Task /\ up[d] = c /\ d \in Ancestors(up, t)
      BY <2>5 DEF Children, Between
    <3>2. c \in Ancestors(up, d)
      BY <2>1, <3>1, AncestorsClosed, NullAssumption
    <3>3. b \in Ancestors(up, d)
      BY <2>1, <3>1, <3>2, AncestorsOfAncestors
    <3>4. QED
      BY <3>1, <3>3 DEF Between
  <2>6. QED
    BY <2>4, <2>5
<1>3. QED
  BY <1>1, <1>2 DEF FinishedAncestors

\* Completing a task and its finished ancestors leaves no open one below them.
LEMMA CompleteDownClosed ==
  ASSUME NEW up \in [Task -> Task \cup {Null}], NEW t \in Task, NEW dn \in SUBSET Task,
         DownClosed(up, dn), Below(up, t) \subseteq dn
  PROVE  DownClosed(up, dn \cup {t} \cup FinishedAncestors(up, dn, t))
<1> DEFINE A == FinishedAncestors(up, dn, t)
<1>1. ASSUME NEW a \in A, NEW b \in Between(up, t, a) PROVE b \in A
  BY FinishedBetween
<1>2. ASSUME NEW a \in A PROVE Below(up, a) \subseteq dn \cup {t} \cup Between(up, t, a)
  <2> DEFINE D == dn \cup {t} \cup Between(up, t, a)
             S == Task \ D
  <2>1. a \in Between(up, t, a)
    BY DEF FinishedAncestors, Between
  <2>2. \A b \in Between(up, t, a) : Children(up, b) \subseteq D
    BY DEF FinishedAncestors
  <2>3. ASSUME NEW y \in S, up[y] # Null PROVE up[y] \in S
    <3>1. up[y] \in Task /\ y \in Task /\ y \in Children(up, up[y])
      BY <2>3 DEF Children
    <3>2. y \in Below(up, up[y])
      BY <2>3, <3>1, AncestorsClosed DEF Below
    <3>3. up[y] \notin Between(up, t, a)
      BY <2>2, <3>1
    <3>4. up[y] # t /\ up[y] \notin dn
      BY <3>2 DEF DownClosed
    <3>5. QED
      BY <3>1, <3>3, <3>4
  <2>4. ASSUME NEW x \in Below(up, a), x \notin D PROVE FALSE
    <3>1. x \in S /\ a \in Ancestors(up, x)
      BY <2>4 DEF Below
    <3> HIDE DEF S
    <3>2. S \in SUBSET Task
      BY DEF S
    <3>3. Ancestors(up, x) \subseteq S
      BY <2>3, <3>1, <3>2, AncestorsLeast
    <3>4. QED
      BY <2>1, <3>1, <3>3 DEF S
  <2>5. QED
    BY <2>4
<1> HIDE DEF A
<1>3. \A a \in A : Below(up, a) \subseteq dn \cup {t} \cup A
  BY <1>1, <1>2
<1>4. DownClosed(up, dn \cup {t} \cup A)
  BY <1>3 DEF DownClosed
<1>5. QED
  BY <1>4 DEF A

\* Reopening a task reopens what it is below of.
LEMMA ReopenDownClosed ==
  ASSUME NEW up \in [Task -> Task \cup {Null}], NEW t \in Task, NEW dn \in SUBSET Task, DownClosed(up, dn)
  PROVE  DownClosed(up, dn \ Reopened(up, dn, t))
<1>1. ASSUME NEW x \in dn, NEW y \in Below(up, x), y \in Reopened(up, dn, t)
      PROVE  x \in Reopened(up, dn, t)
  <2>1. x \in Ancestors(up, y) /\ (y = t \/ y \in Ancestors(up, t))
    BY <1>1 DEF Below, Reopened
  <2>2. x \in Ancestors(up, t)
    BY <2>1, AncestorsOfAncestors
  <2>3. Between(up, t, x) \subseteq dn
    BY <1>1, <2>2 DEF Between, DownClosed, Below, Ancestors
  <2>4. QED
    BY <2>2, <2>3 DEF Reopened
<1>2. QED
  BY <1>1 DEF DownClosed

\* Completing a task goes as far up as it can.
LEMMA FinishedGoesUp ==
  ASSUME NEW up \in [Task -> Task \cup {Null}], Rooted(up), NEW t \in Task, NEW dn \in SUBSET Task,
         NEW x \in {t} \cup FinishedAncestors(up, dn, t), up[x] # Null,
         Children(up, up[x]) \subseteq dn \cup {t} \cup FinishedAncestors(up, dn, t)
  PROVE  up[x] \in dn \cup {t} \cup FinishedAncestors(up, dn, t)
<1> DEFINE F == FinishedAncestors(up, dn, t)
           p == up[x]
<1>1. x \in Task /\ p \in Task
  BY DEF FinishedAncestors, Ancestors
<1>2. p \in Ancestors(up, x) /\ (x # t => x \in Ancestors(up, t))
  BY AncestorsClosed, <1>1 DEF FinishedAncestors
<1>3. p \in Ancestors(up, t)
  BY <1>1, <1>2, AncestorsOfAncestors
<1>4. SUFFICES ASSUME p \notin dn PROVE p \in F
  OBVIOUS
<1>5. \A b \in Ancestors(up, p) : p \notin Ancestors(up, b)
  BY <1>1, AncestorsOfAncestors, RootedNotOwn
<1>6. \A b \in Between(up, t, p) : b = p \/ b = x \/ b \in Between(up, t, x)
  <2> SUFFICES ASSUME NEW b \in Between(up, t, p), b # p, b # x PROVE b \in Between(up, t, x)
    OBVIOUS
  <2>1. b \in Ancestors(up, t) /\ p \in Ancestors(up, b)
    BY DEF Between
  <2>2. b \notin Ancestors(up, x)
    BY <1>1, <1>5, <2>1, AncestorsStep, NullAssumption
  <2>3. x # t
    BY <2>1, <2>2
  <2>4. x \in Ancestors(up, b)
    BY <1>2, <2>1, <2>2, <2>3, AncestorsInLine
  <2>5. QED
    BY <2>1, <2>4 DEF Between
<1>7. x # t => /\ x \in Between(up, t, x)
               /\ Between(up, t, x) \subseteq Between(up, t, p)
  <2> SUFFICES ASSUME x # t PROVE /\ x \in Between(up, t, x)
                                  /\ Between(up, t, x) \subseteq Between(up, t, p)
    OBVIOUS
  <2>1. x \in Between(up, t, x)
    BY <1>2 DEF Between
  <2>2. ASSUME NEW b \in Between(up, t, x) PROVE b \in Between(up, t, p)
    <3>1. b \in Task /\ b \in Ancestors(up, t) /\ (b = x \/ x \in Ancestors(up, b))
      BY DEF Between, Ancestors
    <3>2. p \in Ancestors(up, b)
      BY <1>2, <3>1, AncestorsOfAncestors
    <3>3. QED
      BY <3>1, <3>2 DEF Between
  <2>3. QED
    BY <2>1, <2>2
<1>8. Children(up, p) \subseteq dn \cup {t} \cup Between(up, t, p)
  <2> SUFFICES ASSUME NEW c \in Children(up, p), c \in F PROVE c \in Between(up, t, p)
    OBVIOUS
  <2>1. c \in Task /\ up[c] = p /\ c \in Ancestors(up, t)
    BY DEF Children, FinishedAncestors
  <2>2. p \in Ancestors(up, c)
    BY <1>1, <2>1, AncestorsClosed, NullAssumption
  <2>3. QED
    BY <2>1, <2>2 DEF Between
<1>9. ASSUME NEW b \in Between(up, t, p)
      PROVE  b \notin dn /\ Children(up, b) \subseteq dn \cup {t} \cup Between(up, t, p)
  <2>1. CASE b = p
    BY <1>4, <1>8, <2>1
  <2>2. CASE b # p /\ x = t
    <3>1. b = t \/ b \in Between(up, t, t)
      BY <1>6, <2>2
    <3>2. t \in Ancestors(up, t)
      BY <3>1, AncestorsOfAncestors DEF Between
    <3>3. QED
      BY <3>2, RootedNotOwn
  <2>3. CASE b # p /\ x # t
    <3>1. b \in Between(up, t, x) /\ x \in F
      BY <1>6, <1>7, <2>3
    <3>2. b \notin dn /\ Children(up, b) \subseteq dn \cup {t} \cup Between(up, t, x)
      BY <3>1 DEF FinishedAncestors
    <3>3. QED
      BY <1>7, <2>3, <3>2
  <2>4. QED
    BY <2>1, <2>2, <2>3
<1>10. QED
  BY <1>3, <1>9 DEF FinishedAncestors

-----------------------------------------------------------------------------
(* The edges of the Start/End graph.                                       *)

Edge(E, a, b) == \E e \in E : e[1] = a /\ e[2] = b

\* Acyclic speaks of nothing but which nodes are joined by an edge.
LEMMA AcyclicByEdges ==
  ASSUME NEW E
  PROVE  Acyclic(E) <=> \A S \in SUBSET Node :
           S # {} => \E n \in S : \A a \in S : ~ Edge(E, a, n)
<1>1. \A S, n : (\A e \in E : e[2] = n => e[1] \notin S)
                  <=> (\A a \in S : ~ Edge(E, a, n))
  BY DEF Edge
<1>2. ASSUME Acyclic(E), NEW S \in SUBSET Node, S # {}
      PROVE  \E n \in S : \A a \in S : ~ Edge(E, a, n)
  <2>1. PICK n \in S : \A e \in E : e[2] = n => e[1] \notin S
    BY <1>2 DEF Acyclic
  <2>2. QED
    BY <1>1, <2>1
<1>3. ASSUME \A S \in SUBSET Node :
               S # {} => \E n \in S : \A a \in S : ~ Edge(E, a, n)
      PROVE  Acyclic(E)
  <2>1. SUFFICES ASSUME NEW S \in SUBSET Node, S # {}
                 PROVE  \E n \in S : \A e \in E : e[2] = n => e[1] \notin S
    BY DEF Acyclic
  <2>2. PICK n \in S : \A a \in S : ~ Edge(E, a, n)
    BY <1>3, <2>1
  <2>3. QED
    BY <1>1, <2>2
<1>4. QED
  BY <1>2, <1>3

\* Fewer edges make no cycle.
LEMMA FewerEdges ==
  ASSUME NEW E, NEW F, Acyclic(F),
         \A a, b : Edge(E, a, b) => Edge(F, a, b)
  PROVE  Acyclic(E)
<1>1. SUFFICES ASSUME NEW S \in SUBSET Node, S # {}
               PROVE  \E n \in S : \A a \in S : ~ Edge(E, a, n)
  BY AcyclicByEdges
<1>2. PICK n \in S : \A a \in S : ~ Edge(F, a, n)
  BY <1>1, AcyclicByEdges
<1>3. QED
  BY <1>2

\* If b does not reach a, there is a closed set that separates them.
LEMMA Separation ==
  ASSUME NEW E, NEW a, NEW b, ~ Reaches(E, b, a)
  PROVE  \E T \in SUBSET Node : b \in T /\ Closed(E, T) /\ a \notin T
BY DEF Reaches

\* would_create_cycle: the edge from a to b closes no cycle unless b reaches a.
LEMMA AddedEdge ==
  ASSUME NEW E, NEW a \in Node, NEW b \in Node,
         Acyclic(E), ~ Reaches(E, b, a)
  PROVE  Acyclic(E \cup {<<a, b>>})
<1>1. PICK T \in SUBSET Node : b \in T /\ Closed(E, T) /\ a \notin T
  BY Separation
<1>2. SUFFICES ASSUME NEW S \in SUBSET Node, S # {}
               PROVE  \E n \in S : \A e \in E \cup {<<a, b>>} :
                        e[2] = n => e[1] \notin S
  BY DEF Acyclic
<1>3. CASE S \subseteq T
  <2>1. PICK n \in S : \A e \in E : e[2] = n => e[1] \notin S
    BY <1>2 DEF Acyclic
  <2>2. a \notin S
    BY <1>1, <1>3
  <2>3. QED
    BY <2>1, <2>2
<1>4. CASE ~ (S \subseteq T)
  <2>1. S \ T \in SUBSET Node /\ S \ T # {}
    BY <1>4
  <2>2. PICK n \in S \ T : \A e \in E : e[2] = n => e[1] \notin S \ T
    BY <2>1 DEF Acyclic
  <2>3. \A e \in E : e[2] = n => e[1] \notin S
    BY <1>1, <2>2 DEF Closed
  <2>4. n # b
    BY <1>1, <2>2
  <2>5. QED
    BY <2>2, <2>3, <2>4
<1>5. QED
  BY <1>3, <1>4

\* Nodes M can be taken out, if each edge that is new bridges one of them.
LEMMA BridgedNodes ==
  ASSUME NEW E, NEW F, NEW M \in SUBSET Node, Acyclic(E),
         \A a, b : Edge(F, a, b) => a \notin M /\ b \notin M,
         \A a, b : Edge(F, a, b) =>
           Edge(E, a, b) \/ \E m \in M : Edge(E, a, m) /\ Edge(E, m, b)
  PROVE  Acyclic(F)
<1>1. SUFFICES ASSUME NEW S \in SUBSET Node, S # {}
               PROVE  \E n \in S : \A a \in S : ~ Edge(F, a, n)
  BY AcyclicByEdges
<1>2. CASE S \subseteq M
  BY <1>1, <1>2
<1>3. CASE ~ (S \subseteq M)
  <2> DEFINE R == S \ M
             B == {m \in M : \E a \in R : Edge(E, a, m)}
  <2>1. R \cup B \in SUBSET Node /\ R \cup B # {}
    BY <1>3
  <2>2. PICK n \in R \cup B : \A a \in R \cup B : ~ Edge(E, a, n)
    BY <2>1, AcyclicByEdges
  <2>3. n \in R
    BY <2>2
  <2>4. ASSUME NEW a \in S, Edge(F, a, n)
        PROVE  FALSE
    <3>1. a \in R
      BY <2>4
    <3>2. PICK m \in M : Edge(E, a, m) /\ Edge(E, m, n)
      BY <2>2, <2>4, <3>1
    <3>3. QED
      BY <2>2, <3>1, <3>2
  <2>5. QED
    BY <2>3, <2>4
<1>4. QED
  BY <1>2, <1>3

-----------------------------------------------------------------------------

\* The four forms an edge can have.
LEMMA EdgeForms ==
  ASSUME NEW T, NEW up, NEW D, NEW a, NEW b
  PROVE  Edge(StartEndEdges(T, up, D), a, b) <=>
         \/ \E t \in T : a = Start(t) /\ b = End(t)
         \/ \E t \in T : up[t] # Null /\ a = Start(up[t]) /\ b = Start(t)
         \/ \E t \in T : up[t] # Null /\ a = End(t) /\ b = End(up[t])
         \/ \E d \in D : a = End(d[1]) /\ b = Start(d[2])
<1> DEFINE E == StartEndEdges(T, up, D)
<1>1. \A x, y : <<x, y>> \in E => Edge(E, x, y)
  BY DEF Edge
<1>2. ASSUME NEW t \in T
      PROVE  Edge(E, Start(t), End(t))
  BY <1>1 DEF StartEndEdges
<1>3. ASSUME NEW t \in T, up[t] # Null
      PROVE  Edge(E, Start(up[t]), Start(t)) /\ Edge(E, End(t), End(up[t]))
  BY <1>1, <1>3 DEF StartEndEdges
<1>4. ASSUME NEW d \in D
      PROVE  Edge(E, End(d[1]), Start(d[2]))
  BY <1>1 DEF StartEndEdges
<1>5. Edge(E, a, b) =>
        \/ \E t \in T : a = Start(t) /\ b = End(t)
        \/ \E t \in T : up[t] # Null /\ a = Start(up[t]) /\ b = Start(t)
        \/ \E t \in T : up[t] # Null /\ a = End(t) /\ b = End(up[t])
        \/ \E d \in D : a = End(d[1]) /\ b = Start(d[2])
  BY DEF Edge, StartEndEdges
<1> HIDE DEF E
<1>6. QED
  BY <1>2, <1>3, <1>4, <1>5 DEF E

LEMMA Nodes ==
  /\ \A t \in Task : Start(t) \in Node /\ End(t) \in Node
  /\ \A t, u : Start(t) # End(u)
  /\ \A t, u : Start(t) = Start(u) => t = u
  /\ \A t, u : End(t) = End(u) => t = u
BY DEF Start, End, Node

\* A new task without subtasks and dependencies makes no cycle.
LEMMA NewLeaf ==
  ASSUME NEW T \in SUBSET Task, NEW up \in [Task -> Task \cup {Null}],
         NEW D \in SUBSET (T \X T), NEW t \in Task \ T, NEW p \in T \cup {Null},
         \A x \in T : up[x] # t, Null \notin Task,
         Acyclic(StartEndEdges(T, up, D))
  PROVE  Acyclic(StartEndEdges(T \cup {t}, [up EXCEPT ![t] = p], D))
<1> DEFINE E == StartEndEdges(T, up, D)
           new == [up EXCEPT ![t] = p]
           F == StartEndEdges(T \cup {t}, new, D)
<1>1. new[t] = p /\ \A x \in T : new[x] = up[x]
  OBVIOUS
<1>2. ASSUME NEW a, NEW b, Edge(F, a, b)
      PROVE  \/ Edge(E, a, b)
             \/ a = Start(t) /\ b = End(t)
             \/ p # Null /\ a = Start(p) /\ b = Start(t)
             \/ p # Null /\ a = End(t) /\ b = End(p)
  <2> HIDE DEF new
  <2>1. QED
    BY <1>1, <1>2, EdgeForms
<1>3. ASSUME NEW a, NEW b, Edge(E, a, b)
      PROVE  a \notin {Start(t), End(t)} /\ b \notin {Start(t), End(t)}
  <2>1. \A d \in D : d[1] \in T /\ d[2] \in T
    OBVIOUS
  <2>2. QED
    BY <1>3, <2>1, EdgeForms, Nodes
<1>4. p # Null => Edge(E, Start(p), End(p)) /\ Start(p) \in Node
  BY EdgeForms, Nodes
<1> HIDE DEF E, F, new
<1>5. SUFFICES ASSUME NEW S \in SUBSET Node, S # {}
               PROVE  \E n \in S : \A a \in S : ~ Edge(F, a, n)
  BY AcyclicByEdges DEF F, new
<1> DEFINE R == S \ {Start(t), End(t)}
<1>6. \A Q \in SUBSET Node : Q # {} => \E n \in Q : \A a \in Q : ~ Edge(E, a, n)
  BY AcyclicByEdges DEF E
<1>7. CASE p = Null
  <2>1. CASE R # {}
    <3>1. PICK n \in R : \A a \in R : ~ Edge(E, a, n)
      BY <2>1, <1>6
    <3>2. QED
      BY <3>1, <1>2, <1>3, <1>7
  <2>2. CASE R = {}
    BY <2>2, <1>2, <1>3, <1>5, <1>7, Nodes
  <2>3. QED
    BY <2>1, <2>2
<1>8. CASE p # Null
  <2> DEFINE Q == R \cup {Start(p)}
  <2>0. Q \in SUBSET Node /\ Q # {}
    BY <1>4, <1>8
  <2>1. PICK n \in Q : \A a \in Q : ~ Edge(E, a, n)
    <3> HIDE DEF Q
    <3>1. QED
      BY <1>6, <2>0
  <2>2. n # End(p) /\ n # Start(t) /\ n # End(t)
    BY <1>4, <1>8, <2>1, Nodes
  <2>3. CASE n \in S
    BY <1>2, <1>3, <2>1, <2>2, <2>3
  <2>4. CASE n \notin S
    <3>1. n = Start(p)
      BY <2>1, <2>4
    <3>2. CASE Start(t) \in S
      BY <1>2, <1>3, <2>4, <3>1, <3>2, Nodes
    <3>3. CASE Start(t) \notin S /\ End(t) \in S
      BY <1>2, <1>3, <1>8, <3>3, Nodes
    <3>4. CASE Start(t) \notin S /\ End(t) \notin S
      <4>1. PICK m \in S : \A a \in S : ~ Edge(E, a, m)
        BY <1>5, <1>6
      <4>2. QED
        BY <1>2, <3>4, <4>1
    <3>5. QED
      BY <3>2, <3>3, <3>4
  <2>5. QED
    BY <2>3, <2>4
<1>9. QED
  BY <1>7, <1>8
=============================================================================
