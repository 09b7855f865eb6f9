------------------------- MODULE BackOfficeTheorems -------------------------
(***************************************************************************)
(* Theorems about the two parts of the back office that share no state.    *)
(*                                                                         *)
(* The category tree is sound whatever the operators do at the same time,  *)
(* with any number of operators and rows, with a foreign key or without.   *)
(* TreeIsSound speaks of committed rows only.  TreeInv adds what the       *)
(* operators in the middle of a creation know: a path that is still their  *)
(* parent's, whether or not the parent is still there, because paths never *)
(* change and ids are not drawn twice; and that nothing refers to an id    *)
(* before its row is committed.                                            *)
(*                                                                         *)
(* The list of the categories, sorted by the spelling of their paths, is   *)
(* the tree from top to bottom.  Different ids have different digits, and  *)
(* a slash stands before every id and sorts before every digit; so one     *)
(* spelling leads another, as far as it goes and up to the next slash,     *)
(* exactly when the path is the beginning of the other (SpelledBelow), and *)
(* what sorts between the two begins in the same way (Between).  What the  *)
(* recursive functions compute is shown by taking the least number at      *)
(* which it would fail.                                                    *)
(*                                                                         *)
(* The evaluation of the search: what a seeding reports, what a reader of  *)
(* the runs sees and what the summary of a run says are true, with any     *)
(* number of operators, knowledge, cases and findings.  EvalInv ties the   *)
(* counters of a run to its items, and a header that was read to a run     *)
(* that is saved; SeedsInv keeps the account of a seeding that nobody      *)
(* disturbs: what it counted is what the table holds.                      *)
(***************************************************************************)
EXTENDS CategoryTree, RagEval, FiniteSetTheorems, FunctionTheorems, TLAPS

-----------------------------------------------------------------------------
(* The category tree. *)

TargetType == [id : Nat, parent : Nat, level : Nat, path : Seq(Nat)]

TreeTypes ==
    /\ categories \in SUBSET Category
    /\ nextId \in Nat \ {0}
    /\ foreignKey \in BOOLEAN
    /\ doing \in [Operators -> {"nothing", "insert", "commit", "delete"}]
    /\ target \in [Operators -> TargetType]

\* Ids are drawn in order.
RowsAreOld == \A c \in categories : c.id < nextId /\ c.parent < nextId

\* What an operator that has not drawn the id yet took from the parent.
InsertFits(t) ==
    /\ t.level \in 1..3
    /\ Len(t.path) = t.level - 1
    /\ IF t.level = 1 THEN t.parent = 0 ELSE t.path[t.level - 1] = t.parent
    /\ t.parent < nextId
    /\ \A d \in categories : d.id = t.parent => d.path = t.path

InsertsFit == \A o \in Operators : doing[o] = "insert" => InsertFits(target[o])

\* The row that the transaction is about to show.
CommitFits(t) ==
    /\ IsSound(t)
    /\ t.id \in Nat \ {0} /\ t.id < nextId /\ t.parent < nextId
    /\ \A d \in categories : d.id = t.parent => t.path = Append(d.path, t.id)
    /\ foreignKey /\ t.parent # 0 => Exists(t.parent)

CommitsFit == \A o \in Operators : doing[o] = "commit" => CommitFits(target[o])

\* Nothing refers to the id of a row that is not committed.
DrawnIdsAreFresh ==
    \A o \in Operators : doing[o] = "commit" =>
        /\ \A c \in categories : c.id # target[o].id /\ c.parent # target[o].id
        /\ \A p \in Operators :
             /\ doing[p] \in {"insert", "commit"} => target[p].parent # target[o].id
             /\ doing[p] = "commit" /\ p # o => target[p].id # target[o].id

TreeInv ==
    TreeTypes /\ TreeIsSound /\ RowsAreOld /\ InsertsFit /\ CommitsFit /\ DrawnIdsAreFresh

-----------------------------------------------------------------------------
\* The path of a child.
LEMMA PathGrows ==
    ASSUME NEW path \in Seq(Nat), NEW id \in Nat
    PROVE  /\ Append(path, id) \in Seq(Nat)
           /\ Len(Append(path, id)) = Len(path) + 1
           /\ Append(path, id)[Len(path) + 1] = id
           /\ \A i \in 1..Len(path) : Append(path, id)[i] = path[i]
  OBVIOUS

LEMMA TreeInvInit == TreeInit => TreeInv
<1> SUFFICES ASSUME TreeInit PROVE TreeInv
  OBVIOUS
<1>1. Nothing \in TargetType
  BY DEF Nothing, TargetType
<1>2. TreeTypes
  BY <1>1 DEF TreeInit, TreeTypes
<1> QED
  BY <1>2 DEF TreeInit, TreeInv, TreeIsSound, RowsAreOld, InsertsFit, CommitsFit, DrawnIdsAreFresh

\* Beginning a creation or a deletion changes what one operator knows.
LEMMA GetParentStep ==
    ASSUME TreeInv, NEW o \in Operators, GetParent(o) PROVE TreeInv'
<1>1. PICK p \in categories :
        /\ p.level + 1 <= 3
        /\ target' = [target EXCEPT ![o] =
                        [id |-> 0, parent |-> p.id, level |-> p.level + 1, path |-> p.path]]
  BY DEF GetParent
<1>2. /\ doing' = [doing EXCEPT ![o] = "insert"]
      /\ UNCHANGED <<categories, nextId, foreignKey>>
  BY DEF GetParent
<1>3. p \in Category /\ IsSound(p) /\ p.id < nextId
      /\ \A d \in categories : d.id = p.id => d = p
  BY DEF TreeInv, TreeTypes, TreeIsSound, RowsAreOld
<1>4. TreeTypes'
  BY <1>1, <1>2, <1>3, SMTT(30) DEF TreeInv, TreeTypes, TargetType, Category
<1>5. TreeIsSound' /\ RowsAreOld'
  BY <1>2 DEF TreeInv, TreeIsSound, RowsAreOld, Exists
<1>6. InsertsFit'
  <2> SUFFICES ASSUME NEW q \in Operators, doing'[q] = "insert" PROVE InsertFits(target[q])'
    BY DEF InsertsFit
  <2>1. CASE q = o
    <3>1. target'[q] = [id |-> 0, parent |-> p.id, level |-> p.level + 1, path |-> p.path]
      BY <2>1, <1>1 DEF TreeInv, TreeTypes
    <3>2. p.level \in Nat /\ p.id \in Nat
      BY <1>3 DEF Category
    <3>4. p.level = Len(p.path) /\ p.level \in 1..3 /\ p.path[p.level] = p.id
      BY <1>3 DEF IsSound
    <3>5. p.level + 1 \in 1..3 /\ p.level + 1 # 1 /\ (p.level + 1) - 1 = p.level
      <4>1. p.level + 1 <= 3 /\ p.level \in 1..3
        BY <1>1, <3>4
      <4> QED
        BY <4>1, <3>2
    <3>3. /\ target'[q].level = p.level + 1 /\ target'[q].parent = p.id
          /\ target'[q].path = p.path
      BY <3>1
    <3> QED
      BY <3>3, <3>4, <3>5, <1>2, <1>3 DEF InsertFits
  <2>2. CASE q # o
    BY <2>2, <1>1, <1>2 DEF TreeInv, TreeTypes, InsertsFit, InsertFits
  <2> QED
    BY <2>1, <2>2
<1>7. CommitsFit'
  BY <1>1, <1>2 DEF TreeInv, TreeTypes, CommitsFit, CommitFits, IsSound, Exists
<1>8. DrawnIdsAreFresh'
  BY <1>1, <1>2 DEF TreeInv, TreeTypes, DrawnIdsAreFresh
<1> QED
  BY <1>4, <1>5, <1>6, <1>7, <1>8 DEF TreeInv

LEMMA NoParentStep ==
    ASSUME TreeInv, NEW o \in Operators, NoParent(o) PROVE TreeInv'
<1>1. /\ target' = [target EXCEPT ![o] = [id |-> 0, parent |-> 0, level |-> 1, path |-> <<>>]]
      /\ doing' = [doing EXCEPT ![o] = "insert"]
      /\ UNCHANGED <<categories, nextId, foreignKey>>
  BY DEF NoParent
<1>2. TreeTypes'
  BY <1>1 DEF TreeInv, TreeTypes, TargetType
<1>3. TreeIsSound' /\ RowsAreOld'
  BY <1>1 DEF TreeInv, TreeIsSound, RowsAreOld, Exists
<1>4. InsertsFit'
  <2> SUFFICES ASSUME NEW q \in Operators, doing'[q] = "insert" PROVE InsertFits(target[q])'
    BY DEF InsertsFit
  <2>1. CASE q = o
    <3>1. target'[q] = [id |-> 0, parent |-> 0, level |-> 1, path |-> <<>>]
      BY <2>1, <1>1 DEF TreeInv, TreeTypes
    <3> QED
      BY <3>1, <1>1 DEF InsertFits, TreeInv, TreeTypes, Category
  <2>2. CASE q # o
    BY <2>2, <1>1 DEF TreeInv, TreeTypes, InsertsFit, InsertFits
  <2> QED
    BY <2>1, <2>2
<1>5. CommitsFit'
  BY <1>1 DEF TreeInv, TreeTypes, CommitsFit, CommitFits, IsSound, Exists
<1>6. DrawnIdsAreFresh'
  <2>1. \A q \in Operators : doing[q] = "commit" => target[q].id # 0
    BY DEF TreeInv, CommitsFit, CommitFits
  <2> QED
    BY <1>1, <2>1 DEF TreeInv, TreeTypes, DrawnIdsAreFresh
<1> QED
  BY <1>2, <1>3, <1>4, <1>5, <1>6 DEF TreeInv

\* An operation that ends forgets what it knew.
LEMMA FinishedStep ==
    ASSUME TreeInv, NEW o \in Operators, Finished(o), UNCHANGED <<categories, foreignKey>>,
           nextId' \in {nextId, nextId + 1}
    PROVE  TreeInv'
<1>1. /\ doing' = [doing EXCEPT ![o] = "nothing"]
      /\ target' = [target EXCEPT ![o] = Nothing]
      /\ nextId \in Nat \ {0} /\ nextId <= nextId' /\ nextId' \in Nat \ {0}
  BY DEF Finished, TreeInv, TreeTypes
<1>2. TreeTypes'
  BY <1>1 DEF TreeInv, TreeTypes, TargetType, Nothing
<1>3. TreeIsSound'
  BY DEF TreeInv, TreeIsSound, Exists
<1>4. RowsAreOld'
  BY <1>1 DEF TreeInv, TreeTypes, RowsAreOld, Category
<1>5. InsertsFit'
  BY <1>1 DEF TreeInv, TreeTypes, TargetType, InsertsFit, InsertFits
<1>6. CommitsFit'
  BY <1>1 DEF TreeInv, TreeTypes, TargetType, CommitsFit, CommitFits, IsSound, Exists
<1>7. DrawnIdsAreFresh'
  BY <1>1 DEF TreeInv, TreeTypes, DrawnIdsAreFresh
<1> QED
  BY <1>2, <1>3, <1>4, <1>5, <1>6, <1>7 DEF TreeInv

LEMMA InsertStep ==
    ASSUME TreeInv, NEW o \in Operators, Insert(o) PROVE TreeInv'
<1>1. /\ doing[o] = "insert" /\ nextId' = nextId + 1
      /\ UNCHANGED <<categories, foreignKey>>
  BY DEF Insert
<1>2. CASE Finished(o)
  BY <1>1, <1>2, FinishedStep
<1>3. CASE /\ foreignKey /\ target[o].parent # 0 => Exists(target[o].parent)
           /\ target' = [target EXCEPT ![o] =
                [id |-> nextId, parent |-> @.parent, level |-> @.level,
                 path |-> Append(@.path, nextId)]]
           /\ doing' = [doing EXCEPT ![o] = "commit"]
  <2> DEFINE old == target[o]
  <2>1. nextId \in Nat \ {0} /\ old \in TargetType /\ InsertFits(old)
    BY <1>1 DEF TreeInv, TreeTypes, InsertsFit
  <2>2. /\ Append(old.path, nextId) \in Seq(Nat)
        /\ target' = [target EXCEPT ![o] =
             [id |-> nextId, parent |-> old.parent, level |-> old.level,
              path |-> Append(old.path, nextId)]]
    <3>3. old.path \in Seq(Nat)
      BY <2>1 DEF TargetType
    <3> QED
      BY <3>3, <2>1, <1>3, PathGrows DEF TreeInv, TreeTypes
  <2>3. TreeTypes'
    BY <1>1, <1>3, <2>1, <2>2 DEF TreeInv, TreeTypes, TargetType
  <2>4. TreeIsSound'
    BY <1>1 DEF TreeInv, TreeIsSound, Exists
  <2>5. RowsAreOld'
    BY <1>1, <2>1 DEF TreeInv, TreeTypes, RowsAreOld, Category
  <2>6. \A q \in Operators \ {o} : target'[q] = target[q] /\ doing'[q] = doing[q] /\ target[q] \in TargetType
    BY <1>3, <2>2 DEF TreeInv, TreeTypes
  <2>7. InsertsFit'
    <3>1. SUFFICES ASSUME NEW q \in Operators, doing'[q] = "insert" PROVE InsertFits(target[q])'
      BY DEF InsertsFit
    <3>2. q # o
      BY <3>1, <1>3 DEF TreeInv, TreeTypes
    <3>3. InsertFits(target[q]) /\ target'[q] = target[q] /\ target[q] \in TargetType
      BY <3>1, <3>2, <2>6 DEF TreeInv, InsertsFit
    <3> QED
      BY <3>3, <1>1, <2>1, SMTT(30) DEF InsertFits, TargetType
  <2>8. CommitsFit'
    <3>1. SUFFICES ASSUME NEW q \in Operators, doing'[q] = "commit" PROVE CommitFits(target[q])'
      BY DEF CommitsFit
    <3>2. CASE q = o
      <4>1. target'[q] = [id |-> nextId, parent |-> old.parent, level |-> old.level,
                          path |-> Append(old.path, nextId)]
        BY <3>2, <2>2 DEF TreeInv, TreeTypes
      <4>2. /\ old.level \in 1..3 /\ Len(old.path) = old.level - 1 /\ old.path \in Seq(Nat)
            /\ Len(Append(old.path, nextId)) = old.level
            /\ Append(old.path, nextId)[old.level] = nextId
        BY <2>1, PathGrows DEF InsertFits, TargetType
      <4>3. IF old.level = 1 THEN old.parent = 0
            ELSE Append(old.path, nextId)[old.level - 1] = old.parent
        BY <2>1, <4>2, PathGrows DEF InsertFits
      <4>4. IsSound(target'[q])
        BY <4>1, <4>2, <4>3 DEF IsSound
      <4>5. \A d \in categories : d.id = old.parent => d.path = old.path
        BY <2>1 DEF InsertFits
      <4>6. old.parent \in Nat /\ old.parent < nextId
        BY <2>1 DEF InsertFits, TargetType
      <4>7. CommitFits(target[q])' <=>
              /\ IsSound(target'[q])
              /\ target'[q].id \in Nat \ {0} /\ target'[q].id < nextId' /\ target'[q].parent < nextId'
              /\ \A d \in categories : d.id = target'[q].parent
                                        => target'[q].path = Append(d.path, target'[q].id)
              /\ foreignKey /\ target'[q].parent # 0 => Exists(target'[q].parent)
        BY <1>1 DEF CommitFits, IsSound, Exists
      <4>8. /\ target'[q].id = nextId /\ target'[q].parent = old.parent
            /\ target'[q].path = Append(old.path, nextId)
        BY <4>1
      <4> QED
        BY <4>4, <4>5, <4>6, <4>7, <4>8, <1>1, <1>3, <2>1
    <3>3. CASE q # o
      <4>1. CommitFits(target[q]) /\ target'[q] = target[q] /\ target[q] \in TargetType
        BY <3>1, <3>3, <2>6 DEF TreeInv, CommitsFit
      <4>2. CommitFits(target[q])' <=>
              /\ IsSound(target[q])
              /\ target[q].id \in Nat \ {0} /\ target[q].id < nextId' /\ target[q].parent < nextId'
              /\ \A d \in categories : d.id = target[q].parent
                                        => target[q].path = Append(d.path, target[q].id)
              /\ foreignKey /\ target[q].parent # 0 => Exists(target[q].parent)
        BY <4>1, <1>1 DEF CommitFits, IsSound, Exists
      <4> QED
        BY <4>1, <4>2, <1>1, <2>1 DEF CommitFits, TargetType
    <3> QED
      BY <3>2, <3>3
  <2>9. DrawnIdsAreFresh'
    <3>1. \A c \in categories : c.id # nextId /\ c.parent # nextId
      BY <2>1 DEF TreeInv, TreeTypes, RowsAreOld, Category
    <3>2. \A q \in Operators :
            /\ doing[q] \in {"insert", "commit"} => target[q].parent # nextId
            /\ doing[q] = "commit" => target[q].id # nextId
      BY <2>1 DEF TreeInv, TreeTypes, TargetType, InsertsFit, InsertFits, CommitsFit, CommitFits
    <3> QED
      BY <1>1, <1>3, <2>2, <3>1, <3>2 DEF TreeInv, TreeTypes, DrawnIdsAreFresh
  <2> QED
    BY <2>3, <2>4, <2>5, <2>7, <2>8, <2>9 DEF TreeInv
<1> QED
  BY <1>2, <1>3 DEF Insert

\* The row becomes visible, or the transaction is rolled back.
LEMMA CommitStep ==
    ASSUME TreeInv, NEW o \in Operators, Commit(o) PROVE TreeInv'
<1> DEFINE t == target[o]
<1>1. /\ doing[o] = "commit" /\ Finished(o) /\ UNCHANGED <<nextId, foreignKey>>
      /\ t \in TargetType /\ CommitFits(t) /\ nextId \in Nat \ {0}
  BY DEF Commit, TreeInv, TreeTypes, CommitsFit
<1>2. CASE UNCHANGED categories
  BY <1>1, <1>2, FinishedStep
<1>3. CASE \E order \in Orders :
             categories' = categories \cup
               { [id |-> t.id, parent |-> t.parent, level |-> t.level, path |-> t.path, order |-> order] }
  <2>1. PICK order \in Orders :
          categories' = categories \cup
            { [id |-> t.id, parent |-> t.parent, level |-> t.level, path |-> t.path, order |-> order] }
    BY <1>3
  <2> DEFINE new == [id |-> t.id, parent |-> t.parent, level |-> t.level, path |-> t.path, order |-> order]
  <2>2. /\ new \in Category /\ categories' = categories \cup {new}
        /\ new.id = t.id /\ new.parent = t.parent /\ new.path = t.path /\ new.level = t.level
    BY <1>1, <2>1 DEF Category, TargetType, CommitFits
  <2> HIDE DEF new
  <2>3. /\ doing' = [doing EXCEPT ![o] = "nothing"]
        /\ target' = [target EXCEPT ![o] = Nothing]
    BY <1>1 DEF Finished
  <2>4. TreeTypes'
    BY <2>2, <2>3, <1>1 DEF TreeInv, TreeTypes, TargetType, Nothing
  <2>5. \A q \in Operators : doing'[q] \in {"insert", "commit"} =>
          /\ q # o /\ doing[q] = doing'[q] /\ target'[q] = target[q] /\ target[q] \in TargetType
          /\ target[q].parent # t.id
    BY <2>3, <1>1 DEF TreeInv, TreeTypes, DrawnIdsAreFresh
  <2>6. \A c \in categories : c.id # t.id /\ c.parent # t.id
    BY <1>1 DEF TreeInv, DrawnIdsAreFresh
  <2>7. IsSound(new) /\ new.parent # new.id
    <3>1. IsSound(new)
      BY <1>1, <2>2 DEF CommitFits, IsSound
    <3>2. t.parent # t.id
      BY <1>1 DEF TreeInv, DrawnIdsAreFresh
    <3> QED
      BY <3>1, <3>2, <2>2
  <2>8. TreeIsSound'
    <3>1. \A c \in categories' : IsSound(c)
      BY <2>2, <2>7 DEF TreeInv, TreeIsSound
    <3>2. \A c, d \in categories' : d.id = c.id => d = c
      BY <2>2, <2>6 DEF TreeInv, TreeIsSound
    <3>3. \A c, d \in categories' : d.id = c.parent => c.path = Append(d.path, c.id)
      BY <2>2, <2>6, <2>7, <1>1 DEF TreeInv, TreeIsSound, CommitFits
    <3>4. \A c \in categories' : foreignKey /\ c.parent # 0 => \E d \in categories' : d.id = c.parent
      BY <2>2, <1>1 DEF TreeInv, TreeIsSound, CommitFits, Exists
    <3> QED
      BY <3>1, <3>2, <3>3, <3>4, <1>1 DEF TreeIsSound, Exists, IsSound
  <2>9. RowsAreOld'
    BY <2>2, <1>1 DEF TreeInv, RowsAreOld, CommitFits
  <2>10. InsertsFit'
    <3>1. SUFFICES ASSUME NEW q \in Operators, doing'[q] = "insert" PROVE InsertFits(target[q])'
      BY DEF InsertsFit
    <3>2. InsertFits(target[q]) /\ target'[q] = target[q] /\ target[q].parent # new.id
      BY <3>1, <2>2, <2>5 DEF TreeInv, InsertsFit
    <3> QED
      BY <3>2, <2>2, <1>1 DEF InsertFits
  <2>11. CommitsFit'
    <3>1. SUFFICES ASSUME NEW q \in Operators, doing'[q] = "commit" PROVE CommitFits(target[q])'
      BY DEF CommitsFit
    <3>2. CommitFits(target[q]) /\ target'[q] = target[q] /\ target[q].parent # new.id
      BY <3>1, <2>2, <2>5 DEF TreeInv, CommitsFit
    <3> QED
      BY <3>2, <2>2, <1>1 DEF CommitFits, IsSound, Exists
  <2>12. DrawnIdsAreFresh'
    <3>1. SUFFICES ASSUME NEW q \in Operators, doing'[q] = "commit"
          PROVE  /\ \A c \in categories' : c.id # target[q].id /\ c.parent # target[q].id
                 /\ \A p \in Operators :
                      /\ doing'[p] \in {"insert", "commit"} => target'[p].parent # target[q].id
                      /\ doing'[p] = "commit" /\ p # q => target'[p].id # target[q].id
      BY <2>5 DEF DrawnIdsAreFresh
    <3>2. doing[q] = "commit" /\ q # o
      BY <3>1, <2>5
    <3> QED
      BY <3>2, <2>2, <2>5, <1>1 DEF TreeInv, DrawnIdsAreFresh
  <2> QED
    BY <2>4, <2>8, <2>9, <2>10, <2>11, <2>12 DEF TreeInv
<1> QED
  BY <1>2, <1>3 DEF Commit

\* A change of name or sort_order leaves ids, parents and paths alone.
LEMMA UpdateCategoryStep ==
    ASSUME TreeInv, UpdateCategory PROVE TreeInv'
<1>1. PICK c \in categories, order \in Orders :
        categories' = (categories \ {c}) \cup { [c EXCEPT !.order = order] }
  BY DEF UpdateCategory
<1>2. UNCHANGED <<nextId, foreignKey, doing, target>>
  BY DEF UpdateCategory
<1> DEFINE new == [c EXCEPT !.order = order]
<1>3. /\ c \in Category /\ new \in Category /\ new.id = c.id /\ new.parent = c.parent
      /\ new.level = c.level /\ new.path = c.path /\ categories' = (categories \ {c}) \cup {new}
  BY <1>1 DEF Category, TreeInv, TreeTypes
<1> HIDE DEF new
<1>4. TreeTypes'
  BY <1>2, <1>3 DEF TreeInv, TreeTypes
<1>5. \A d \in categories' : \E e \in categories :
        d.id = e.id /\ d.parent = e.parent /\ d.level = e.level /\ d.path = e.path
  BY <1>3
<1>6. \A e \in categories : \E d \in categories' : d.id = e.id
  BY <1>3
<1>7. TreeIsSound'
  <2>1. \A d \in categories' : IsSound(d)
    BY <1>3 DEF TreeInv, TreeIsSound, IsSound
  <2>2. \A d, e \in categories' : e.id = d.id => e = d
    BY <1>3 DEF TreeInv, TreeIsSound
  <2>3. \A d, e \in categories' : e.id = d.parent => d.path = Append(e.path, d.id)
    BY <1>5, SMTT(30) DEF TreeInv, TreeIsSound
  <2>4. \A d \in categories' : foreignKey /\ d.parent # 0 => \E e \in categories' : e.id = d.parent
    BY <1>5, <1>6 DEF TreeInv, TreeIsSound, Exists
  <2> QED
    BY <2>1, <2>2, <2>3, <2>4, <1>2 DEF TreeIsSound, Exists, IsSound
<1>8. RowsAreOld'
  BY <1>2, <1>5 DEF TreeInv, RowsAreOld
<1>9. InsertsFit'
  BY <1>2, <1>5 DEF TreeInv, InsertsFit, InsertFits
<1>10. CommitsFit'
  BY <1>2, <1>5, <1>6, SMTT(30) DEF TreeInv, CommitsFit, CommitFits, IsSound, Exists
<1>11. DrawnIdsAreFresh'
  BY <1>2, <1>5 DEF TreeInv, DrawnIdsAreFresh
<1> QED
  BY <1>4, <1>7, <1>8, <1>9, <1>10, <1>11 DEF TreeInv

LEMMA CountChildrenStep ==
    ASSUME TreeInv, NEW o \in Operators, CountChildren(o) PROVE TreeInv'
<1>1. PICK c \in categories : target' = [target EXCEPT ![o] = [Nothing EXCEPT !.id = c.id]]
  BY DEF CountChildren
<1>2. doing' = [doing EXCEPT ![o] = "delete"] /\ UNCHANGED <<categories, nextId, foreignKey>>
  BY DEF CountChildren
<1>3. TreeTypes'
  <2>1. c.id \in Nat
    BY DEF TreeInv, TreeTypes, Category
  <2>2. [Nothing EXCEPT !.id = c.id] = [id |-> c.id, parent |-> 0, level |-> 0, path |-> <<>>]
    BY DEF Nothing
  <2>3. [id |-> c.id, parent |-> 0, level |-> 0, path |-> <<>>] \in TargetType
    BY <2>1 DEF TargetType
  <2> QED
    BY <2>2, <2>3, <1>1, <1>2 DEF TreeInv, TreeTypes
<1>4. TreeIsSound' /\ RowsAreOld'
  BY <1>2 DEF TreeInv, TreeIsSound, RowsAreOld, Exists
<1>5. InsertsFit'
  BY <1>1, <1>2 DEF TreeInv, TreeTypes, InsertsFit, InsertFits
<1>6. CommitsFit'
  BY <1>1, <1>2 DEF TreeInv, TreeTypes, CommitsFit, CommitFits, IsSound, Exists
<1>7. DrawnIdsAreFresh'
  BY <1>1, <1>2 DEF TreeInv, TreeTypes, DrawnIdsAreFresh
<1> QED
  BY <1>3, <1>4, <1>5, <1>6, <1>7 DEF TreeInv

\* A row goes: with a foreign key nobody had it for a parent, not even an open transaction.
LEMMA DeleteStep ==
    ASSUME TreeInv, NEW o \in Operators, Delete(o) PROVE TreeInv'
<1> DEFINE id == target[o].id
<1>1. /\ doing[o] = "delete" /\ Finished(o) /\ UNCHANGED <<nextId, foreignKey>>
      /\ foreignKey => Inserting(id) = {}
  BY DEF Delete
<1>2. CASE UNCHANGED categories
  BY <1>1, <1>2, FinishedStep
<1>3. CASE /\ foreignKey => Children(id) = {}
           /\ categories' = { c \in categories : c.id # id }
  <2>1. /\ doing' = [doing EXCEPT ![o] = "nothing"]
        /\ target' = [target EXCEPT ![o] = Nothing]
    BY <1>1 DEF Finished
  <2>2. categories' \subseteq categories
    BY <1>3
  <2>3. TreeTypes'
    BY <2>1, <2>2, <1>1 DEF TreeInv, TreeTypes, TargetType, Nothing
  <2>4. \A q \in Operators : doing'[q] \in {"insert", "commit"} =>
          doing[q] = doing'[q] /\ target'[q] = target[q]
    BY <2>1 DEF TreeInv, TreeTypes
  <2>5. TreeIsSound'
    <3>1. \A c \in categories' : foreignKey /\ c.parent # 0 => \E d \in categories' : d.id = c.parent
      BY <1>3 DEF Children, TreeInv, TreeIsSound, Exists
    <3> QED
      BY <3>1, <2>2, <1>1 DEF TreeInv, TreeIsSound, Exists, IsSound
  <2>6. RowsAreOld'
    BY <2>2, <1>1 DEF TreeInv, RowsAreOld
  <2>7. InsertsFit'
    BY <2>2, <2>4, <1>1 DEF TreeInv, InsertsFit, InsertFits
  <2>8. CommitsFit'
    <3>1. SUFFICES ASSUME NEW q \in Operators, doing'[q] = "commit" PROVE CommitFits(target[q])'
      BY DEF CommitsFit
    <3>2. doing[q] = "commit" /\ CommitFits(target[q]) /\ target'[q] = target[q]
      BY <3>1, <2>4 DEF TreeInv, CommitsFit
    <3>3. foreignKey => target[q].parent # id
      BY <3>2, <1>1 DEF Inserting
    <3>4. foreignKey /\ target[q].parent # 0 => \E d \in categories' : d.id = target[q].parent
      BY <3>2, <3>3, <1>3 DEF CommitFits, Exists
    <3> QED
      BY <3>2, <3>4, <2>2, <1>1 DEF CommitFits, IsSound, Exists
  <2>9. DrawnIdsAreFresh'
    BY <2>2, <2>4 DEF TreeInv, DrawnIdsAreFresh
  <2> QED
    BY <2>3, <2>5, <2>6, <2>7, <2>8, <2>9 DEF TreeInv
<1> QED
  BY <1>1, <1>2, <1>3 DEF Delete

LEMMA TreeInvStep == TreeInv /\ [TreeNext]_treeVars => TreeInv'
<1> SUFFICES ASSUME TreeInv, [TreeNext]_treeVars PROVE TreeInv'
  OBVIOUS
<1>1. CASE UNCHANGED treeVars
  BY <1>1 DEF treeVars, TreeInv, TreeTypes, TreeIsSound, RowsAreOld, InsertsFit, InsertFits, CommitsFit,
     CommitFits, DrawnIdsAreFresh, IsSound, Exists
<1>2. CASE TreeNext
  BY <1>2, GetParentStep, NoParentStep, InsertStep, CommitStep, UpdateCategoryStep,
     CountChildrenStep, DeleteStep DEF TreeNext
<1> QED
  BY <1>1, <1>2

\* Levels, paths and parents agree in every state of every interleaving of creations, changes
\* and deletions, and a foreign key closes the gap between the count and the DELETE
\* (mysql_store.go:577-678).
THEOREM TreeAlwaysSound == TreeSpec => []TreeIsSound
<1>1. TreeInv => TreeIsSound
  BY DEF TreeInv
<1> QED
  BY <1>1, TreeInvInit, TreeInvStep, PTL DEF TreeSpec

-----------------------------------------------------------------------------
(* Induction over numbers. *)

\* Every set of numbers has a least: what fails for some number fails for a least one.
LEMMA LeastNatural ==
    ASSUME NEW S \in SUBSET Nat, S # {}
    PROVE  \E m \in S : \A n \in S : m <= n
<1> DEFINE R == OpToRel(<, Nat)
<1>1. IsWellFoundedOn(R, Nat)
  BY NatLessThanWellFounded
<1>2. \A x, y \in Nat : x < y => <<x, y>> \in R
  BY DEF OpToRel
<1> HIDE DEF R
<1>3. PICK m \in S : \A n \in S : ~(<<n, m>> \in R)
  BY <1>1, WFMin
<1>4. \A n \in S : ~(n < m)
  BY <1>2, <1>3
<1> QED
  BY <1>4

-----------------------------------------------------------------------------
(* The digits of an id. *)

LEMMA Division ==
    ASSUME NEW n \in Nat, n >= Base
    PROVE  /\ n \div Base \in Nat /\ n \div Base < n
           /\ n % Base \in Nat
           /\ n = Base * (n \div Base) + (n % Base)
<1>1. Base \in Nat /\ Base >= 2
  BY CategoryAssumption
<1> DEFINE q == n \div Base
           r == n % Base
<1>2. q \in Int /\ r \in 0..(Base - 1) /\ n = Base * q + r
  BY <1>1
<1> HIDE DEF q, r
<1>3. q >= 0
  <2> SUFFICES ASSUME q <= -1 PROVE FALSE
    BY <1>2
  <2> DEFINE a == -1 - q
  <2>1. a \in Nat
    BY <1>2
  <2> HIDE DEF a
  <2>2. Base * a >= 0
    BY <1>1, <2>1
  <2>3. q = -1 - a
    BY <1>2 DEF a
  <2>4. Base * q = 0 - Base - Base * a
    BY <1>1, <2>1, <2>3
  <2>5. Base * a \in Int /\ Base * q \in Int
    BY <1>1, <1>2, <2>1
  <2> QED
    BY <1>1, <1>2, <2>2, <2>4, <2>5
<1>4. q < n
  <2>1. CASE q = 0
    BY <1>1, <2>1
  <2>2. CASE q # 0
    <3> DEFINE b == Base - 2
    <3>1. q \in Nat /\ q >= 1 /\ b \in Nat
      BY <1>1, <1>2, <1>3, <2>2
    <3> HIDE DEF b
    <3>2. b * q >= 0
      BY <3>1
    <3>3. Base = b + 2
      BY <1>1 DEF b
    <3>4. Base * q = b * q + 2 * q
      BY <3>1, <3>3
    <3>5. b * q \in Int
      BY <3>1
    <3> QED
      BY <1>2, <3>1, <3>2, <3>4, <3>5
  <2> QED
    BY <2>1, <2>2
<1>5. r \in Nat
  BY <1>1, <1>2
<1> QED
  BY <1>2, <1>3, <1>4, <1>5 DEF q, r

\* What Digits says of one number, given a table of the smaller ones.
OneMore(g, n) == IF n < Base THEN <<n + 1>> ELSE Append(g[n \div Base], (n % Base) + 1)

Table(g, n) == g = [k \in 0..n |-> OneMore(g, k)]

LEMMA TablesExist ==
    ASSUME NEW n \in Nat
    PROVE  \E g : Table(g, n)
<1> DEFINE Bad == { k \in Nat : ~ \E g : Table(g, k) }
<1> SUFFICES ASSUME Bad # {} PROVE FALSE
  OBVIOUS
<1>1. PICK m \in Bad : \A k \in Bad : m <= k
  BY LeastNatural
<1>2. m \in Nat /\ ~ \E g : Table(g, m)
  OBVIOUS
<1>3. \E g : \A k \in 0..m : k # m => g[k] = OneMore(g, k)
  <2>1. CASE m = 0
    BY <2>1
  <2>2. CASE m # 0
    <3>1. m - 1 \in Nat /\ ~(m <= m - 1)
      BY <1>2, <2>2
    <3>2. PICK g : Table(g, m - 1)
      BY <1>1, <3>1
    <3>3. \A k \in 0..m : k # m => k \in 0..m-1
      BY <1>2
    <3> QED
      BY <3>2, <3>3 DEF Table
  <2> QED
    BY <2>1, <2>2
<1>4. PICK g : \A k \in 0..m : k # m => g[k] = OneMore(g, k)
  BY <1>3
<1> DEFINE h == [k \in 0..m |-> IF k = m THEN OneMore(g, m) ELSE g[k]]
<1>5. ASSUME NEW k \in 0..m PROVE h[k] = OneMore(h, k)
  <2>1. OneMore(h, k) = OneMore(g, k)
    <3>1. CASE k < Base
      BY <3>1 DEF OneMore
    <3>2. CASE ~(k < Base)
      <4>1. k \in Nat /\ k >= Base
        BY <1>2, <3>2, CategoryAssumption
      <4> DEFINE q == k \div Base
      <4>2. q \in Nat /\ q < k
        BY <4>1, Division
      <4>3. OneMore(h, k) = Append(h[q], (k % Base) + 1) /\ OneMore(g, k) = Append(g[q], (k % Base) + 1)
        BY <3>2 DEF OneMore
      <4> HIDE DEF q
      <4>4. q \in 0..m /\ q # m
        BY <1>2, <4>2
      <4>5. h[q] = g[q]
        BY <4>4
      <4> QED
        BY <4>3, <4>5, Zenon
    <3> QED
      BY <3>1, <3>2
  <2>2. m \in 0..m
    BY <1>2
  <2>3. h[k] = IF k = m THEN OneMore(g, m) ELSE g[k]
    OBVIOUS
  <2> HIDE DEF h
  <2> QED
    BY <1>4, <2>1, <2>3
<1>6. h = [k \in 0..m |-> h[k]]
  OBVIOUS
<1> HIDE DEF h
<1>7. h = [k \in 0..m |-> OneMore(h, k)]
  BY <1>5, <1>6
<1> QED
  BY <1>2, <1>7 DEF Table

LEMMA TablesAgree ==
    ASSUME NEW g, NEW h, NEW m \in Nat, NEW n \in Nat, Table(g, m), Table(h, n),
           NEW k \in Nat, k <= m, k <= n
    PROVE  g[k] = h[k]
<1> DEFINE Bad == { i \in Nat : i <= m /\ i <= n /\ g[i] # h[i] }
<1> SUFFICES ASSUME Bad # {} PROVE FALSE
  OBVIOUS
<1>1. PICK i \in Bad : \A j \in Bad : i <= j
  BY LeastNatural
<1>2. i \in Nat /\ i <= m /\ i <= n /\ g[i] # h[i]
  OBVIOUS
<1>3. g[i] = OneMore(g, i) /\ h[i] = OneMore(h, i)
  <2>1. i \in 0..m /\ i \in 0..n
    BY <1>2
  <2>2. (\A j \in 0..m : g[j] = OneMore(g, j)) /\ (\A j \in 0..n : h[j] = OneMore(h, j))
    BY DEF Table
  <2> QED
    BY <2>1, <2>2
<1>4. CASE i < Base
  BY <1>2, <1>3, <1>4 DEF OneMore
<1>5. CASE ~(i < Base)
  <2>1. i >= Base
    BY <1>2, <1>5, CategoryAssumption
  <2> DEFINE q == i \div Base
  <2>2. q \in Nat /\ q < i
    BY <1>2, <2>1, Division
  <2>3. OneMore(h, i) = Append(h[q], (i % Base) + 1) /\ OneMore(g, i) = Append(g[q], (i % Base) + 1)
    BY <1>5 DEF OneMore
  <2> HIDE DEF q
  <2>4. q <= m /\ q <= n /\ ~(i <= q)
    BY <1>2, <2>2
  <2>5. g[q] = h[q]
    BY <1>1, <2>2, <2>4
  <2> QED
    BY <1>2, <1>3, <2>3, <2>5, Zenon
<1> QED
  BY <1>4, <1>5

LEMMA DigitsUnfold ==
    \A n \in Nat : Digits[n] = IF n < Base THEN <<n + 1>> ELSE Append(Digits[n \div Base], (n % Base) + 1)
<1> DEFINE At(n) == CHOOSE g : Table(g, n)
           D == [n \in Nat |-> At(n)[n]]
<1>1. \A n \in Nat : Table(At(n), n)
  BY TablesExist
<1> HIDE DEF At
<1>2. ASSUME NEW n \in Nat PROVE D[n] = OneMore(D, n)
  <2>1. At(n)[n] = OneMore(At(n), n)
    <3>1. n \in 0..n
      OBVIOUS
    <3> QED
      BY <1>1, <3>1 DEF Table
  <2>2. OneMore(At(n), n) = OneMore(D, n)
    <3>1. CASE n < Base
      BY <3>1 DEF OneMore
    <3>2. CASE ~(n < Base)
      <4>1. n >= Base
        BY <3>2, CategoryAssumption
      <4> DEFINE q == n \div Base
      <4>2. q \in Nat /\ q <= n
        BY <4>1, Division
      <4>3. OneMore(D, n) = Append(D[q], (n % Base) + 1) /\ OneMore(At(n), n) = Append(At(n)[q], (n % Base) + 1)
        BY <3>2 DEF OneMore
      <4> HIDE DEF q
      <4>4. At(n)[q] = At(q)[q]
        BY <1>1, <4>2, TablesAgree
      <4>5. D[q] = At(q)[q]
        BY <4>2
      <4> QED
        BY <4>3, <4>4, <4>5, Zenon
    <3> QED
      BY <3>1, <3>2
  <2> QED
    BY <2>1, <2>2
<1>3. D = [n \in Nat |-> D[n]]
  OBVIOUS
<1> HIDE DEF D
<1>4. D = [n \in Nat |-> OneMore(D, n)]
  BY <1>2, <1>3
<1>5. D = [n \in Nat |-> IF n < Base THEN <<n + 1>> ELSE Append(D[n \div Base], (n % Base) + 1)]
  BY <1>4 DEF OneMore
<1>6. Digits = CHOOSE g : g = [n \in Nat |-> IF n < Base THEN <<n + 1>> ELSE Append(g[n \div Base], (n % Base) + 1)]
  BY Zenon DEF Digits
<1>7. Digits = [n \in Nat |-> IF n < Base THEN <<n + 1>> ELSE Append(Digits[n \div Base], (n % Base) + 1)]
  BY <1>5, <1>6, Zenon
<1> QED
  BY <1>7

LEMMA DigitsAreDigits ==
    ASSUME NEW n \in Nat
    PROVE  Digits[n] \in Seq(Nat \ {0}) /\ Len(Digits[n]) >= 1
<1> DEFINE Bad == { k \in Nat : ~(Digits[k] \in Seq(Nat \ {0}) /\ Len(Digits[k]) >= 1) }
<1> SUFFICES ASSUME Bad # {} PROVE FALSE
  OBVIOUS
<1>1. PICK m \in Bad : \A k \in Bad : m <= k
  BY LeastNatural
<1>2. m \in Nat /\ ~(Digits[m] \in Seq(Nat \ {0}) /\ Len(Digits[m]) >= 1)
  OBVIOUS
<1>3. CASE m < Base
  <2>1. Digits[m] = <<m + 1>>
    BY <1>2, <1>3, DigitsUnfold
  <2>2. m + 1 \in Nat \ {0}
    BY <1>2
  <2>3. <<m + 1>> \in Seq(Nat \ {0}) /\ Len(<<m + 1>>) = 1
    BY <2>2
  <2> QED
    BY <1>2, <2>1, <2>3
<1>4. CASE ~(m < Base)
  <2>1. m >= Base
    BY <1>2, <1>4, CategoryAssumption
  <2> DEFINE q == m \div Base
             r == (m % Base) + 1
  <2>2. q \in Nat /\ q < m /\ r \in Nat \ {0}
    BY <1>2, <2>1, Division
  <2>3. Digits[m] = Append(Digits[q], r)
    BY <1>2, <1>4, DigitsUnfold
  <2> HIDE DEF q, r
  <2>4. ~(m <= q)
    BY <1>2, <2>2
  <2>5. Digits[q] \in Seq(Nat \ {0}) /\ Len(Digits[q]) >= 1
    BY <1>1, <2>2, <2>4
  <2>6. Append(Digits[q], r) \in Seq(Nat \ {0}) /\ Len(Append(Digits[q], r)) = Len(Digits[q]) + 1
    BY <2>2, <2>5
  <2> QED
    BY <1>2, <2>3, <2>5, <2>6
<1> QED
  BY <1>3, <1>4

LEMMA SameItems ==
    ASSUME NEW S, NEW a \in Seq(S), NEW b \in Seq(S), Len(a) = Len(b),
           \A k \in 1..Len(a) : a[k] = b[k]
    PROVE  a = b
<1>1. a = [k \in 1..Len(a) |-> a[k]] /\ b = [k \in 1..Len(b) |-> b[k]]
  OBVIOUS
<1> QED
  BY <1>1

LEMMA DigitsTellApart ==
    ASSUME NEW n \in Nat, NEW m \in Nat, Digits[n] = Digits[m]
    PROVE  n = m
<1> DEFINE Bad == { i \in Nat : \E j \in Nat : i # j /\ Digits[i] = Digits[j] }
<1> SUFFICES ASSUME Bad # {} PROVE FALSE
  OBVIOUS
<1>1. PICK i \in Bad : \A k \in Bad : i <= k
  BY LeastNatural
<1>2. PICK j \in Nat : i # j /\ Digits[i] = Digits[j]
  OBVIOUS
<1>3. i \in Nat /\ Base \in Nat
  BY CategoryAssumption
<1>4. ASSUME NEW k \in Nat, k >= Base
      PROVE  /\ k \div Base \in Nat /\ k \div Base < k /\ (k % Base) \in Nat
             /\ k = Base * (k \div Base) + (k % Base)
             /\ Digits[k] = Append(Digits[k \div Base], (k % Base) + 1)
             /\ Len(Digits[k]) >= 2
  <2>1. /\ k \div Base \in Nat /\ k \div Base < k /\ (k % Base) \in Nat
        /\ k = Base * (k \div Base) + (k % Base)
    BY <1>4, Division
  <2>2. Digits[k] = Append(Digits[k \div Base], (k % Base) + 1)
    <3>1. ~(k < Base)
      BY <1>3, <1>4
    <3> QED
      BY <3>1, DigitsUnfold, Zenon
  <2>3. Digits[k \div Base] \in Seq(Nat \ {0}) /\ Len(Digits[k \div Base]) >= 1
    BY <2>1, DigitsAreDigits
  <2> DEFINE d == Digits[k \div Base]
             r == (k % Base) + 1
  <2>4. Len(Append(d, r)) = Len(d) + 1
    BY <2>3
  <2> QED
    BY <2>1, <2>2, <2>3, <2>4
<1>5. ASSUME NEW k \in Nat, k < Base PROVE Digits[k] = <<k + 1>> /\ Len(Digits[k]) = 1
  <2>1. Digits[k] = <<k + 1>>
    BY <1>5, DigitsUnfold
  <2> QED
    BY <2>1
<1>6. CASE i < Base
  <2>1. Len(Digits[j]) = 1 /\ Digits[i] = <<i + 1>>
    BY <1>2, <1>3, <1>5, <1>6
  <2>2. j < Base
    <3>1. ASSUME j >= Base PROVE FALSE
      <4>1. Len(Digits[j]) >= 2
        BY <1>4, <3>1
      <4> QED
        BY <2>1, <4>1
    <3> QED
      BY <1>3, <3>1
  <2>3. Digits[j] = <<j + 1>>
    BY <1>5, <2>2
  <2>4. i + 1 = j + 1
    <3>1. <<i + 1>>[1] = i + 1 /\ <<j + 1>>[1] = j + 1
      OBVIOUS
    <3>2. <<i + 1>> = <<j + 1>>
      BY <1>2, <2>1, <2>3, Zenon
    <3> QED
      BY <3>1, <3>2, Zenon
  <2> QED
    BY <1>2, <1>3, <2>4
<1>7. CASE ~(i < Base)
  <2>1. i >= Base
    BY <1>3, <1>7
  <2>2. j >= Base
    <3>1. Len(Digits[i]) >= 2
      BY <1>3, <1>4, <2>1
    <3>2. ASSUME j < Base PROVE FALSE
      <4>1. Len(Digits[j]) = 1
        BY <1>5, <3>2
      <4> QED
        BY <1>2, <3>1, <4>1
    <3> QED
      BY <1>3, <3>2
  <2> DEFINE p == i \div Base
             q == j \div Base
             r == i % Base
             s == j % Base
  <2>3. /\ p \in Nat /\ p < i /\ r \in Nat /\ i = Base * p + r
        /\ Digits[i] = Append(Digits[p], r + 1)
    BY <1>3, <1>4, <2>1
  <2>4. /\ q \in Nat /\ s \in Nat /\ j = Base * q + s
        /\ Digits[j] = Append(Digits[q], s + 1)
    BY <1>4, <2>2
  <2> HIDE DEF p, q, r, s
  <2>5. Digits[p] \in Seq(Nat \ {0}) /\ Digits[q] \in Seq(Nat \ {0})
    BY <2>3, <2>4, DigitsAreDigits
  <2>6. Append(Digits[p], r + 1) = Append(Digits[q], s + 1)
    BY <1>2, <2>3, <2>4
  <2>7. Digits[p] = Digits[q] /\ r + 1 = s + 1
    <3> DEFINE a == Digits[p]
               b == Digits[q]
    <3>1. ASSUME NEW v, NEW w, Append(a, v) = Append(b, w) PROVE a = b /\ v = w
      <4>1. Len(Append(a, v)) = Len(a) + 1 /\ Len(Append(b, w)) = Len(b) + 1
        BY <2>5
      <4>2. Len(a) \in Nat /\ Len(b) \in Nat /\ Len(a) = Len(b)
        BY <2>5, <3>1, <4>1, SMTT(30)
      <4>3. \A k \in 1..Len(a) : Append(a, v)[k] = a[k] /\ Append(b, w)[k] = b[k]
        BY <2>5, <4>2
      <4>4. Append(a, v)[Len(a) + 1] = v /\ Append(b, w)[Len(b) + 1] = w
        BY <2>5
      <4>0. a \in Seq(Nat \ {0}) /\ b \in Seq(Nat \ {0})
        BY <2>5
      <4> HIDE DEF a, b
      <4>5. \A k \in 1..Len(a) : a[k] = b[k]
        BY <3>1, <4>3
      <4>6. a = b
        BY <4>0, <4>2, <4>5, SameItems
      <4> QED
        BY <3>1, <4>2, <4>4, <4>6
    <3> QED
      BY <2>6, <3>1
  <2>8. ~(i <= p)
    BY <1>3, <2>3
  <2>9. p = q
    BY <1>1, <2>3, <2>4, <2>7, <2>8
  <2> QED
    BY <1>2, <1>3, <2>3, <2>4, <2>7, <2>9
<1> QED
  BY <1>6, <1>7

-----------------------------------------------------------------------------
(* The spelling of a path. *)

\* A slash and one more id behind x.
Behind(x, digits) == x \o <<0>> \o digits

\* The first k ids of a path, spelled: the function inside Spelled.
SpelledUpto(path) ==
    CHOOSE g : g = [k \in 0..Len(path) |->
                      IF k = 0 THEN <<>> ELSE Behind(g[k - 1], Digits[path[k]])]

Spelling(path, n, g) ==
    g = [k \in 0..n |-> IF k = 0 THEN <<>> ELSE Behind(g[k - 1], Digits[path[k]])]

LEMMA SpellingsExist ==
    ASSUME NEW path, NEW N \in Nat
    PROVE  \E g : Spelling(path, N, g)
<1> DEFINE Bad == { n \in Nat : ~ \E g : Spelling(path, n, g) }
<1> SUFFICES ASSUME Bad # {} PROVE FALSE
  OBVIOUS
<1>1. PICK m \in Bad : \A n \in Bad : m <= n
  BY LeastNatural
<1>2. m \in Nat /\ ~ \E g : Spelling(path, m, g)
  OBVIOUS
<1>3. ASSUME m = 0 PROVE FALSE
  <2> DEFINE g == [k \in 0..0 |-> <<>>]
  <2>1. g = [k \in 0..0 |-> IF k = 0 THEN <<>> ELSE Behind(g[k - 1], Digits[path[k]])]
    OBVIOUS
  <2> QED
    BY <1>2, <1>3, <2>1 DEF Spelling
<1>4. ASSUME m # 0 PROVE FALSE
  <2>1. m - 1 \in Nat /\ ~(m <= m - 1)
    BY <1>2, <1>4
  <2>2. m - 1 \notin Bad
    BY <1>1, <2>1
  <2>3. PICK g : Spelling(path, m - 1, g)
    BY <2>1, <2>2
  <2> DEFINE h == [k \in 0..m |-> IF k = m THEN Behind(g[m - 1], Digits[path[m]]) ELSE g[k]]
  <2>4. \A k \in 0..m-1 : g[k] = IF k = 0 THEN <<>> ELSE Behind(g[k - 1], Digits[path[k]])
    BY <2>3 DEF Spelling
  <2>5. ASSUME NEW k \in 0..m
        PROVE  h[k] = IF k = 0 THEN <<>> ELSE Behind(h[k - 1], Digits[path[k]])
    <3>1. CASE k = m
      <4>1. h[m] = Behind(g[m - 1], Digits[path[m]]) /\ h[m - 1] = g[m - 1]
        BY <1>2, <2>1
      <4> QED
        BY <1>4, <3>1, <4>1
    <3>2. CASE k # m /\ k = 0
      BY <1>2, <2>1, <2>4, <3>2
    <3>3. CASE k # m /\ k # 0
      <4>1. k \in 0..m-1 /\ k - 1 \in 0..m /\ k - 1 # m
        BY <1>2, <3>3
      <4>2. h[k] = g[k] /\ h[k - 1] = g[k - 1]
        BY <3>3, <4>1
      <4> QED
        BY <2>4, <3>3, <4>1, <4>2
    <3> QED
      BY <3>1, <3>2, <3>3
  <2>6. h = [k \in 0..m |-> h[k]]
    OBVIOUS
  <2> HIDE DEF h
  <2>7. h = [k \in 0..m |-> IF k = 0 THEN <<>> ELSE Behind(h[k - 1], Digits[path[k]])]
    BY <2>5, <2>6
  <2> QED
    BY <1>2, <2>7 DEF Spelling
<1> QED
  BY <1>3, <1>4

LEMMA SpelledUnfold ==
    ASSUME NEW path \in Seq(Nat)
    PROVE  /\ Spelled(path) = SpelledUpto(path)[Len(path)]
           /\ SpelledUpto(path)[0] = <<>>
           /\ \A k \in 1..Len(path) :
                SpelledUpto(path)[k] = Behind(SpelledUpto(path)[k - 1], Digits[path[k]])
<1> DEFINE U == SpelledUpto(path)
<1>1. Spelled(path) = U[Len(path)]
  BY Zenon DEF Spelled, SpelledUpto, Behind
<1>2. Len(path) \in Nat
  OBVIOUS
<1>3. PICK h : h = [k \in 0..Len(path) |-> IF k = 0 THEN <<>> ELSE Behind(h[k - 1], Digits[path[k]])]
  BY <1>2, SpellingsExist DEF Spelling
<1>4. U = [k \in 0..Len(path) |-> IF k = 0 THEN <<>> ELSE Behind(U[k - 1], Digits[path[k]])]
  BY <1>3, Zenon DEF SpelledUpto
<1> HIDE DEF U
<1>5. \A k \in 0..Len(path) : U[k] = IF k = 0 THEN <<>> ELSE Behind(U[k - 1], Digits[path[k]])
  BY <1>4
<1>6. 0 \in 0..Len(path) /\ \A k \in 1..Len(path) : k \in 0..Len(path) /\ k # 0
  BY <1>2
<1>7. U[0] = <<>>
  BY <1>5, <1>6
<1>8. \A k \in 1..Len(path) : U[k] = Behind(U[k - 1], Digits[path[k]])
  BY <1>5, <1>6
<1> QED
  BY <1>1, <1>7, <1>8 DEF U

\* w begins with u, and there u ends or a slash follows.
Leads(u, w) ==
    /\ Len(u) <= Len(w)
    /\ \A i \in 1..Len(u) : w[i] = u[i]
    /\ Len(w) = Len(u) \/ w[Len(u) + 1] = 0

LEMMA LeadsOn ==
    ASSUME NEW u \in Seq(Nat), NEW v \in Seq(Nat), NEW w \in Seq(Nat), Leads(u, v), Leads(v, w)
    PROVE  Leads(u, w)
<1>1. Len(u) \in Nat /\ Len(v) \in Nat /\ Len(w) \in Nat
  OBVIOUS
<1>2. Len(u) <= Len(v) /\ Len(v) <= Len(w)
  BY DEF Leads
<1>3. \A i \in 1..Len(u) : w[i] = u[i]
  <2>1. \A i \in 1..Len(u) : i \in 1..Len(v)
    BY <1>1, <1>2
  <2> QED
    BY <2>1 DEF Leads
<1>4. CASE Len(u) = Len(v)
  BY <1>1, <1>2, <1>3, <1>4 DEF Leads
<1>5. CASE Len(u) # Len(v)
  <2>1. Len(u) + 1 \in 1..Len(v)
    BY <1>1, <1>2, <1>5
  <2>2. v[Len(u) + 1] = 0
    BY <1>5 DEF Leads
  <2>3. w[Len(u) + 1] = 0
    BY <2>1, <2>2 DEF Leads
  <2> QED
    BY <1>1, <1>2, <1>3, <2>3 DEF Leads
<1> QED
  BY <1>4, <1>5

LEMMA LengthType ==
    ASSUME NEW S, NEW s \in Seq(S)
    PROVE  Len(s) \in Nat
  OBVIOUS

LEMMA Joined ==
    ASSUME NEW a \in Seq(Nat), NEW b \in Seq(Nat)
    PROVE  /\ a \o b \in Seq(Nat) /\ Len(a \o b) = Len(a) + Len(b)
           /\ \A i \in 1..Len(a) : (a \o b)[i] = a[i]
           /\ \A i \in 1..Len(b) : (a \o b)[Len(a) + i] = b[i]
<1>1. /\ a \o b \in Seq(Nat) /\ Len(a \o b) = Len(a) + Len(b)
      /\ \A i \in 1..Len(a) : (a \o b)[i] = a[i]
  OBVIOUS
<1>2. ASSUME NEW i \in 1..Len(b) PROVE (a \o b)[Len(a) + i] = b[i]
  <2>1. Len(a) + i \in 1..Len(a)+Len(b) /\ ~(Len(a) + i <= Len(a)) /\ Len(a) + i - Len(a) = i
    OBVIOUS
  <2> QED
    BY <2>1
<1> QED
  BY <1>1, <1>2

\* One id more: a slash, then digits.
LEMMA OneMoreId ==
    ASSUME NEW x \in Seq(Nat), NEW d \in Seq(Nat \ {0}), NEW y, y = Behind(x, d)
    PROVE  /\ y \in Seq(Nat) /\ Len(y) = Len(x) + 1 + Len(d)
           /\ \A i \in 1..Len(d) : y[Len(x) + 1 + i] = d[i] /\ d[i] # 0
           /\ Leads(x, y)
<1>1. d \in Seq(Nat) /\ <<0>> \in Seq(Nat) /\ Len(<<0>>) = 1 /\ Len(x) \in Nat /\ Len(d) \in Nat
  <2>1. Len(d) \in Nat /\ DOMAIN d = 1..Len(d) /\ \A i \in 1..Len(d) : d[i] \in Nat
    OBVIOUS
  <2>2. d = [i \in 1..Len(d) |-> d[i]]
    OBVIOUS
  <2>3. d \in Seq(Nat)
    BY <2>1, <2>2
  <2> QED
    BY <2>3
<1> DEFINE z == x \o <<0>>
<1>2. z \in Seq(Nat) /\ Len(z) = Len(x) + 1 /\ z[Len(x) + 1] = 0 /\ \A i \in 1..Len(x) : z[i] = x[i]
  BY <1>1
<1>3. y = z \o d
  BY DEF Behind
<1> HIDE DEF z
<1>4. /\ y \in Seq(Nat) /\ Len(y) = Len(z) + Len(d)
      /\ \A i \in 1..Len(z) : y[i] = z[i]
      /\ \A i \in 1..Len(d) : y[Len(z) + i] = d[i]
  <2>1. /\ z \o d \in Seq(Nat) /\ Len(z \o d) = Len(z) + Len(d)
        /\ \A i \in 1..Len(z) : (z \o d)[i] = z[i]
        /\ \A i \in 1..Len(d) : (z \o d)[Len(z) + i] = d[i]
    BY <1>1, <1>2, Joined
  <2> QED
    BY <1>3, <2>1, Zenon
<1>5. \A i \in 1..Len(d) : d[i] # 0
  OBVIOUS
<1>6. Leads(x, y)
  <2>1. Len(x) + 1 \in 1..Len(z) /\ \A i \in 1..Len(x) : i \in 1..Len(z)
    BY <1>1, <1>2
  <2>2. y[Len(x) + 1] = 0 /\ \A i \in 1..Len(x) : y[i] = x[i]
    BY <1>2, <1>4, <2>1
  <2>3. Len(x) <= Len(y)
    BY <1>1, <1>2, <1>4
  <2> QED
    BY <2>2, <2>3 DEF Leads
<1>7. \A i \in 1..Len(d) : y[Len(x) + 1 + i] = d[i]
  BY <1>2, <1>4
<1> QED
  BY <1>1, <1>2, <1>4, <1>5, <1>6, <1>7

\* The ids of a path, from the left, lead its spelling.
LEMMA SpelledIsSpelling ==
    ASSUME NEW path \in Seq(Nat), NEW k \in 0..Len(path)
    PROVE  SpelledUpto(path)[k] \in Seq(Nat)
<1> DEFINE U == SpelledUpto(path)
           Bad == { i \in Nat : i <= Len(path) /\ U[i] \notin Seq(Nat) }
<1>1. Len(path) \in Nat /\ U[0] = <<>> /\ \A i \in 1..Len(path) : U[i] = Behind(U[i - 1], Digits[path[i]])
  BY SpelledUnfold
<1> HIDE DEF U
<1> SUFFICES ASSUME Bad # {} PROVE FALSE
  BY DEF U
<1>2. PICK i \in Bad : \A j \in Bad : i <= j
  BY LeastNatural
<1>3. i \in Nat /\ i <= Len(path) /\ U[i] \notin Seq(Nat)
  OBVIOUS
<1>4. i # 0
  <2>1. <<>> \in Seq(Nat)
    OBVIOUS
  <2> QED
    BY <1>1, <1>3, <2>1, Zenon
<1>5. i - 1 \in Nat /\ i - 1 <= Len(path) /\ ~(i <= i - 1) /\ i \in 1..Len(path)
  BY <1>1, <1>3, <1>4
<1>6. U[i - 1] \in Seq(Nat)
  BY <1>2, <1>5
<1>7. path[i] \in Nat
  BY <1>5
<1>8. Digits[path[i]] \in Seq(Nat \ {0})
  BY <1>7, DigitsAreDigits
<1>9. Behind(U[i - 1], Digits[path[i]]) \in Seq(Nat)
  BY <1>6, <1>8, OneMoreId
<1> QED
  BY <1>1, <1>3, <1>5, <1>9, Zenon

LEMMA SpelledGrows ==
    ASSUME NEW path \in Seq(Nat), NEW k \in 0..Len(path), NEW j \in k..Len(path)
    PROVE  /\ Leads(SpelledUpto(path)[k], SpelledUpto(path)[j])
           /\ k < j => Len(SpelledUpto(path)[k]) < Len(SpelledUpto(path)[j])
<1> DEFINE U == SpelledUpto(path)
           Good(i) == Leads(U[k], U[i]) /\ (k < i => Len(U[k]) < Len(U[i]))
           Bad == { i \in Nat : k <= i /\ i <= Len(path) /\ ~Good(i) }
<1>1. Len(path) \in Nat /\ \A i \in 1..Len(path) : U[i] = Behind(U[i - 1], Digits[path[i]])
  BY SpelledUnfold
<1>2. \A i \in 0..Len(path) : U[i] \in Seq(Nat)
  BY SpelledIsSpelling
<1> HIDE DEF U
<1> SUFFICES ASSUME Bad # {} PROVE FALSE
  BY <1>1 DEF U
<1>3. PICK i \in Bad : \A m \in Bad : i <= m
  BY LeastNatural
<1>4. i \in Nat /\ k <= i /\ i <= Len(path) /\ ~Good(i) /\ k \in Nat
  OBVIOUS
<1>5. CASE i = k
  <2>1. Good(k)
    BY <1>2 DEF Leads
  <2> QED
    BY <1>4, <1>5, <2>1
<1>6. CASE i # k
  <2> DEFINE m == i - 1
  <2>1. m \in Nat /\ k <= m /\ m <= Len(path) /\ ~(i <= m) /\ i \in 1..Len(path) /\ m \in 0..Len(path) /\ k \in 0..Len(path)
    BY <1>1, <1>4, <1>6
  <2>2. U[i] = Behind(U[m], Digits[path[i]])
    BY <1>1, <2>1
  <2> HIDE DEF m
  <2>3. Good(m)
    <3> HIDE DEF Good
    <3> QED
      BY <1>3, <2>1
  <2>4. path[i] \in Nat
    BY <2>1
  <2>5. Digits[path[i]] \in Seq(Nat \ {0}) /\ Len(Digits[path[i]]) >= 1
    BY <2>4, DigitsAreDigits
  <2>6. Leads(U[m], U[i]) /\ Len(U[i]) = Len(U[m]) + 1 + Len(Digits[path[i]])
    BY <1>2, <2>1, <2>2, <2>5, OneMoreId
  <2>7. U[k] \in Seq(Nat) /\ U[m] \in Seq(Nat) /\ U[i] \in Seq(Nat)
    BY <1>2, <1>4, <2>1
  <2>8. Leads(U[k], U[i])
    BY <2>3, <2>6, <2>7, LeadsOn
  <2>9. Len(U[k]) < Len(U[i])
    <3>1. Len(U[k]) \in Nat /\ Len(U[m]) \in Nat /\ Len(Digits[path[i]]) \in Nat
      BY <2>5, <2>7, LengthType
    <3>2. Len(U[k]) <= Len(U[m])
      BY <2>3 DEF Leads
    <3>3. \A a, b, c, d \in Nat : a <= b /\ c = b + 1 + d => a < c
      OBVIOUS
    <3>4. Len(U[i]) \in Nat
      BY <2>7, LengthType
    <3> QED
      BY <2>6, <3>1, <3>2, <3>3, <3>4, Zenon
  <2> QED
    BY <1>4, <2>8, <2>9
<1> QED
  BY <1>5, <1>6

\* Digits behind the same slash that both end there, or are followed by a slash, are the same.
LEMMA NoLongerDigits ==
    ASSUME NEW x \in Seq(Nat), NEW a \in Seq(Nat \ {0}), NEW b \in Seq(Nat \ {0}), NEW w \in Seq(Nat),
           Leads(Behind(x, a), w), Leads(Behind(x, b), w)
    PROVE  ~(Len(a) < Len(b))
<1> DEFINE y == Behind(x, a)
           z == Behind(x, b)
<1>1. /\ Len(y) = Len(x) + 1 + Len(a)
      /\ Len(z) = Len(x) + 1 + Len(b)
      /\ \A i \in 1..Len(b) : z[Len(x) + 1 + i] = b[i] /\ b[i] # 0
  BY OneMoreId
<1>2. Leads(y, w) /\ Leads(z, w)
  OBVIOUS
<1>3. Len(x) \in Nat /\ Len(a) \in Nat /\ Len(b) \in Nat /\ Len(w) \in Nat
  OBVIOUS
<1> HIDE DEF y, z
<1> SUFFICES ASSUME Len(a) < Len(b) PROVE FALSE
  OBVIOUS
<1>4. Len(a) + 1 \in 1..Len(b) /\ Len(y) + 1 = Len(x) + 1 + (Len(a) + 1) /\ Len(y) + 1 \in 1..Len(z)
  BY <1>1, <1>3
<1>5. z[Len(y) + 1] # 0
  BY <1>1, <1>4
<1>6. w[Len(y) + 1] # 0
  BY <1>2, <1>4, <1>5 DEF Leads
<1>7. Len(w) = Len(y) /\ Len(z) <= Len(w)
  BY <1>2, <1>6 DEF Leads
<1> QED
  BY <1>1, <1>3, <1>7

LEMMA SameDigits ==
    ASSUME NEW x \in Seq(Nat), NEW a \in Seq(Nat \ {0}), NEW b \in Seq(Nat \ {0}), NEW w \in Seq(Nat),
           Leads(Behind(x, a), w), Leads(Behind(x, b), w)
    PROVE  a = b
<1> DEFINE y == Behind(x, a)
           z == Behind(x, b)
<1>1. /\ Len(y) = Len(x) + 1 + Len(a)
      /\ \A i \in 1..Len(a) : y[Len(x) + 1 + i] = a[i]
  BY OneMoreId
<1>2. /\ Len(z) = Len(x) + 1 + Len(b)
      /\ \A i \in 1..Len(b) : z[Len(x) + 1 + i] = b[i]
  BY OneMoreId
<1>3. Leads(y, w) /\ Leads(z, w)
  OBVIOUS
<1>4. ~(Len(a) < Len(b)) /\ ~(Len(b) < Len(a))
  BY NoLongerDigits
<1>5. Len(x) \in Nat /\ Len(a) \in Nat /\ Len(b) \in Nat /\ Len(a) = Len(b)
  BY <1>4
<1> HIDE DEF y, z
<1>6. ASSUME NEW i \in 1..Len(a) PROVE a[i] = b[i]
  <2> DEFINE p == Len(x) + 1 + i
  <2>1. p \in 1..Len(y) /\ p \in 1..Len(z)
    BY <1>1, <1>2, <1>5
  <2>2. y[p] = a[i] /\ z[p] = b[i]
    BY <1>1, <1>2, <1>5
  <2> HIDE DEF p
  <2>3. w[p] = y[p] /\ w[p] = z[p]
    BY <1>3, <2>1 DEF Leads
  <2> QED
    BY <2>2, <2>3
<1> QED
  BY <1>5, <1>6, SameItems

-----------------------------------------------------------------------------
(* The spelling of a path leads exactly those of the paths below it. *)

LEMMA SpelledBelow ==
    ASSUME NEW p \in Seq(Nat), NEW q \in Seq(Nat), Leads(Spelled(p), Spelled(q))
    PROVE  Len(p) <= Len(q) /\ \A i \in 1..Len(p) : p[i] = q[i]
<1> DEFINE U == SpelledUpto(p)
           W == SpelledUpto(q)
           Good(k) == k <= Len(q) /\ U[k] = W[k] /\ (k # 0 => p[k] = q[k])
           Bad == { k \in Nat : k <= Len(p) /\ ~Good(k) }
<1>1. /\ Len(p) \in Nat /\ Spelled(p) = U[Len(p)] /\ U[0] = <<>>
      /\ \A k \in 1..Len(p) : U[k] = Behind(U[k - 1], Digits[p[k]])
  BY SpelledUnfold
<1>2. /\ Len(q) \in Nat /\ Spelled(q) = W[Len(q)] /\ W[0] = <<>>
      /\ \A k \in 1..Len(q) : W[k] = Behind(W[k - 1], Digits[q[k]])
  BY SpelledUnfold
<1>3. \A k \in 0..Len(p) : U[k] \in Seq(Nat) /\ Leads(U[k], U[Len(p)])
  <2>1. \A k \in 0..Len(p) : Len(p) \in k..Len(p)
    BY <1>1
  <2> QED
    BY <2>1, SpelledIsSpelling, SpelledGrows
<1>4. \A k \in 0..Len(q) : W[k] \in Seq(Nat) /\ Leads(W[k], W[Len(q)])
  <2>1. \A k \in 0..Len(q) : Len(q) \in k..Len(q)
    BY <1>2
  <2> QED
    BY <2>1, SpelledIsSpelling, SpelledGrows
<1> HIDE DEF U, W
<1>5. Bad = {}
  <2> SUFFICES ASSUME Bad # {} PROVE FALSE
    OBVIOUS
  <2>1. PICK k \in Bad : \A m \in Bad : k <= m
    BY LeastNatural
  <2>2. k \in Nat /\ k <= Len(p) /\ ~Good(k)
    OBVIOUS
  <2>3. k # 0
    BY <1>1, <1>2, <2>2
  <2> DEFINE m == k - 1
             x == U[m]
             w == W[Len(q)]
  <2>4. m \in Nat /\ m <= Len(p) /\ ~(k <= m) /\ m + 1 = k /\ k \in 1..Len(p) /\ m \in 0..Len(p) /\ k \in 0..Len(p) /\ Len(p) \in 0..Len(p)
    BY <1>1, <2>2, <2>3
  <2>5. U[k] = Behind(x, Digits[p[k]])
    BY <1>1, <2>4
  <2> HIDE DEF m
  <2>6. Good(m)
    <3> HIDE DEF Good
    <3> QED
      BY <2>1, <2>4
  <2>7. m <= Len(q) /\ W[m] = x
    BY <2>6
  <2>8. x \in Seq(Nat) /\ w \in Seq(Nat) /\ U[k] \in Seq(Nat) /\ U[Len(p)] \in Seq(Nat)
    <3>1. Len(q) \in 0..Len(q)
      BY <1>2
    <3> QED
      BY <1>3, <1>4, <2>4, <3>1
  <2>9. Leads(U[k], w)
    <3>1. Leads(U[k], U[Len(p)]) /\ Leads(U[Len(p)], w)
      BY <1>1, <1>2, <1>3, <2>4
    <3> QED
      BY <2>8, <3>1, LeadsOn
  <2>10. p[k] \in Nat
    BY <2>4, SMTT(30)
  <2>11. Digits[p[k]] \in Seq(Nat \ {0})
    BY <2>10, DigitsAreDigits
  <2>12. Len(U[k]) > Len(x)
    <3> HIDE DEF x, w
    <3>1. Len(U[k]) = Len(x) + 1 + Len(Digits[p[k]])
      <4> DEFINE d == Digits[p[k]]
                 y == Behind(x, d)
      <4>1. x \in Seq(Nat) /\ d \in Seq(Nat \ {0}) /\ y = Behind(x, d)
        BY <2>8, <2>11
      <4> HIDE DEF d, y
      <4>2. Len(y) = Len(x) + 1 + Len(d)
        BY <4>1, OneMoreId
      <4> QED
        BY <2>5, <4>2 DEF d, y
    <3>2. Len(x) \in Nat /\ Len(Digits[p[k]]) \in Nat
      BY <2>8, <2>11, LengthType
    <3>3. \A a, b, c \in Nat : c = a + 1 + b => c > a
      OBVIOUS
    <3>4. Len(U[k]) \in Nat
      BY <2>8, LengthType
    <3> QED
      BY <3>1, <3>2, <3>3, <3>4, Zenon
  <2>13. m # Len(q)
    <3>1. ASSUME m = Len(q) PROVE FALSE
      <4>1. w = x /\ Len(U[k]) <= Len(w)
        BY <2>7, <2>9, <3>1 DEF Leads
      <4>2. Len(U[k]) \in Nat /\ Len(x) \in Nat
        BY <2>8, LengthType
      <4> QED
        BY <2>12, <4>1, <4>2
    <3> QED
      BY <3>1
  <2>14. k \in 1..Len(q) /\ k \in 0..Len(q) /\ k - 1 = m
    BY <1>2, <2>2, <2>3, <2>4, <2>7, <2>13, SMTT(30)
  <2>15. W[k] = Behind(x, Digits[q[k]]) /\ Leads(W[k], w)
    BY <1>2, <1>4, <2>7, <2>14
  <2>16. q[k] \in Nat
    BY <2>14, SMTT(30)
  <2>17. Digits[q[k]] \in Seq(Nat \ {0})
    BY <2>16, DigitsAreDigits
  <2> HIDE DEF x, w
  <2>18. Digits[p[k]] = Digits[q[k]]
    BY <2>5, <2>8, <2>9, <2>11, <2>15, <2>17, SameDigits
  <2>19. p[k] = q[k]
    BY <2>10, <2>16, <2>18, DigitsTellApart
  <2> QED
    BY <2>2, <2>5, <2>14, <2>15, <2>19
<1>6. \A k \in 0..Len(p) : Good(k)
  BY <1>5
<1>7. Len(p) \in 0..Len(p) /\ \A k \in 1..Len(p) : k \in 0..Len(p) /\ k # 0
  BY <1>1
<1> QED
  BY <1>6, <1>7

LEMMA BelowIsSpelled ==
    ASSUME NEW p \in Seq(Nat), NEW q \in Seq(Nat), Len(p) <= Len(q), \A i \in 1..Len(p) : p[i] = q[i]
    PROVE  /\ Leads(Spelled(p), Spelled(q))
           /\ Len(p) < Len(q) => Len(Spelled(p)) < Len(Spelled(q))
<1> DEFINE U == SpelledUpto(p)
           W == SpelledUpto(q)
           Bad == { k \in Nat : k <= Len(p) /\ U[k] # W[k] }
<1>1. /\ Len(p) \in Nat /\ Spelled(p) = U[Len(p)] /\ U[0] = <<>>
      /\ \A k \in 1..Len(p) : U[k] = Behind(U[k - 1], Digits[p[k]])
  BY SpelledUnfold
<1>2. /\ Len(q) \in Nat /\ Spelled(q) = W[Len(q)] /\ W[0] = <<>>
      /\ \A k \in 1..Len(q) : W[k] = Behind(W[k - 1], Digits[q[k]])
  BY SpelledUnfold
<1>3. Len(p) \in 0..Len(q) /\ Len(q) \in Len(p)..Len(q)
  BY <1>1, <1>2
<1>4. Leads(W[Len(p)], W[Len(q)]) /\ (Len(p) < Len(q) => Len(W[Len(p)]) < Len(W[Len(q)]))
  BY <1>3, SpelledGrows
<1> HIDE DEF U, W
<1>5. Bad = {}
  <2> SUFFICES ASSUME Bad # {} PROVE FALSE
    OBVIOUS
  <2>1. PICK k \in Bad : \A m \in Bad : k <= m
    BY LeastNatural
  <2>2. k \in Nat /\ k <= Len(p) /\ U[k] # W[k]
    OBVIOUS
  <2>3. k # 0
    BY <1>1, <1>2, <2>2
  <2>4. k - 1 \in Nat /\ k - 1 <= Len(p) /\ ~(k <= k - 1) /\ k \in 1..Len(p) /\ k \in 1..Len(q)
    BY <1>1, <1>2, <2>2, <2>3
  <2>5. U[k - 1] = W[k - 1]
    BY <2>1, <2>4
  <2>6. p[k] = q[k]
    BY <2>4
  <2> QED
    BY <1>1, <1>2, <2>2, <2>4, <2>5, <2>6
<1>6. U[Len(p)] = W[Len(p)]
  BY <1>1, <1>5
<1> QED
  BY <1>1, <1>2, <1>4, <1>6

-----------------------------------------------------------------------------
(* The order of the list. *)

\* s is before t where they differ first, or has no characters left.
LEMMA PrecedesWhere ==
    ASSUME NEW s \in Seq(Nat), NEW t \in Seq(Nat)
    PROVE  Precedes(s, t) <=>
             \/ Len(s) < Len(t) /\ \A i \in 1..Len(s) : t[i] = s[i]
             \/ \E k \in Nat :
                  /\ 1 <= k /\ k <= Len(s) /\ k <= Len(t)
                  /\ \A i \in 1..k-1 : s[i] = t[i]
                  /\ s[k] < t[k]
<1>1. Len(s) \in Nat /\ Len(t) \in Nat
  OBVIOUS
<1>2. ASSUME Len(s) < Len(t)
      PROVE  SubSeq(t, 1, Len(s)) = s <=> \A i \in 1..Len(s) : t[i] = s[i]
  <2>1. /\ SubSeq(t, 1, Len(s)) \in Seq(Nat) /\ Len(SubSeq(t, 1, Len(s))) = Len(s)
        /\ \A i \in 1..Len(s) : SubSeq(t, 1, Len(s))[i] = t[i]
    BY <1>1, <1>2
  <2>2. ASSUME \A i \in 1..Len(s) : t[i] = s[i] PROVE SubSeq(t, 1, Len(s)) = s
    BY <2>1, <2>2, SameItems
  <2> QED
    BY <2>1, <2>2
<1>3. ASSUME NEW k \in Nat, 1 <= k, k <= Len(s), k <= Len(t)
      PROVE  SubSeq(s, 1, k - 1) = SubSeq(t, 1, k - 1) <=> \A i \in 1..k-1 : s[i] = t[i]
  <2> DEFINE a == SubSeq(s, 1, k - 1)
             b == SubSeq(t, 1, k - 1)
  <2>1. a \in Seq(Nat) /\ Len(a) = k - 1 /\ \A i \in 1..k-1 : a[i] = s[i]
    BY <1>1, <1>3, SMTT(30)
  <2>2. b \in Seq(Nat) /\ Len(b) = k - 1 /\ \A i \in 1..k-1 : b[i] = t[i]
    BY <1>1, <1>3
  <2> HIDE DEF a, b
  <2>3. ASSUME \A i \in 1..k-1 : s[i] = t[i] PROVE a = b
    BY <2>1, <2>2, <2>3, SameItems
  <2>4. ASSUME a = b, NEW i \in 1..k-1 PROVE s[i] = t[i]
    BY <2>1, <2>2, <2>4
  <2> QED
    BY <2>3, <2>4 DEF a, b
<1> DEFINE m == IF Len(s) < Len(t) THEN Len(s) ELSE Len(t)
<1>4. \A k : k \in 1..m <=> k \in Nat /\ 1 <= k /\ k <= Len(s) /\ k <= Len(t)
  BY <1>1
<1>5. Precedes(s, t) <=>
        \/ Len(s) < Len(t) /\ SubSeq(t, 1, Len(s)) = s
        \/ \E k \in 1..m : SubSeq(s, 1, k - 1) = SubSeq(t, 1, k - 1) /\ s[k] < t[k]
  BY Zenon DEF Precedes
<1> HIDE DEF m
<1> QED
  BY <1>2, <1>3, <1>4, <1>5

\* What stands between a string and one that goes on with a slash goes on with a slash.
LEMMA Between ==
    ASSUME NEW u \in Seq(Nat), NEW v \in Seq(Nat), NEW w \in Seq(Nat), Leads(u, v), Len(u) < Len(v),
           Precedes(u, w) \/ u = w, Precedes(w, v) \/ w = v
    PROVE  Leads(u, w)
<1>1. /\ Len(u) \in Nat /\ Len(v) \in Nat /\ Len(w) \in Nat
      /\ \A i \in 1..Len(u) : u[i] \in Nat
      /\ \A i \in 1..Len(v) : v[i] \in Nat
      /\ \A i \in 1..Len(w) : w[i] \in Nat
  OBVIOUS
<1>2. (\A i \in 1..Len(u) : v[i] = u[i]) /\ v[Len(u) + 1] = 0
  BY <1>1 DEF Leads
<1>3. CASE u = w
  BY <1>1, <1>3 DEF Leads
<1>4. CASE w = v
  BY <1>4
<1>5. CASE Precedes(u, w) /\ Precedes(w, v)
  <2>1. ASSUME NEW k \in Nat, 1 <= k, k <= Len(u), k <= Len(w),
               \A i \in 1..k-1 : u[i] = w[i], u[k] < w[k]
        PROVE  FALSE
    <3>1. k \in 1..Len(u) /\ k \in 1..Len(w) /\ v[k] = u[k]
      BY <1>1, <1>2, <2>1
    <3>2. ASSUME Len(w) < Len(v), \A i \in 1..Len(w) : v[i] = w[i] PROVE FALSE
      <4>1. v[k] = w[k]
        BY <3>1, <3>2
      <4> QED
        BY <1>1, <2>1, <3>1, <4>1
    <3>3. ASSUME NEW l \in Nat, 1 <= l, l <= Len(w), l <= Len(v),
                 \A i \in 1..l-1 : w[i] = v[i], w[l] < v[l]
          PROVE  FALSE
      <4>1. CASE l < k
        <5>1. l \in 1..k-1 /\ l \in 1..Len(u)
          BY <1>1, <2>1, <3>3, <4>1
        <5>2. w[l] = v[l] /\ w[l] \in Nat
          BY <1>1, <1>2, <2>1, <5>1
        <5> QED
          BY <3>3, <5>2
      <4>2. CASE l = k
        <5>1. w[k] < u[k] /\ w[k] \in Nat /\ u[k] \in Nat
          BY <1>1, <3>1, <3>3, <4>2
        <5> QED
          BY <2>1, <5>1, SMTT(30)
      <4>3. CASE k < l
        <5>1. k \in 1..l-1
          BY <2>1, <3>3, <4>3
        <5>2. w[k] = u[k] /\ w[k] \in Nat
          BY <1>1, <3>1, <3>3, <5>1
        <5> QED
          BY <2>1, <5>2
      <4> QED
        BY <2>1, <3>3, <4>1, <4>2, <4>3
    <3> QED
      BY <1>5, <3>2, <3>3, PrecedesWhere
  <2>2. Len(u) < Len(w) /\ \A i \in 1..Len(u) : w[i] = u[i]
    BY <1>5, <2>1, PrecedesWhere
  <2> DEFINE n == Len(u) + 1
  <2>3. n \in 1..Len(w) /\ n \in 1..Len(v) /\ v[n] = 0
    BY <1>1, <1>2, <2>2
  <2>4. w[n] = 0
    <3>1. CASE Len(w) < Len(v) /\ \A i \in 1..Len(w) : v[i] = w[i]
      BY <2>3, <3>1
    <3>2. ASSUME NEW l \in Nat, 1 <= l, l <= Len(w), l <= Len(v),
                 \A i \in 1..l-1 : w[i] = v[i], w[l] < v[l]
          PROVE  w[n] = 0
      <4>1. CASE l < n
        <5>1. l \in 1..Len(u)
          BY <1>1, <3>2, <4>1
        <5>2. w[l] = v[l] /\ v[l] \in Nat
          BY <1>1, <1>2, <2>2, <3>2, <5>1
        <5> QED
          BY <3>2, <5>2
      <4>2. CASE l = n
        <5>1. w[n] < 0 /\ w[n] \in Nat
          BY <1>1, <2>3, <3>2, <4>2
        <5> QED
          BY <5>1
      <4>3. CASE n < l
        <5>1. n \in 1..l-1
          BY <1>1, <3>2, <4>3, SMTT(30)
        <5> QED
          BY <2>3, <3>2, <5>1
      <4> QED
        BY <1>1, <3>2, <4>1, <4>2, <4>3
    <3> QED
      BY <1>5, <3>1, <3>2, PrecedesWhere
  <2> QED
    BY <1>1, <2>2, <2>4 DEF Leads
<1> QED
  BY <1>3, <1>4, <1>5

\* The list is the tree from top to bottom, in every state and for any base, number of rows and
\* length of their ids: a category stands before those below it, and nothing else between
\* (ListCategories sorts by the string of the path, mysql_store.go:548, that CreateCategory
\* puts together, 612-615).
THEOREM ListIsThePreorder == TreeSpec => []ListingIsPreorder
<1>1. ASSUME TreeInv PROVE ListingIsPreorder
  <2>1. /\ \A c \in categories : c.path \in Seq(Nat) /\ Len(c.path) \in 1..3 /\ c.path[Len(c.path)] = c.id
        /\ \A c, d \in categories : d.id = c.id => d = c
    <3>1. \A c \in categories : c.path \in Seq(Nat)
      BY <1>1 DEF TreeInv, TreeTypes, Category
    <3>2. \A c \in categories : IsSound(c)
      BY <1>1 DEF TreeInv, TreeIsSound
    <3>3. \A c, d \in categories : d.id = c.id => d = c
      BY <1>1 DEF TreeInv, TreeIsSound
    <3> QED
      BY <3>1, <3>2, <3>3 DEF IsSound
  <2>2. \A p, q \in Seq(Nat) : Len(p) <= Len(q) =>
          (SubSeq(q, 1, Len(p)) = p <=> \A i \in 1..Len(p) : p[i] = q[i])
    <3> SUFFICES ASSUME NEW p \in Seq(Nat), NEW q \in Seq(Nat), Len(p) <= Len(q)
                 PROVE  SubSeq(q, 1, Len(p)) = p <=> \A i \in 1..Len(p) : p[i] = q[i]
      OBVIOUS
    <3> DEFINE r == SubSeq(q, 1, Len(p))
    <3>1. r \in Seq(Nat) /\ Len(r) = Len(p) /\ \A i \in 1..Len(p) : r[i] = q[i]
      OBVIOUS
    <3> HIDE DEF r
    <3>2. ASSUME \A i \in 1..Len(p) : p[i] = q[i] PROVE r = p
      BY <3>1, <3>2, SameItems
    <3>3. ASSUME r = p PROVE \A i \in 1..Len(p) : p[i] = q[i]
      BY <3>1, <3>3
    <3> QED
      BY <3>2, <3>3 DEF r
  <2>3. \A c \in categories : Spelled(c.path) \in Seq(Nat)
    <3> SUFFICES ASSUME NEW c \in categories PROVE Spelled(c.path) \in Seq(Nat)
      OBVIOUS
    <3>1. c.path \in Seq(Nat) /\ Len(c.path) \in 0..Len(c.path)
      BY <2>1
    <3> QED
      BY <3>1, SpelledUnfold, SpelledIsSpelling
  <2> SUFFICES ASSUME NEW c \in categories, NEW d \in categories, InSubtree(d, c), c # d
               PROVE  /\ ListedBefore(c, d)
                      /\ \A e \in categories : ListedBefore(c, e) /\ ListedBefore(e, d) => InSubtree(e, c)
    BY DEF ListingIsPreorder
  <2> DEFINE C == Spelled(c.path)
             D == Spelled(d.path)
  <2>4. /\ c.path \in Seq(Nat) /\ d.path \in Seq(Nat) /\ C \in Seq(Nat) /\ D \in Seq(Nat)
        /\ Len(c.path) <= Len(d.path)
        /\ \A i \in 1..Len(c.path) : c.path[i] = d.path[i]
    BY <2>1, <2>2, <2>3 DEF InSubtree
  <2>5. Len(c.path) < Len(d.path)
    <3>1. ASSUME Len(c.path) = Len(d.path) PROVE FALSE
      <4> DEFINE k == Len(c.path)
      <4>1. k \in 1..3 /\ c.path[k] = c.id
        BY <2>1
      <4>2. d.path[k] = d.id
        BY <2>1, <3>1
      <4> HIDE DEF k
      <4>3. k \in 1..k
        BY <4>1
      <4>4. c.path[k] = d.path[k]
        BY <2>4, <4>3 DEF k
      <4> QED
        BY <2>1, <4>1, <4>2, <4>4
    <3>2. Len(c.path) \in Nat /\ Len(d.path) \in Nat
      BY <2>1
    <3> QED
      BY <2>4, <3>1, <3>2
  <2>6. Leads(C, D) /\ Len(C) < Len(D)
    BY <2>4, <2>5, BelowIsSpelled
  <2> HIDE DEF C, D
  <2>7. Precedes(C, D)
    BY <2>4, <2>6, PrecedesWhere DEF Leads
  <2>8. ASSUME NEW e \in categories, ListedBefore(c, e), ListedBefore(e, d) PROVE InSubtree(e, c)
    <3> DEFINE E == Spelled(e.path)
    <3>1. (Precedes(C, E) \/ C = E) /\ (Precedes(E, D) \/ E = D)
      BY <2>8 DEF ListedBefore, C, D
    <3>2. E \in Seq(Nat) /\ e.path \in Seq(Nat)
      BY <2>1, <2>3
    <3> HIDE DEF E
    <3>3. Leads(C, E)
      BY <2>4, <2>6, <3>1, <3>2, Between
    <3>4. Len(c.path) <= Len(e.path) /\ \A i \in 1..Len(c.path) : c.path[i] = e.path[i]
      BY <2>4, <3>2, <3>3, SpelledBelow DEF C, E
    <3> QED
      BY <2>2, <2>4, <3>2, <3>4 DEF InSubtree
  <2> QED
    BY <2>7, <2>8 DEF ListedBefore, C, D
<1> QED
  BY <1>1, TreeInvInit, TreeInvStep, PTL DEF TreeSpec

-----------------------------------------------------------------------------
(* The evaluation of the search. *)

\* The rows of the table: what it held, what operators write, what a seeding makes.
CaseRows ==
    Requests \cup (UNION { Range(rows) : rows \in InitialCases })
    \cup { [case |-> AutoCase(kid), expected |-> kid, answer |-> TRUE, active |-> TRUE] : kid \in Kids }
    \cup { [case |-> c, expected |-> NoKid, answer |-> FALSE, active |-> TRUE] : c \in NegativeCases }

TableInv == cases \in Seq(CaseRows)

\* The local variables of a seeding.
CaseIds == { row.case : row \in CaseRows }
Lists == UNION { [1..n -> Knowledge] : n \in Nat }

Seeding == [target : 0..MaxTarget, before : Nat, created : Nat, negative : Nat, after : Nat,
            auto : Nat, seen : SUBSET CaseIds, todo : Lists, alone : BOOLEAN]

SeedingTypes == seeding \in [Evaluators -> Seeding]

\* What the evaluation of a case keeps of it.
Evaluated == [row : CaseRows, found : Found, passed : BOOLEAN]

PassedPlaces(items) == { i \in DOMAIN items : items[i].passed }

\* The local variables of a run fit each other.
RunFits(r) ==
    /\ \A i \in DOMAIN r.todo : r.todo[i] \in CaseRows
    /\ r.items \in Seq(Evaluated)
    /\ \A i \in DOMAIN r.items : r.items[i].passed = Passes(r.items[i].row, r.items[i].found)
    /\ r.total = Len(r.items)
    /\ r.passed \in Nat /\ r.failed \in Nat
    /\ r.passed = Cardinality(PassedPlaces(r.items))
    /\ r.passed + r.failed = r.total

RunsFit == DOMAIN running = Evaluators /\ \A o \in Evaluators : RunFits(running[o])

\* The items of a run, as a reader gets them, and its header.
IsWhole(header, items) ==
    /\ Cardinality(items) = header.total
    /\ Cardinality({ i \in items : i.item.passed }) = header.passed
    /\ header.passed + header.failed = header.total

ItemsOf(run) == { i \in runItems : i.run = run }

\* The runs that are saved are numbered, and whole.
SavedRuns ==
    /\ IsFiniteSet(runs)
    /\ \A h \in runs : h.run \in 1..Cardinality(runs)
    /\ \A i \in runItems : i.run \in 1..Cardinality(runs)
    /\ \A h \in runs : IsWhole(h, ItemsOf(h.run))

\* A reader between its two queries, and after them.
Reading(o) ==
    /\ at[o] = "list_items" => \A l \in listed[o] : l.header \in runs /\ l = [header |-> l.header, items |-> {}]
    /\ at[o] = "listed" => \A l \in listed[o] : IsWhole(l.header, l.items)

Readings == DOMAIN at = Evaluators /\ DOMAIN listed = Evaluators /\ \A o \in Evaluators : Reading(o)

EvalInv == TableInv /\ SeedingTypes /\ RunsFit /\ SavedRuns /\ Readings

-----------------------------------------------------------------------------
(* The table of cases. *)

LEMMA RowsAreCases ==
    ASSUME NEW row \in CaseRows
    PROVE  row.expected \in Kids \cup {NoKid} /\ row.answer \in BOOLEAN
<1>1. CASE row \in Requests \cup UNION { Range(rows) : rows \in InitialCases }
  BY <1>1, RequestsAssumption
<1>2. CASE row \in { [case |-> AutoCase(kid), expected |-> kid, answer |-> TRUE, active |-> TRUE] : kid \in Kids }
  <2>1. PICK kid \in Kids :
          row = [case |-> AutoCase(kid), expected |-> kid, answer |-> TRUE, active |-> TRUE]
    BY <1>2
  <2>2. row.expected = kid /\ row.answer = TRUE
    BY <2>1
  <2> QED
    BY <2>2
<1>3. CASE row \in { [case |-> c, expected |-> NoKid, answer |-> FALSE, active |-> TRUE] : c \in NegativeCases }
  <2>1. PICK c \in NegativeCases :
          row = [case |-> c, expected |-> NoKid, answer |-> FALSE, active |-> TRUE]
    BY <1>3
  <2>2. row.expected = NoKid /\ row.answer = FALSE
    BY <2>1
  <2> QED
    BY <2>2
<1> QED
  BY <1>1, <1>2, <1>3 DEF CaseRows

LEMMA TableInit ==
    ASSUME EvalInit PROVE TableInv
<1>1. cases \in InitialCases /\ cases \in Seq(Range(cases))
  BY TablesAssumption DEF EvalInit
<1>2. Range(cases) \subseteq UNION { Range(rows) : rows \in InitialCases }
  BY <1>1
<1>3. Range(cases) \subseteq CaseRows
  BY <1>2 DEF CaseRows
<1> QED
  BY <1>1, <1>3, Z3 DEF TableInv

LEMMA InsertKeepsTable ==
    ASSUME NEW o, NEW row \in CaseRows, NEW counted, InsertCase(o, row, counted), TableInv
    PROVE  TableInv'
  BY DEF InsertCase, TableInv

\* The rows a seeding inserts.
LEMMA SeedsAreCases ==
    /\ \A kid \in Kids :
        [case |-> AutoCase(kid), expected |-> kid, answer |-> TRUE, active |-> TRUE] \in CaseRows
    /\ \A c \in NegativeCases :
        [case |-> c, expected |-> NoKid, answer |-> FALSE, active |-> TRUE] \in CaseRows
  BY DEF CaseRows

\* What CreateCase and UpdateCase do to the table.
LEMMA EditKeepsTable ==
    ASSUME TableInv, NEW o \in Evaluators, CreateCase(o) \/ UpdateCase(o)
    PROVE  TableInv'
<1>1. Requests \subseteq CaseRows
  BY DEF CaseRows
<1>2. CASE CreateCase(o)
  <2>1. PICK row \in Requests : cases' = Append(cases, row)
    BY <1>2, Zenon DEF CreateCase
  <2> QED
    BY <1>1, <2>1 DEF TableInv
<1>3. CASE UpdateCase(o)
  <2>1. PICK i \in DOMAIN cases, row \in Requests : cases' = [cases EXCEPT ![i] = row]
    BY <1>3, Zenon DEF UpdateCase
  <2> QED
    BY <1>1, <2>1 DEF TableInv
<1> QED
  BY <1>2, <1>3

-----------------------------------------------------------------------------
\* Nothing yet.
LEMMA NoRunFits == RunFits(NoRun)
<1>1. PassedPlaces(<<>>) = {}
  BY DEF PassedPlaces
<1>2. Cardinality({}) = 0
  BY FS_EmptySet
<1>3. <<>> \in Seq(Evaluated) /\ Len(<<>>) = 0 /\ DOMAIN <<>> = {}
  OBVIOUS
<1> HIDE DEF Evaluated
<1> QED
  BY <1>1, <1>2, <1>3 DEF RunFits, NoRun

\* One more case is evaluated.
LEMMA EvaluationCounts ==
    ASSUME NEW items \in Seq(Evaluated), NEW item \in Evaluated
    PROVE  /\ Append(items, item) \in Seq(Evaluated)
           /\ Cardinality(PassedPlaces(items)) \in Nat
           /\ Cardinality(PassedPlaces(Append(items, item))) =
                IF item.passed THEN Cardinality(PassedPlaces(items)) + 1 ELSE Cardinality(PassedPlaces(items))
<1> DEFINE end == Len(items) + 1
<1> HIDE DEF Evaluated
<1>1. Append(items, item) \in Seq(Evaluated) /\ DOMAIN Append(items, item) = DOMAIN items \cup {end}
  OBVIOUS
<1>2. \A i \in DOMAIN items : Append(items, item)[i] = items[i]
  OBVIOUS
<1>3. Append(items, item)[end] = item /\ end \notin DOMAIN items
  OBVIOUS
<1>4. IsFiniteSet(PassedPlaces(items))
  <2>1. PassedPlaces(items) \subseteq 1..Len(items) /\ IsFiniteSet(1..Len(items))
    BY FS_Interval DEF PassedPlaces
  <2> QED
    BY <2>1, FS_Subset
<1>5. PassedPlaces(Append(items, item)) =
        IF item.passed THEN PassedPlaces(items) \cup {end} ELSE PassedPlaces(items)
  BY <1>1, <1>2, <1>3, Zenon DEF PassedPlaces
<1>6. end \notin PassedPlaces(items)
  BY <1>3 DEF PassedPlaces
<1> HIDE DEF end
<1> QED
  BY <1>1, <1>4, <1>5, <1>6, FS_AddElement, FS_CardinalityType

-----------------------------------------------------------------------------
(* The types of a seeding. *)

LEMMA ListsHoldKnowledge ==
    ASSUME NEW list \in Lists, NEW i \in DOMAIN list
    PROVE  list[i] \in Knowledge /\ list[i].kid \in Kids /\ i \in Nat
<1>1. PICK n \in Nat : list \in [1..n -> Knowledge]
  BY DEF Lists
<1> QED
  BY <1>1 DEF Kids

LEMMA NoSeedingTypes == NoSeeding \in Seeding
<1>1. <<>> \in Lists
  <2>1. <<>> \in [1..0 -> Knowledge]
    OBVIOUS
  <2> QED
    BY <2>1 DEF Lists
<1>2. 0 \in 0..MaxTarget
  BY TargetsAssumption
<1> QED
  BY <1>1, <1>2 DEF NoSeeding, Seeding

LEMMA SeedCounts ==
    ASSUME NEW s \in Seeding
    PROVE  /\ \A kid \in Kids : Positive(s, kid) \in Seeding
           /\ \A c \in NegativeCases : Negative(s, c) \in Seeding
           /\ [s EXCEPT !.alone = FALSE] \in Seeding
           /\ \A list \in Lists : [s EXCEPT !.todo = list] \in Seeding
           /\ \A n \in Nat, m \in Nat, ids \in SUBSET CaseIds :
                [s EXCEPT !.before = n, !.after = n, !.auto = m, !.seen = ids, !.alone = TRUE] \in Seeding
<1>0. \A row \in CaseRows : row.case \in CaseIds
  BY DEF CaseIds
<1> HIDE DEF CaseIds
<1>1. \A kid \in Kids : AutoCase(kid) \in CaseIds
  <2> TAKE kid \in Kids
  <2>1. [case |-> AutoCase(kid), expected |-> kid, answer |-> TRUE, active |-> TRUE].case \in CaseIds
    BY <1>0, SeedsAreCases, Zenon
  <2> QED
    BY <2>1
<1>2. \A c \in NegativeCases : c \in CaseIds
  <2> TAKE c \in NegativeCases
  <2>1. [case |-> c, expected |-> NoKid, answer |-> FALSE, active |-> TRUE].case \in CaseIds
    BY <1>0, SeedsAreCases, Zenon
  <2> QED
    BY <2>1
<1>3. \A kid \in Kids : Positive(s, kid) \in Seeding
  <2> TAKE kid \in Kids
  <2>1. s.seen \cup {AutoCase(kid)} \in SUBSET CaseIds
    BY <1>1 DEF Seeding
  <2>2. s.auto + 1 \in Nat /\ s.created + 1 \in Nat /\ s.after + 1 \in Nat
    BY DEF Seeding
  <2> QED
    BY <2>1, <2>2 DEF Seeding, Positive
<1>4. \A c \in NegativeCases : Negative(s, c) \in Seeding
  <2> TAKE c \in NegativeCases
  <2>1. s.seen \cup {c} \in SUBSET CaseIds
    BY <1>2 DEF Seeding
  <2>2. s.negative + 1 \in Nat /\ s.after + 1 \in Nat
    BY DEF Seeding
  <2> QED
    BY <2>1, <2>2 DEF Seeding, Negative
<1>5. [s EXCEPT !.alone = FALSE] \in Seeding
  BY DEF Seeding
<1>6. \A list \in Lists : [s EXCEPT !.todo = list] \in Seeding
  BY DEF Seeding
<1>7. \A n \in Nat, m \in Nat, ids \in SUBSET CaseIds :
        [s EXCEPT !.before = n, !.after = n, !.auto = m, !.seen = ids, !.alone = TRUE] \in Seeding
  BY DEF Seeding
<1> QED
  BY <1>3, <1>4, <1>5, <1>6, <1>7

LEMMA ClampedTarget ==
    ASSUME NEW asked \in Targets
    PROVE  Clamped(asked) \in 1..MaxTarget /\ Clamped(asked) \in 0..MaxTarget
<1>1. asked \in Int /\ MaxTarget \in Nat /\ MaxTarget > 0 /\ DefaultTarget \in 1..MaxTarget
  BY TargetsAssumption
<1>2. CASE asked <= 0
  BY <1>1, <1>2 DEF Clamped
<1>3. CASE asked > MaxTarget /\ ~(asked <= 0)
  BY <1>1, <1>3 DEF Clamped
<1>4. CASE ~(asked > MaxTarget) /\ ~(asked <= 0)
  BY <1>1, <1>4 DEF Clamped
<1> QED
  BY <1>2, <1>3, <1>4

LEMMA TableCounts ==
    ASSUME TableInv
    PROVE  /\ Len(cases) \in Nat /\ AutoCount(cases) \in Nat
           /\ CaseIdsIn(cases) \in SUBSET CaseIds
<1>1. IsFiniteSet(DOMAIN cases) /\ Len(cases) \in Nat
  BY FS_Interval DEF TableInv
<1>2. AutoCount(cases) \in Nat
  BY <1>1, FS_Subset, FS_CardinalityType, Zenon DEF AutoCount
<1>3. \A i \in DOMAIN cases : cases[i] \in CaseRows
  BY DEF TableInv
<1> QED
  BY <1>1, <1>2, <1>3 DEF CaseIdsIn, CaseIds

LEMMA InsertKeepsTypes ==
    ASSUME SeedingTypes, NEW o \in Evaluators, NEW row, NEW counted \in Seeding,
           InsertCase(o, row, counted)
    PROVE  SeedingTypes'
<1>1. Disturbed(o) \in [Evaluators -> Seeding]
  BY SeedCounts DEF Disturbed, SeedingTypes
<1> QED
  BY <1>1, NoSeedingTypes DEF InsertCase, SeedingTypes

\* What the steps of a seeding leave of table and types.
LEMMA SeedStep ==
    ASSUME TableInv, SeedingTypes, NEW o \in Evaluators, SeedPositive(o) \/ SeedNegative(o)
    PROVE  TableInv' /\ SeedingTypes'
<1>0. seeding[o] \in Seeding /\ seeding[o].todo \in Lists
  BY DEF SeedingTypes, Seeding
<1>1. CASE UNCHANGED <<cases, seeding>>
  BY <1>1 DEF TableInv, SeedingTypes
<1>2. CASE SeedPositive(o) /\ ~UNCHANGED <<cases, seeding>>
  <2>1. PICK i \in Seedable(seeding[o]) :
          InsertCase(o, [case |-> AutoCase(seeding[o].todo[i].kid), expected |-> seeding[o].todo[i].kid,
                         answer |-> TRUE, active |-> TRUE], Positive(seeding[o], seeding[o].todo[i].kid))
    BY <1>2, Zenon DEF SeedPositive
  <2>2. seeding[o].todo[i].kid \in Kids
    BY <1>0, ListsHoldKnowledge DEF Seedable
  <2> QED
    BY <1>0, <2>1, <2>2, SeedCounts, SeedsAreCases, InsertKeepsTable, InsertKeepsTypes
<1>3. CASE SeedNegative(o) /\ ~UNCHANGED <<cases, seeding>>
  <2>1. PICK c \in NegativeCases :
          InsertCase(o, [case |-> c, expected |-> NoKid, answer |-> FALSE, active |-> TRUE],
                     Negative(seeding[o], c))
    BY <1>3, Zenon DEF SeedNegative
  <2> QED
    BY <1>0, <2>1, SeedCounts, SeedsAreCases, InsertKeepsTable, InsertKeepsTypes
<1> QED
  BY <1>1, <1>2, <1>3

EditDisturbs == [p \in Evaluators |-> [seeding[p] EXCEPT !.alone = FALSE]]

LEMMA EvalTypesInit == EvalInit => TableInv /\ SeedingTypes
  BY TableInit, NoSeedingTypes DEF EvalInit, SeedingTypes

LEMMA EvalTypesStep ==
    TableInv /\ SeedingTypes /\ [EvalNext]_evalVars => TableInv' /\ SeedingTypes'
<1> SUFFICES ASSUME TableInv, SeedingTypes, [EvalNext]_evalVars
             PROVE  TableInv' /\ SeedingTypes'
  OBVIOUS
<1>0. CASE UNCHANGED evalVars
  BY <1>0 DEF evalVars, TableInv, SeedingTypes
<1> SUFFICES ASSUME NEW o \in Evaluators,
                    \/ CreateCase(o) \/ UpdateCase(o)
                    \/ Seed(o) \/ ListCases(o) \/ ListKnowledge(o)
                    \/ SeedPositive(o) \/ SeedNegative(o)
                    \/ Run(o) \/ RunCase(o) \/ SaveRun(o)
                    \/ ListRuns(o) \/ ListRunItems(o)
             PROVE  TableInv' /\ SeedingTypes'
  BY <1>0, Zenon DEF EvalNext
<1> USE DEF SeedingTypes
<1>1. seeding[o] \in Seeding
  OBVIOUS
<1>2. CASE CreateCase(o) \/ UpdateCase(o)
  <2>1. seeding' = EditDisturbs
    BY <1>2 DEF CreateCase, UpdateCase, EditDisturbs
  <2>2. EditDisturbs \in [Evaluators -> Seeding]
    BY SeedCounts DEF EditDisturbs
  <2> QED
    BY <1>2, <2>1, <2>2, EditKeepsTable
<1>3. CASE Seed(o)
  <2>1. PICK asked \in Targets :
          seeding' = [seeding EXCEPT ![o] = [NoSeeding EXCEPT !.target = Clamped(asked), !.alone = TRUE]]
    BY <1>3, Zenon DEF Seed
  <2>2. [NoSeeding EXCEPT !.target = Clamped(asked), !.alone = TRUE] \in Seeding
    <3>1. Clamped(asked) \in 0..MaxTarget
      BY ClampedTarget
    <3> QED
      BY <3>1, NoSeedingTypes DEF Seeding
  <2> QED
    BY <1>3, <2>1, <2>2 DEF Seed, TableInv
<1>4. CASE ListCases(o)
  <2> DEFINE counted == [seeding[o] EXCEPT !.before = Len(cases), !.after = Len(cases),
                                !.auto = AutoCount(cases), !.seen = CaseIdsIn(cases), !.alone = TRUE]
  <2>1. counted \in Seeding
    BY <1>1, SeedCounts, TableCounts
  <2>2. seeding' = [seeding EXCEPT ![o] = counted] \/ seeding' = [seeding EXCEPT ![o] = NoSeeding]
    BY <1>4 DEF ListCases
  <2>3. UNCHANGED cases
    BY <1>4 DEF ListCases
  <2> HIDE DEF counted
  <2> QED
    BY <2>1, <2>2, <2>3, NoSeedingTypes DEF TableInv
<1>5. CASE ListKnowledge(o)
  <2>1. UNION { SetToSeqs(some) : some \in SUBSET Knowledge } \subseteq Lists
    <3>1. ASSUME NEW some \in SUBSET Knowledge, NEW list \in SetToSeqs(some)
          PROVE  list \in Lists
      <4>1. list \in [1..Cardinality(some) -> some] /\ Cardinality(some) \in Nat
        BY FS_Subset, FS_CardinalityType, KnowledgeAssumption DEF SetToSeqs
      <4>2. list \in [1..Cardinality(some) -> Knowledge]
        BY <4>1
      <4> QED
        BY <4>1, <4>2 DEF Lists
    <3> QED
      BY <3>1
  <2>2. \A list \in Lists : [seeding[o] EXCEPT !.todo = list] \in Seeding
    BY <1>1, SeedCounts
  <2>3. UNCHANGED cases
    BY <1>5 DEF ListKnowledge
  <2> QED
    BY <1>5, <2>1, <2>2, <2>3, NoSeedingTypes DEF ListKnowledge, TableInv
<1>6. CASE SeedPositive(o) \/ SeedNegative(o)
  BY <1>6, SeedStep
<1>7. CASE Run(o) \/ ListRuns(o)
  BY <1>7, NoSeedingTypes DEF Run, ListRuns, Forget, TableInv
<1>8. CASE RunCase(o) \/ SaveRun(o) \/ ListRunItems(o)
  <2>1. UNCHANGED <<cases, seeding>>
    BY <1>8, Zenon DEF RunCase, SaveRun, ListRunItems
  <2> QED
    BY <2>1 DEF TableInv
<1> QED
  BY <1>2, <1>3, <1>4, <1>5, <1>6, <1>7, <1>8

-----------------------------------------------------------------------------
(* Runs. *)

LEMMA RunFitsStep ==
    ASSUME TableInv, RunsFit, [EvalNext]_evalVars
    PROVE  RunsFit'
<1>0. CASE UNCHANGED running
  <2>1. DOMAIN running' = Evaluators /\ \A p \in Evaluators : RunFits(running'[p])
    <3> HIDE DEF RunFits
    <3> QED
      BY <1>0 DEF RunsFit
  <2> QED
    BY <2>1, Zenon DEF RunsFit, RunFits, PassedPlaces
<1> SUFFICES ASSUME NEW o \in Evaluators, ~UNCHANGED running,
                    \/ Seed(o) \/ Run(o) \/ RunCase(o) \/ SaveRun(o) \/ ListRuns(o)
             PROVE  RunsFit'
  BY <1>0, Zenon DEF EvalNext, evalVars, CreateCase, UpdateCase, ListCases, ListKnowledge,
                     SeedPositive, SeedNegative, ListRunItems
<1>1. ASSUME NEW r, RunFits(r), running' = [running EXCEPT ![o] = r]
      PROVE  RunsFit'
  <2>1. DOMAIN running' = Evaluators /\ \A p \in Evaluators : RunFits(running'[p])
    <3> HIDE DEF RunFits
    <3> QED
      BY <1>1 DEF RunsFit
  <2> QED
    BY <2>1, Zenon DEF RunsFit, RunFits, PassedPlaces
<1>2. CASE Seed(o) \/ ListRuns(o) \/ SaveRun(o)
  <2>1. running' = [running EXCEPT ![o] = NoRun]
    BY <1>2 DEF Seed, ListRuns, SaveRun, Forget
  <2> QED
    BY <1>1, <2>1, NoRunFits
<1>3. CASE Run(o)
  <2>1. running' = [running EXCEPT ![o] = [NoRun EXCEPT !.todo = ActiveCases]]
    BY <1>3 DEF Run
  <2>2. \A i \in DOMAIN ActiveCases : ActiveCases[i] \in CaseRows
    BY DEF ActiveCases, TableInv
  <2>3. RunFits([NoRun EXCEPT !.todo = ActiveCases])
    <3>1. [NoRun EXCEPT !.todo = ActiveCases] =
            [todo |-> ActiveCases, items |-> <<>>, total |-> 0, passed |-> 0, failed |-> 0]
      BY DEF NoRun
    <3> QED
      BY <2>2, <3>1, NoRunFits DEF RunFits, NoRun
  <2> QED
    BY <1>1, <2>1, <2>3
<1>4. CASE RunCase(o)
  <2> DEFINE r == running[o]
  <2>0. RunFits(r)
    BY DEF RunsFit
  <2>1. CASE running' = [running EXCEPT ![o] = NoRun]
    BY <1>1, <2>1, NoRunFits
  <2>2. CASE running' # [running EXCEPT ![o] = NoRun]
    <3>1. PICK next \in DOMAIN r.todo, found \in Found :
            running' = [running EXCEPT ![o] =
                [todo |-> Restrict(r.todo, DOMAIN r.todo \ {next}),
                 items |-> Append(r.items, [row |-> r.todo[next], found |-> found,
                                            passed |-> Passes(r.todo[next], found)]),
                 total |-> r.total + 1,
                 passed |-> IF Passes(r.todo[next], found) THEN r.passed + 1 ELSE r.passed,
                 failed |-> IF Passes(r.todo[next], found) THEN r.failed ELSE r.failed + 1]]
      BY <1>4, <2>2, Zenon DEF RunCase
    <3> DEFINE pass == Passes(r.todo[next], found)
               item == [row |-> r.todo[next], found |-> found, passed |-> pass]
               items == Append(r.items, item)
               new == [todo |-> Restrict(r.todo, DOMAIN r.todo \ {next}),
                       items |-> items,
                       total |-> r.total + 1,
                       passed |-> IF pass THEN r.passed + 1 ELSE r.passed,
                       failed |-> IF pass THEN r.failed ELSE r.failed + 1]
    <3>2. item \in Evaluated
      <4>1. r.todo[next] \in CaseRows
        BY <2>0 DEF RunFits
      <4>2. pass \in BOOLEAN
        BY DEF Passes
      <4> HIDE DEF pass
      <4> QED
        BY <4>1, <4>2 DEF Evaluated
    <3>3. item.passed = Passes(item.row, item.found)
      OBVIOUS
    <3>4. r.items \in Seq(Evaluated)
      BY <2>0 DEF RunFits
    <3>5. \A i \in DOMAIN new.todo : new.todo[i] \in CaseRows
      BY <2>0 DEF RunFits, Restrict
    <3>6. /\ items \in Seq(Evaluated)
          /\ Len(items) = Len(r.items) + 1
          /\ Cardinality(PassedPlaces(items)) =
               IF pass THEN Cardinality(PassedPlaces(r.items)) + 1 ELSE Cardinality(PassedPlaces(r.items))
      BY <3>2, <3>4, EvaluationCounts
    <3>7. \A i \in DOMAIN items : items[i].passed = Passes(items[i].row, items[i].found)
      <4> TAKE i \in DOMAIN items
      <4>1. CASE i \in DOMAIN r.items
        <5>1. items[i] = r.items[i]
          BY <3>4, <4>1
        <5> QED
          BY <2>0, <4>1, <5>1, Zenon DEF RunFits
      <4>2. CASE i \notin DOMAIN r.items
        <5>1. items[i] = item
          BY <3>4, <4>2
        <5> QED
          BY <3>3, <5>1, Zenon
      <4> QED
        BY <4>1, <4>2
    <3> HIDE DEF pass, items
    <3>8. RunFits(new)
      <4>1. /\ new.items = items /\ new.total = r.total + 1
            /\ pass => new.passed = r.passed + 1 /\ new.failed = r.failed
            /\ ~pass => new.passed = r.passed /\ new.failed = r.failed + 1
        OBVIOUS
      <4>2. /\ r.total = Len(r.items) /\ r.passed = Cardinality(PassedPlaces(r.items))
            /\ r.passed \in Nat /\ r.failed \in Nat /\ r.passed + r.failed = r.total
        BY <2>0 DEF RunFits
      <4> HIDE DEF new
      <4>3. /\ new.total = Len(new.items) /\ new.passed = Cardinality(PassedPlaces(new.items))
            /\ new.passed \in Nat /\ new.failed \in Nat /\ new.passed + new.failed = new.total
        <5>1. \/ /\ Cardinality(PassedPlaces(new.items)) = Cardinality(PassedPlaces(r.items)) + 1
                 /\ new.passed = r.passed + 1 /\ new.failed = r.failed
              \/ /\ Cardinality(PassedPlaces(new.items)) = Cardinality(PassedPlaces(r.items))
                 /\ new.passed = r.passed /\ new.failed = r.failed + 1
          BY <3>6, <4>1, Zenon
        <5>2. Len(new.items) = Len(r.items) + 1 /\ new.total = r.total + 1
          BY <3>6, <4>1, Zenon
        <5> HIDE DEF r
        <5> QED
          BY <4>2, <5>1, <5>2, SMTT(30)
      <4>4. /\ new.items \in Seq(Evaluated)
            /\ \A i \in DOMAIN new.items : new.items[i].passed = Passes(new.items[i].row, new.items[i].found)
        BY <3>6, <3>7, <4>1, Zenon
      <4> QED
        BY <3>5, <4>3, <4>4, Zenon DEF RunFits
    <3> USE DEF pass, items
    <3> QED
      BY <1>1, <3>1, <3>8
  <2> QED
    BY <2>1, <2>2
<1> QED
  BY <1>2, <1>3, <1>4

\* The rows of a run that is saved: one per item.
ItemRows(id, items) == { [run |-> id, place |-> i, item |-> items[i]] : i \in DOMAIN items }

LEMMA RowsOfARun ==
    ASSUME NEW id, NEW items \in Seq(Evaluated)
    PROVE  /\ Cardinality(ItemRows(id, items)) = Len(items)
           /\ Cardinality({ i \in ItemRows(id, items) : i.item.passed }) = Cardinality(PassedPlaces(items))
<1> HIDE DEF Evaluated
<1> DEFINE RowAt(i) == [run |-> id, place |-> i, item |-> items[i]]
           rows == ItemRows(id, items)
           passed == { i \in rows : i.item.passed }
<1>1. IsFiniteSet(DOMAIN items) /\ Cardinality(DOMAIN items) = Len(items)
  <2>1. DOMAIN items = 1..Len(items) /\ Len(items) \in Nat
    OBVIOUS
  <2> QED
    BY <2>1, FS_Interval, SMTT(30)
<1>2. IsFiniteSet(PassedPlaces(items))
  BY <1>1, FS_Subset DEF PassedPlaces
<1>3. ASSUME NEW places \in SUBSET DOMAIN items
      PROVE  Cardinality({ RowAt(i) : i \in places }) = Cardinality(places)
  <2> DEFINE image == { RowAt(i) : i \in places }
             row == [i \in places |-> RowAt(i)]
  <2>1. row \in Bijection(places, image)
    <3>1. row \in [places -> image]
      OBVIOUS
    <3>2. \A i, j \in places : row[i] = row[j] => i = j
      <4> TAKE i, j \in places
      <4>1. row[i].place = i /\ row[j].place = j
        OBVIOUS
      <4> QED
        BY <4>1, Zenon
    <3>3. \A t \in image : \E i \in places : row[i] = t
      OBVIOUS
    <3> QED
      BY <3>1, <3>2, <3>3, Fun_IsBij
  <2>2. IsFiniteSet(places)
    BY <1>1, FS_Subset
  <2> HIDE DEF row, image
  <2>3. Cardinality(places) = Cardinality(image)
    BY <2>1, <2>2, FS_Bijection DEF ExistsBijection
  <2> USE DEF image
  <2> QED
    BY <2>3
<1>4. rows = { RowAt(i) : i \in DOMAIN items }
  BY DEF ItemRows
<1>5. passed = { RowAt(i) : i \in PassedPlaces(items) }
  <2>1. \A i : RowAt(i).item = items[i]
    OBVIOUS
  <2> HIDE DEF RowAt
  <2> QED
    BY <1>4, <2>1 DEF PassedPlaces
<1>6. DOMAIN items \in SUBSET DOMAIN items /\ PassedPlaces(items) \in SUBSET DOMAIN items
  BY DEF PassedPlaces
<1> QED
  BY <1>1, <1>3, <1>4, <1>5, <1>6

\* SaveRAGEvalRun numbers the run and shows it with all of its items, or not at all.
LEMMA SavedRunsStep ==
    ASSUME RunsFit, SavedRuns, [EvalNext]_evalVars
    PROVE  SavedRuns'
<1>0. CASE UNCHANGED <<runs, runItems>>
  BY <1>0 DEF SavedRuns, ItemsOf, IsWhole
<1> SUFFICES ASSUME NEW o \in Evaluators, SaveRun(o), ~UNCHANGED <<runs, runItems>>
             PROVE  SavedRuns'
  BY <1>0, Zenon DEF EvalNext, evalVars, CreateCase, UpdateCase, Seed, ListCases, ListKnowledge,
                     SeedPositive, SeedNegative, Run, RunCase, ListRuns, ListRunItems
<1> DEFINE r == running[o]
           id == Cardinality(runs) + 1
           header == [run |-> id, total |-> r.total, passed |-> r.passed, failed |-> r.failed]
           rows == ItemRows(id, r.items)
<1>1. runs' = runs \cup {header} /\ runItems' = runItems \cup rows
  BY Zenon DEF SaveRun, ItemRows
<1>2. IsFiniteSet(runs) /\ Cardinality(runs) \in Nat
  BY FS_CardinalityType DEF SavedRuns
<1>3. header \notin runs
  BY <1>2 DEF SavedRuns
<1>4. IsFiniteSet(runs') /\ Cardinality(runs') = id
  BY <1>1, <1>2, <1>3, FS_AddElement
<1>5. \A h \in runs' : h.run \in 1..id
  BY <1>1, <1>2 DEF SavedRuns
<1>6. \A i \in rows : i.run = id
  BY DEF ItemRows
<1>7. \A i \in runItems' : i.run \in 1..id
  BY <1>1, <1>2, <1>6 DEF SavedRuns
<1>8. \A h \in runs : { i \in runItems' : i.run = h.run } = ItemsOf(h.run)
  <2> TAKE h \in runs
  <2>1. h.run \in 1..Cardinality(runs)
    BY DEF SavedRuns
  <2>2. h.run # id
    BY <1>2, <2>1
  <2> QED
    BY <1>1, <1>6, <2>2 DEF ItemsOf
<1>9. { i \in runItems' : i.run = id } = rows
  <2>1. \A i \in runItems : i.run # id
    BY <1>2 DEF SavedRuns
  <2> QED
    BY <1>1, <1>6, <2>1 DEF ItemsOf
<1>10. IsWhole(header, rows)
  <2>1. RunFits(r)
    BY DEF RunsFit
  <2>2. /\ Cardinality(rows) = Len(r.items)
        /\ Cardinality({ i \in rows : i.item.passed }) = Cardinality(PassedPlaces(r.items))
    BY <2>1, RowsOfARun DEF RunFits
  <2> QED
    BY <2>1, <2>2 DEF IsWhole, RunFits
<1>11. \A h \in runs' : IsWhole(h, { i \in runItems' : i.run = h.run })
  <2>1. ASSUME NEW h \in runs
        PROVE  IsWhole(h, { i \in runItems' : i.run = h.run })
    BY <1>8, <2>1, Zenon DEF SavedRuns
  <2>2. header.run = id
    OBVIOUS
  <2>3. IsWhole(header, { i \in runItems' : i.run = header.run })
    BY <1>9, <1>10, <2>2
  <2> HIDE DEF header
  <2> QED
    BY <1>1, <2>1, <2>3
<1> QED
  BY <1>4, <1>5, <1>7, <1>11 DEF SavedRuns, ItemsOf, IsWhole

\* A reader's headers are those of runs that were saved before, and a saved run stays as it is.
LEMMA ReadingsStep ==
    ASSUME SavedRuns, Readings, [EvalNext]_evalVars
    PROVE  Readings'
<1>0. CASE UNCHANGED evalVars
  BY <1>0 DEF evalVars, Readings, Reading, IsWhole
<1> SUFFICES ASSUME NEW o \in Evaluators,
                    \/ CreateCase(o) \/ UpdateCase(o)
                    \/ Seed(o) \/ ListCases(o) \/ ListKnowledge(o)
                    \/ SeedPositive(o) \/ SeedNegative(o)
                    \/ Run(o) \/ RunCase(o) \/ SaveRun(o)
                    \/ ListRuns(o) \/ ListRunItems(o)
             PROVE  Readings'
  BY <1>0, Zenon DEF EvalNext
<1>1. runs \subseteq runs'
  BY Zenon DEF CreateCase, UpdateCase, Seed, ListCases, ListKnowledge, SeedPositive, SeedNegative,
               Run, RunCase, SaveRun, ListRuns, ListRunItems
<1>2. DOMAIN at' = Evaluators /\ DOMAIN listed' = Evaluators
  <2>1. \/ UNCHANGED at
        \/ \E where : at' = [at EXCEPT ![o] = where]
    BY Zenon DEF CreateCase, UpdateCase, Seed, ListCases, ListKnowledge, SeedPositive, SeedNegative,
                 Run, RunCase, SaveRun, ListRuns, ListRunItems, InsertCase, Begin, Goto, Fails
  <2>2. \/ UNCHANGED listed
        \/ \E what : listed' = [listed EXCEPT ![o] = what]
    BY Zenon DEF CreateCase, UpdateCase, Seed, ListCases, ListKnowledge, SeedPositive, SeedNegative,
                 Run, RunCase, SaveRun, ListRuns, ListRunItems, Forget
  <2> QED
    BY <2>1, <2>2 DEF Readings
<1>3. ASSUME NEW p \in Evaluators, p # o PROVE Reading(p)'
  <2>1. at'[p] = at[p] /\ listed'[p] = listed[p]
    <3>1. \/ UNCHANGED at
          \/ \E where : at' = [at EXCEPT ![o] = where]
      BY Zenon DEF CreateCase, UpdateCase, Seed, ListCases, ListKnowledge, SeedPositive, SeedNegative,
                   Run, RunCase, SaveRun, ListRuns, ListRunItems, InsertCase, Begin, Goto, Fails
    <3>2. \/ UNCHANGED listed
          \/ \E what : listed' = [listed EXCEPT ![o] = what]
      BY Zenon DEF CreateCase, UpdateCase, Seed, ListCases, ListKnowledge, SeedPositive, SeedNegative,
                   Run, RunCase, SaveRun, ListRuns, ListRunItems, Forget
    <3> QED
      BY <1>3, <3>1, <3>2 DEF Readings
  <2>2. Reading(p)
    BY DEF Readings
  <2> QED
    BY <1>1, <2>1, <2>2 DEF Reading, IsWhole
<1>4. Reading(o)'
  <2>1. CASE ListRuns(o)
    <3>1. at'[o] = "list_items" /\ listed'[o] = { [header |-> h, items |-> {}] : h \in runs }
      BY <2>1 DEF ListRuns, Begin, Goto, Readings
    <3> QED
      BY <1>1, <3>1 DEF Reading
  <2>2. CASE ListRunItems(o)
    <3>1. at[o] = "list_items" /\ runItems' = runItems /\ Reading(o)
      BY <2>2 DEF ListRunItems, Readings
    <3>2. CASE at'[o] = "idle"
      BY <3>2 DEF Reading
    <3>3. CASE at'[o] # "idle"
      <4>1. /\ at'[o] = "listed"
            /\ listed'[o] = { [l EXCEPT !.items = ItemsOf(l.header.run)] : l \in listed[o] }
        BY <2>2, <3>3 DEF ListRunItems, Goto, Fails, Readings, ItemsOf
      <4>2. ASSUME NEW l \in listed'[o]
            PROVE  IsWhole(l.header, l.items)
        <5>1. PICK k \in listed[o] : l = [k EXCEPT !.items = ItemsOf(k.header.run)]
          BY <4>1, <4>2
        <5>2. k.header \in runs /\ k = [header |-> k.header, items |-> {}]
          BY <3>1 DEF Reading
        <5>3. l.header = k.header /\ l.items = ItemsOf(k.header.run)
          BY <5>1, <5>2
        <5> QED
          BY <5>2, <5>3, Zenon DEF SavedRuns
      <4> QED
        BY <4>1, <4>2 DEF Reading, IsWhole
    <3> QED
      BY <3>2, <3>3
  <2>3. CASE ~ListRuns(o) /\ ~ListRunItems(o)
    <3>1. at'[o] \notin {"list_items", "listed"} \/ (at'[o] = at[o] /\ listed'[o] = listed[o])
      BY <2>3 DEF CreateCase, UpdateCase, Seed, ListCases, ListKnowledge, SeedPositive, SeedNegative,
                  Run, RunCase, SaveRun, InsertCase, Begin, Goto, Fails, Readings
    <3>2. Reading(o)
      BY DEF Readings
    <3> QED
      BY <1>1, <3>1, <3>2 DEF Reading, IsWhole
  <2> QED
    BY <2>1, <2>2, <2>3
<1> QED
  <2>1. \A p \in Evaluators : Reading(p)'
    BY <1>3, <1>4
  <2> QED
    BY <1>2, <2>1 DEF Readings

LEMMA EvalInvInit == EvalInit => EvalInv
<1> SUFFICES ASSUME EvalInit PROVE EvalInv
  OBVIOUS
<1>1. TableInv /\ SeedingTypes
  BY EvalTypesInit
<1>2. RunsFit
  BY NoRunFits, Zenon DEF EvalInit, RunsFit
<1>3. SavedRuns
  BY FS_EmptySet DEF EvalInit, SavedRuns
<1>4. Readings
  BY DEF EvalInit, Readings, Reading
<1> QED
  BY <1>1, <1>2, <1>3, <1>4 DEF EvalInv

LEMMA EvalInvStep == EvalInv /\ [EvalNext]_evalVars => EvalInv'
  BY EvalTypesStep, RunFitsStep, SavedRunsStep, ReadingsStep, Zenon DEF EvalInv

LEMMA EvalInvHolds == EvalSpec => []EvalInv
  BY EvalInvInit, EvalInvStep, PTL DEF EvalSpec

\* What a reader of the runs sees adds up, with any number of operators (ListRAGEvalRuns and
\* SaveRAGEvalRun, mysql_store.go:1199-1318).
THEOREM ReadersSeeWholeRuns == EvalSpec => []ListedRunsAreWhole
<1>1. EvalInv => ListedRunsAreWhole
  BY Zenon DEF EvalInv, Readings, Reading, IsWhole, ListedRunsAreWhole
<1> QED
  BY <1>1, EvalInvHolds, PTL

-----------------------------------------------------------------------------
(* What the summary of a run says. *)

\* A smaller set of places counts less, and two sets without a common place add up.
LEMMA PlacesCount ==
    ASSUME NEW S, IsFiniteSet(S), NEW A \in SUBSET S, NEW B \in SUBSET S
    PROVE  /\ Cardinality(A) \in Nat /\ Cardinality(B) \in Nat
           /\ A \subseteq B => Cardinality(A) <= Cardinality(B)
           /\ A \cap B = {} => Cardinality(A \cup B) = Cardinality(A) + Cardinality(B)
           /\ Cardinality(A \cup B) <= Cardinality(A) + Cardinality(B)
           /\ A \subseteq B => Cardinality(B \ A) = Cardinality(B) - Cardinality(A)
<1>1. IsFiniteSet(A) /\ IsFiniteSet(B)
  BY FS_Subset
<1>2. Cardinality(A) \in Nat /\ Cardinality(B) \in Nat
  BY <1>1, FS_CardinalityType
<1>3. A \subseteq B => Cardinality(A) <= Cardinality(B)
  BY <1>1, FS_Subset
<1>4. Cardinality(A \cup B) = Cardinality(A) + Cardinality(B) - Cardinality(A \cap B)
  BY <1>1, FS_Union
<1>5. Cardinality(A \cap B) \in Nat
  BY <1>1, FS_Subset, FS_CardinalityType
<1>6. A \cap B = {} => Cardinality(A \cap B) = 0
  BY FS_EmptySet
<1>7. Cardinality(B \ A) = Cardinality(B) - Cardinality(A \cap B)
  BY <1>1, FS_Difference, <1>2, <1>5
<1>8. A \subseteq B => Cardinality(A \cap B) = Cardinality(A)
  <2>1. A \subseteq B => A \cap B = A
    OBVIOUS
  <2> QED
    BY <2>1, Zenon
<1>9. A \subseteq B => Cardinality(B \ A) = Cardinality(B) - Cardinality(A)
  BY <1>7, <1>8
<1>10. A \cap B = {} => Cardinality(A \cup B) = Cardinality(A) + Cardinality(B)
  BY <1>2, <1>4, <1>6
<1>11. Cardinality(A \cup B) <= Cardinality(A) + Cardinality(B)
  BY <1>2, <1>4, <1>5
<1> QED
  BY <1>2, <1>3, <1>9, <1>10, <1>11, Zenon

\* The evaluation of one case, and what the summary makes of it.
LEMMA CaseEvaluation ==
    ASSUME NEW item \in Evaluated, item.passed = Passes(item.row, item.found)
    PROVE  /\ item.row.answer /\ ~item.found.matched => ~item.passed
           /\ ~item.row.answer /\ item.found.matched => ~item.passed
           /\ ~(item.found.matched /\ item.found.matches = <<>>)
           /\ ~item.passed => \/ item.row.answer /\ ~item.found.matched
                              \/ ~item.row.answer /\ item.found.matched
                              \/ /\ item.row.expected # NoKid
                                 /\ item.row.expected \notin Range(item.found.matches)
<1>1. item.row.answer \in BOOLEAN
  BY RowsAreCases DEF Evaluated
<1>2. item.found.matched \in BOOLEAN /\ (item.found.matched => item.found.matches # <<>>)
  BY FoundAssumption DEF Evaluated
<1> QED
  BY <1>1, <1>2, Zenon DEF Passes

LEMMA SummaryAgrees ==
    ASSUME RunsFit, NEW o \in Evaluators
    PROVE  /\ MajorUnsafe(o) <= running[o].failed
           /\ running[o].failed <= MajorUnsafe(o) + ExpectedCases(o) - Top3Hits(o)
<1> DEFINE items == running[o].items
           D == DOMAIN items
           missed == { i \in D : items[i].row.answer /\ ~items[i].found.matched }
           hit == { i \in D : ~items[i].row.answer /\ items[i].found.matched }
           bare == { i \in D : /\ items[i].row.answer /\ items[i].found.matched
                               /\ items[i].found.matches = <<>> }
           expected == { i \in D : items[i].row.expected # NoKid }
           top == { i \in D : /\ items[i].row.expected # NoKid
                              /\ items[i].row.expected \in Range(items[i].found.matches) }
           failed == { i \in D : ~items[i].passed }
<1>1. RunFits(running[o])
  BY DEF RunsFit
<1>2. /\ MajorUnsafe(o) = Cardinality(missed) + Cardinality(hit) + Cardinality(bare)
      /\ ExpectedCases(o) = Cardinality(expected)
      /\ Top3Hits(o) = Cardinality(top)
  BY Zenon DEF MajorUnsafe, ExpectedCases, Top3Hits, Count
<1>3. IsFiniteSet(D) /\ Cardinality(D) = Len(items)
  <2>1. D = 1..Len(items) /\ Len(items) \in Nat
    BY <1>1 DEF RunFits
  <2> QED
    BY <2>1, FS_Interval
<1>4. running[o].failed = Cardinality(failed)
  <2>1. failed = D \ PassedPlaces(items) /\ PassedPlaces(items) \subseteq D
    BY DEF PassedPlaces
  <2>2. Cardinality(failed) = Len(items) - Cardinality(PassedPlaces(items))
    <3>1. PassedPlaces(items) \in SUBSET D /\ D \in SUBSET D
      BY <2>1
    <3> HIDE DEF D, failed
    <3>2. Cardinality(D \ PassedPlaces(items)) = Cardinality(D) - Cardinality(PassedPlaces(items))
      BY <1>3, <2>1, <3>1, PlacesCount
    <3> QED
      BY <1>3, <2>1, <3>2
  <2>3. Len(items) \in Nat
    BY <1>1 DEF RunFits
  <2> HIDE DEF failed
  <2> QED
    BY <1>1, <2>2, <2>3 DEF RunFits
<1>5. \A i \in D : items[i] \in Evaluated /\ items[i].passed = Passes(items[i].row, items[i].found)
  BY <1>1 DEF RunFits
<1>6. bare = {} /\ missed \cap hit = {} /\ missed \cup hit \subseteq failed
  BY <1>5, CaseEvaluation
<1>7. failed \subseteq (missed \cup hit) \cup (expected \ top) /\ top \subseteq expected
  BY <1>5, CaseEvaluation
<1>8. /\ missed \in SUBSET D /\ hit \in SUBSET D /\ expected \in SUBSET D /\ top \in SUBSET D
      /\ failed \in SUBSET D
  OBVIOUS
<1> HIDE DEF items, D, missed, hit, bare, expected, top, failed
<1>9. Cardinality(missed \cup hit) = Cardinality(missed) + Cardinality(hit)
  BY <1>3, <1>6, <1>8, PlacesCount, ZenonT(40)
<1>10. Cardinality(expected \ top) = Cardinality(expected) - Cardinality(top)
  BY <1>3, <1>7, <1>8, PlacesCount
<1>11. Cardinality(missed \cup hit) <= Cardinality(failed)
  BY <1>3, <1>6, <1>8, PlacesCount
<1>12. Cardinality(failed) <= Cardinality(missed \cup hit) + Cardinality(expected \ top)
  <2> DEFINE unsafe == missed \cup hit
             lost == expected \ top
  <2>1. unsafe \in SUBSET D /\ lost \in SUBSET D /\ unsafe \cup lost \in SUBSET D
    BY <1>8
  <2> HIDE DEF unsafe, lost
  <2>2. Cardinality(unsafe \cup lost) <= Cardinality(unsafe) + Cardinality(lost)
    BY <1>3, <2>1, PlacesCount
  <2>3. Cardinality(failed) <= Cardinality(unsafe \cup lost)
    <3>1. failed \subseteq unsafe \cup lost
      BY <1>7 DEF unsafe, lost
    <3> QED
      BY <1>3, <1>8, <2>1, <3>1, PlacesCount
  <2>4. /\ Cardinality(failed) \in Nat /\ Cardinality(unsafe) \in Nat /\ Cardinality(lost) \in Nat
        /\ Cardinality(unsafe \cup lost) \in Nat
    BY <1>3, <1>8, <2>1, PlacesCount
  <2>5. Cardinality(failed) <= Cardinality(unsafe) + Cardinality(lost)
    BY <2>2, <2>3, <2>4
  <2> QED
    BY <2>5 DEF unsafe, lost
<1>13. Cardinality(bare) = 0
  BY <1>6, FS_EmptySet
<1>14. /\ Cardinality(missed) \in Nat /\ Cardinality(hit) \in Nat /\ Cardinality(failed) \in Nat
       /\ Cardinality(expected) \in Nat /\ Cardinality(top) \in Nat
  BY <1>3, <1>8, PlacesCount
<1> QED
  BY <1>2, <1>4, <1>9, <1>10, <1>11, <1>12, <1>13, <1>14

\* The two views of a run agree, whatever the searches found (evaluateRAGCase and
\* summarizeRAGEvalQuality, rag_eval.go:226-302).
THEOREM SummaryExplainsFailures == EvalSpec => []QualityExplainsFailures
<1>1. EvalInv => QualityExplainsFailures
  BY SummaryAgrees DEF EvalInv, QualityExplainsFailures
<1> QED
  BY <1>1, EvalInvHolds, PTL

-----------------------------------------------------------------------------
(* The account of a seeding that nobody disturbs. *)

\* What it knows of the table is what the table holds.
Account(s, rows) ==
    /\ s.after = Len(rows)
    /\ s.auto = AutoCount(rows)
    /\ s.seen = CaseIdsIn(rows)
    /\ s.after = s.before + s.created + s.negative
    /\ s.created > 0 => s.auto <= s.target
    /\ \A i, j \in DOMAIN rows : i > s.before /\ rows[i].case = rows[j].case => i = j

\* The knowledge gives no more, or there are enough cases of it.
Exhausted(s) ==
    s.auto < s.target => \A i \in Seedable(s) : AutoCase(s.todo[i].kid) \in s.seen

SeedInv(s, rows, where) ==
    /\ where = "list_cases" => s.created = 0 /\ s.negative = 0
    /\ where \in {"list_knowledge", "positives", "negatives", "seeded"} /\ s.alone => Account(s, rows)
    /\ where \in {"negatives", "seeded"} /\ s.alone => Exhausted(s)
    /\ where = "seeded" /\ s.alone => NegativeCases \subseteq s.seen

SeedsInv == DOMAIN at = Evaluators /\ \A o \in Evaluators : SeedInv(seeding[o], cases, at[o])

\* A row of a case that was not there.
LEMMA AppendCounts ==
    ASSUME NEW rows \in Seq(CaseRows), NEW row \in CaseRows, row.case \notin CaseIdsIn(rows)
    PROVE  /\ Len(Append(rows, row)) = Len(rows) + 1 /\ Len(rows) \in Nat /\ AutoCount(rows) \in Nat
           /\ CaseIdsIn(Append(rows, row)) = CaseIdsIn(rows) \cup {row.case}
           /\ row.case \in AutoCases => AutoCount(Append(rows, row)) = AutoCount(rows) + 1
           /\ row.case \notin AutoCases => AutoCount(Append(rows, row)) = AutoCount(rows)
<1> DEFINE new == Append(rows, row)
           end == Len(rows) + 1
           auto == { i \in DOMAIN rows : rows[i].case \in AutoCases }
<1> HIDE DEF CaseRows
<1>1. DOMAIN new = DOMAIN rows \cup {end} /\ DOMAIN rows = 1..Len(rows) /\ Len(rows) \in Nat /\ Len(new) = end
  OBVIOUS
<1>2. \A i \in DOMAIN rows : new[i] = rows[i]
  OBVIOUS
<1>3. new[end] = row /\ end \notin DOMAIN rows
  OBVIOUS
<1> HIDE DEF new, end
<1>4. CaseIdsIn(new) = CaseIdsIn(rows) \cup {row.case}
  BY <1>1, <1>2, <1>3 DEF CaseIdsIn
<1>5. IsFiniteSet(auto)
  <2>1. IsFiniteSet(1..Len(rows)) /\ auto \subseteq 1..Len(rows)
    BY <1>1, FS_Interval
  <2> QED
    BY <2>1, FS_Subset
<1>6. AutoCount(rows) = Cardinality(auto) /\ Cardinality(auto) \in Nat
  BY <1>5, FS_CardinalityType DEF AutoCount
<1>7. CASE row.case \in AutoCases
  <2>1. { i \in DOMAIN new : new[i].case \in AutoCases } = auto \cup {end}
    BY <1>1, <1>2, <1>3, <1>7
  <2>2. end \notin auto
    BY <1>3
  <2>3. AutoCount(new) = Cardinality(auto) + 1
    BY <1>5, <2>1, <2>2, FS_AddElement DEF AutoCount
  <2> QED
    BY <1>1, <1>4, <1>6, <1>7, <2>3 DEF new, end
<1>8. CASE row.case \notin AutoCases
  <2>1. { i \in DOMAIN new : new[i].case \in AutoCases } = auto
    BY <1>1, <1>2, <1>3, <1>8
  <2>2. AutoCount(new) = Cardinality(auto)
    BY <2>1 DEF AutoCount
  <2> QED
    BY <1>1, <1>4, <1>6, <1>8, <2>2 DEF new, end
<1> QED
  BY <1>7, <1>8

\* The new place is the only one of its case.
LEMMA AppendIsUnique ==
    ASSUME NEW rows \in Seq(CaseRows), NEW row \in CaseRows, row.case \notin CaseIdsIn(rows), NEW before,
           \A i, j \in DOMAIN rows : i > before /\ rows[i].case = rows[j].case => i = j
    PROVE  \A i, j \in DOMAIN Append(rows, row) :
              i > before /\ Append(rows, row)[i].case = Append(rows, row)[j].case => i = j
<1> DEFINE new == Append(rows, row)
           end == Len(rows) + 1
<1> HIDE DEF CaseRows
<1>1. DOMAIN new = DOMAIN rows \cup {end}
  OBVIOUS
<1>2. \A i \in DOMAIN rows : new[i] = rows[i]
  OBVIOUS
<1>3. new[end] = row
  OBVIOUS
<1>4. \A i \in DOMAIN rows : rows[i].case # row.case
  BY DEF CaseIdsIn
<1> HIDE DEF new, end
<1>5. \A i, j \in DOMAIN new : i > before /\ new[i].case = new[j].case => i = j
  BY <1>1, <1>2, <1>3, <1>4
<1> QED
  BY <1>5 DEF new

LEMMA OneMoreCase ==
    ASSUME NEW before \in Nat, NEW created \in Nat, NEW negative \in Nat
    PROVE  /\ (before + created + negative) + 1 = before + (created + 1) + negative
           /\ (before + created + negative) + 1 = before + created + (negative + 1)
  OBVIOUS

LEMMA PositiveAccount ==
    ASSUME NEW rows \in Seq(CaseRows), NEW s \in Seeding, Account(s, rows), s.auto < s.target,
           NEW kid \in Kids, AutoCase(kid) \notin s.seen, NEW row \in CaseRows, row.case = AutoCase(kid)
    PROVE  Account(Positive(s, kid), Append(rows, row))
<1> DEFINE t == Positive(s, kid)
<1>1. /\ t.seen = s.seen \cup {AutoCase(kid)} /\ t.auto = s.auto + 1 /\ t.created = s.created + 1
      /\ t.after = s.after + 1 /\ t.before = s.before /\ t.negative = s.negative /\ t.target = s.target
  BY DEF Seeding, Positive
<1>2. row.case \in AutoCases /\ row.case \notin CaseIdsIn(rows)
  BY DEF AutoCases, Account
<1>3. /\ Len(Append(rows, row)) = Len(rows) + 1
      /\ CaseIdsIn(Append(rows, row)) = CaseIdsIn(rows) \cup {row.case}
      /\ AutoCount(Append(rows, row)) = AutoCount(rows) + 1
  BY <1>2, AppendCounts
<1>4. \A i, j \in DOMAIN Append(rows, row) :
        i > s.before /\ Append(rows, row)[i].case = Append(rows, row)[j].case => i = j
  <2>1. \A i, j \in DOMAIN rows : i > s.before /\ rows[i].case = rows[j].case => i = j
    BY DEF Account
  <2> QED
    BY <1>2, <2>1, AppendIsUnique
<1>5. /\ s.after \in Nat /\ s.before \in Nat /\ s.created \in Nat /\ s.negative \in Nat
      /\ s.auto \in Nat /\ s.target \in Int
  BY TargetsAssumption DEF Seeding
<1> HIDE DEF t
<1>6. /\ t.after = Len(Append(rows, row)) /\ t.auto = AutoCount(Append(rows, row))
      /\ t.after = t.before + t.created + t.negative
      /\ t.auto <= t.target
  <2>1. t.auto <= t.target
    <3>1. \A auto \in Nat, bound \in Int : auto < bound => auto + 1 <= bound
      OBVIOUS
    <3> QED
      BY <1>1, <1>5, <3>1
  <2>2. /\ s.after = Len(rows) /\ s.auto = AutoCount(rows)
        /\ s.after = s.before + s.created + s.negative
    BY DEF Account
  <2>3. t.after = Len(Append(rows, row)) /\ t.auto = AutoCount(Append(rows, row))
    BY <1>1, <1>3, <2>2, Zenon
  <2>4. t.after = t.before + t.created + t.negative
    <3>1. (s.before + s.created + s.negative) + 1 = s.before + (s.created + 1) + s.negative
      BY <1>5, OneMoreCase
    <3> QED
      BY <1>1, <2>2, <3>1, Zenon
  <2> QED
    BY <2>1, <2>3, <2>4, Zenon
<1>7. t.seen = CaseIdsIn(Append(rows, row))
  BY <1>1, <1>3 DEF Account
<1>8. \A i, j \in DOMAIN Append(rows, row) :
        i > t.before /\ Append(rows, row)[i].case = Append(rows, row)[j].case => i = j
  BY <1>1, <1>4
<1>9. Account(t, Append(rows, row))
  BY <1>6, <1>7, <1>8, Zenon DEF Account
<1> QED
  BY <1>9 DEF t

LEMMA NegativeAccount ==
    ASSUME NEW rows \in Seq(CaseRows), NEW s \in Seeding, Account(s, rows), Exhausted(s),
           NEW c \in NegativeCases \ s.seen, NEW row \in CaseRows, row.case = c
    PROVE  Account(Negative(s, c), Append(rows, row)) /\ Exhausted(Negative(s, c))
<1> DEFINE t == Negative(s, c)
<1>1. /\ t.seen = s.seen \cup {c} /\ t.auto = s.auto /\ t.created = s.created
      /\ t.after = s.after + 1 /\ t.before = s.before /\ t.negative = s.negative + 1 /\ t.target = s.target
      /\ t.todo = s.todo
  BY DEF Seeding, Negative
<1>2. row.case \notin AutoCases /\ row.case \notin CaseIdsIn(rows)
  BY KnowledgeAssumption DEF Account
<1>3. /\ Len(Append(rows, row)) = Len(rows) + 1
      /\ CaseIdsIn(Append(rows, row)) = CaseIdsIn(rows) \cup {row.case}
      /\ AutoCount(Append(rows, row)) = AutoCount(rows)
  BY <1>2, AppendCounts
<1>4. \A i, j \in DOMAIN Append(rows, row) :
        i > s.before /\ Append(rows, row)[i].case = Append(rows, row)[j].case => i = j
  <2>1. \A i, j \in DOMAIN rows : i > s.before /\ rows[i].case = rows[j].case => i = j
    BY DEF Account
  <2> QED
    BY <1>2, <2>1, AppendIsUnique
<1>5. /\ s.after \in Nat /\ s.before \in Nat /\ s.created \in Nat /\ s.negative \in Nat
      /\ s.auto \in Nat /\ s.target \in Int
  BY TargetsAssumption DEF Seeding
<1> HIDE DEF t
<1>6. /\ t.after = Len(Append(rows, row)) /\ t.auto = AutoCount(Append(rows, row))
      /\ t.after = t.before + t.created + t.negative
      /\ t.created > 0 => t.auto <= t.target
  <2>1. /\ s.after = Len(rows) /\ s.auto = AutoCount(rows)
        /\ s.after = s.before + s.created + s.negative
        /\ s.created > 0 => s.auto <= s.target
    BY Zenon DEF Account
  <2>2. t.after = Len(Append(rows, row)) /\ t.auto = AutoCount(Append(rows, row))
    BY <1>1, <1>3, <2>1, Zenon
  <2>3. t.after = t.before + t.created + t.negative
    <3>1. (s.before + s.created + s.negative) + 1 = s.before + s.created + (s.negative + 1)
      BY <1>5, OneMoreCase, SMTT(30)
    <3> QED
      BY <1>1, <2>1, <3>1, Zenon
  <2>4. t.created > 0 => t.auto <= t.target
    BY <1>1, <2>1, Zenon
  <2> QED
    BY <2>2, <2>3, <2>4
<1>7. t.seen = CaseIdsIn(Append(rows, row))
  BY <1>1, <1>3 DEF Account
<1>8. \A i, j \in DOMAIN Append(rows, row) :
        i > t.before /\ Append(rows, row)[i].case = Append(rows, row)[j].case => i = j
  BY <1>1, <1>4
<1>9. Account(t, Append(rows, row))
  BY <1>6, <1>7, <1>8, Zenon DEF Account
<1>10. Exhausted(t)
  BY <1>1 DEF Exhausted, Seedable
<1> QED
  BY <1>9, <1>10 DEF t

LEMMA NoSeedingIsKept ==
    ASSUME NEW rows, NEW where
    PROVE  /\ SeedInv(NoSeeding, rows, where)
           /\ \A s \in Seeding : SeedInv(s, rows, "idle")
<1>1. NoSeeding.alone = FALSE /\ NoSeeding.created = 0 /\ NoSeeding.negative = 0
  BY DEF NoSeeding
<1> QED
  BY <1>1 DEF SeedInv

\* Who is disturbed has no account to keep.
LEMMA DisturbedIsKept ==
    ASSUME NEW s \in Seeding, NEW rows, NEW new, NEW where, SeedInv(s, rows, where)
    PROVE  SeedInv([s EXCEPT !.alone = FALSE], new, where)
<1>1. /\ [s EXCEPT !.alone = FALSE].alone = FALSE
      /\ [s EXCEPT !.alone = FALSE].created = s.created
      /\ [s EXCEPT !.alone = FALSE].negative = s.negative
  BY DEF Seeding
<1> QED
  BY <1>1 DEF SeedInv

\* An insert, as the others and as the one who makes it see it.
LEMMA InsertOutcome ==
    ASSUME SeedingTypes, DOMAIN at = Evaluators, NEW o \in Evaluators, NEW row, NEW counted,
           InsertCase(o, row, counted)
    PROVE  /\ \A p \in Evaluators \ {o} :
                \/ UNCHANGED cases /\ seeding'[p] = seeding[p]
                \/ seeding'[p] = [seeding[p] EXCEPT !.alone = FALSE]
           /\ \A p \in Evaluators \ {o} : at'[p] = at[p]
           /\ DOMAIN at' = Evaluators
           /\ \/ at'[o] = "idle" /\ seeding'[o] = NoSeeding
              \/ at'[o] = at[o] /\ seeding'[o] = counted /\ cases' = Append(cases, row)
  BY DEF InsertCase, Disturbed, Fails, Goto, SeedingTypes

LEMMA SeedsStepOfOthers ==
    ASSUME SeedsInv, SeedingTypes, NEW p \in Evaluators, at'[p] = at[p],
           \/ UNCHANGED cases /\ seeding'[p] = seeding[p]
           \/ seeding'[p] = [seeding[p] EXCEPT !.alone = FALSE]
    PROVE  SeedInv(seeding'[p], cases', at'[p])
<1>1. SeedInv(seeding[p], cases, at[p]) /\ seeding[p] \in Seeding
  BY DEF SeedsInv, SeedingTypes
<1>2. CASE UNCHANGED cases /\ seeding'[p] = seeding[p]
  BY <1>1, <1>2
<1>3. CASE seeding'[p] = [seeding[p] EXCEPT !.alone = FALSE]
  <2>1. SeedInv([seeding[p] EXCEPT !.alone = FALSE], cases', at[p])
    BY <1>1, DisturbedIsKept
  <2> QED
    BY <1>3, <2>1
<1> QED
  BY <1>2, <1>3

LEMMA SeedsStepOfPositive ==
    ASSUME TableInv, SeedingTypes, SeedsInv, NEW o \in Evaluators, SeedPositive(o)
    PROVE  /\ \A p \in Evaluators : SeedInv(seeding'[p], cases', at'[p])
           /\ DOMAIN at' = Evaluators
<1> DEFINE s == seeding[o]
           fresh == { i \in Seedable(s) : AutoCase(s.todo[i].kid) \notin s.seen }
<1>0. at[o] = "positives" /\ SeedInv(s, cases, "positives") /\ s \in Seeding /\ s.todo \in Lists
  BY DEF SeedPositive, SeedsInv, SeedingTypes, Seeding
<1>1. CASE s.auto >= s.target \/ fresh = {}
  <2>1. CASE UNCHANGED <<cases, seeding>> /\ Goto(o, "negatives")
    <3>1. at' = [at EXCEPT ![o] = "negatives"]
      BY <2>1 DEF Goto
    <3>2. Exhausted(s)
      <4>1. CASE s.auto >= s.target
        <5>1. s.auto \in Nat /\ s.target \in Int
          BY <1>0, TargetsAssumption DEF Seeding
        <5> QED
          BY <4>1, <5>1 DEF Exhausted
      <4>2. CASE fresh = {}
        BY <4>2 DEF Exhausted
      <4> QED
        BY <1>1, <4>1, <4>2
    <3>3. SeedInv(s, cases, "negatives")
      BY <1>0, <3>2 DEF SeedInv
    <3> QED
      BY <2>1, <3>1, <3>3, SeedsStepOfOthers DEF SeedsInv
  <2>2. CASE ~(UNCHANGED <<cases, seeding>> /\ Goto(o, "negatives"))
    <3>1. s.auto < s.target /\ fresh # {}
      BY <2>2 DEF SeedPositive
    <3>2. s.auto \in Nat /\ s.target \in Int
      BY <1>0, TargetsAssumption DEF Seeding
    <3> QED
      BY <1>1, <3>1, <3>2
  <2> QED
    BY <2>1, <2>2
<1>2. CASE s.auto < s.target /\ fresh # {} /\ ~(s.auto >= s.target)
  <2>1. PICK i \in fresh :
          InsertCase(o, [case |-> AutoCase(s.todo[i].kid), expected |-> s.todo[i].kid,
                         answer |-> TRUE, active |-> TRUE], Positive(s, s.todo[i].kid))
    BY <1>2, Zenon DEF SeedPositive
  <2> DEFINE kid == s.todo[i].kid
             row == [case |-> AutoCase(kid), expected |-> kid, answer |-> TRUE, active |-> TRUE]
  <2>2. kid \in Kids /\ AutoCase(kid) \notin s.seen
    BY <1>0, ListsHoldKnowledge DEF Seedable
  <2>3. row \in CaseRows /\ row.case = AutoCase(kid)
    BY <2>2, SeedsAreCases
  <2>4. InsertCase(o, row, Positive(s, kid))
    BY <2>1
  <2> HIDE DEF kid, row
  <2>5. s.alone => Account(Positive(s, kid), Append(cases, row))
    <3>1. s.alone => Account(s, cases)
      BY <1>0 DEF SeedInv
    <3> QED
      BY <1>0, <1>2, <2>2, <2>3, <3>1, PositiveAccount, Zenon DEF TableInv
  <2>6. Positive(s, kid).alone = s.alone
    BY <1>0 DEF Seeding, Positive
  <2>7. SeedInv(Positive(s, kid), Append(cases, row), "positives")
    BY <2>5, <2>6 DEF SeedInv
  <2>8. DOMAIN at = Evaluators
    BY DEF SeedsInv
  <2>9. SeedInv(seeding'[o], cases', at'[o])
    <3>1. CASE at'[o] = "idle" /\ seeding'[o] = NoSeeding
      BY <3>1, NoSeedingIsKept
    <3>2. CASE at'[o] = at[o] /\ seeding'[o] = Positive(s, kid) /\ cases' = Append(cases, row)
      BY <1>0, <2>7, <3>2
    <3> QED
      BY <2>4, <2>8, <3>1, <3>2, InsertOutcome
  <2>10. \A p \in Evaluators \ {o} : SeedInv(seeding'[p], cases', at'[p])
    BY <2>4, <2>8, InsertOutcome, SeedsStepOfOthers, ZenonT(40)
  <2> QED
    BY <2>4, <2>8, <2>9, <2>10, InsertOutcome
<1>3. CASE ~(s.auto >= s.target) /\ ~(s.auto < s.target)
  <2>1. s.auto \in Nat /\ s.target \in Int
    BY <1>0, TargetsAssumption DEF Seeding
  <2> QED
    BY <1>3, <2>1
<1> QED
  BY <1>1, <1>2, <1>3

LEMMA SeedsStepOfNegative ==
    ASSUME TableInv, SeedingTypes, SeedsInv, NEW o \in Evaluators, SeedNegative(o)
    PROVE  /\ \A p \in Evaluators : SeedInv(seeding'[p], cases', at'[p])
           /\ DOMAIN at' = Evaluators
<1> DEFINE s == seeding[o]
<1>0. at[o] = "negatives" /\ SeedInv(s, cases, "negatives") /\ s \in Seeding
  BY DEF SeedNegative, SeedsInv, SeedingTypes
<1>1. CASE NegativeCases \subseteq s.seen
  <2>1. at' = [at EXCEPT ![o] = "seeded"] /\ UNCHANGED <<cases, seeding>>
    BY <1>1, Zenon DEF SeedNegative, Goto
  <2>2. SeedInv(s, cases, "seeded")
    BY <1>0, <1>1 DEF SeedInv
  <2> QED
    BY <2>1, <2>2, SeedsStepOfOthers DEF SeedsInv
<1>2. CASE ~(NegativeCases \subseteq s.seen)
  <2>1. PICK c \in NegativeCases \ s.seen :
          InsertCase(o, [case |-> c, expected |-> NoKid, answer |-> FALSE, active |-> TRUE], Negative(s, c))
    BY <1>2, Zenon DEF SeedNegative
  <2> DEFINE row == [case |-> c, expected |-> NoKid, answer |-> FALSE, active |-> TRUE]
  <2>2. row \in CaseRows /\ row.case = c
    BY SeedsAreCases
  <2>3. InsertCase(o, row, Negative(s, c))
    BY <2>1
  <2> HIDE DEF row
  <2>4. s.alone => Account(Negative(s, c), Append(cases, row)) /\ Exhausted(Negative(s, c))
    <3>1. s.alone => Account(s, cases) /\ Exhausted(s)
      BY <1>0 DEF SeedInv
    <3> QED
      BY <1>0, <2>2, <3>1, NegativeAccount, Zenon DEF TableInv
  <2>5. Negative(s, c).alone = s.alone
    BY <1>0 DEF Seeding, Negative
  <2>6. SeedInv(Negative(s, c), Append(cases, row), "negatives")
    BY <2>4, <2>5 DEF SeedInv
  <2>7. DOMAIN at = Evaluators
    BY DEF SeedsInv
  <2>8. SeedInv(seeding'[o], cases', at'[o])
    <3>1. CASE at'[o] = "idle" /\ seeding'[o] = NoSeeding
      BY <3>1, NoSeedingIsKept
    <3>2. CASE at'[o] = at[o] /\ seeding'[o] = Negative(s, c) /\ cases' = Append(cases, row)
      BY <1>0, <2>6, <3>2
    <3> QED
      BY <2>3, <2>7, <3>1, <3>2, InsertOutcome
  <2>9. \A p \in Evaluators \ {o} : SeedInv(seeding'[p], cases', at'[p])
    BY <2>3, <2>7, InsertOutcome, SeedsStepOfOthers, ZenonT(40)
  <2> QED
    BY <2>3, <2>7, <2>8, <2>9, InsertOutcome
<1> QED
  BY <1>1, <1>2

\* Reading the table again opens a new account.
LEMMA ListedAccount ==
    ASSUME TableInv, NEW s \in Seeding, s.created = 0, s.negative = 0,
           NEW t, t = [s EXCEPT !.before = Len(cases), !.after = Len(cases),
                                !.auto = AutoCount(cases), !.seen = CaseIdsIn(cases), !.alone = TRUE]
    PROVE  Account(t, cases) /\ t.auto = AutoCount(cases) /\ t.target = s.target
<1>1. /\ t.after = Len(cases) /\ t.before = Len(cases) /\ t.auto = AutoCount(cases)
      /\ t.seen = CaseIdsIn(cases) /\ t.created = 0 /\ t.negative = 0 /\ t.target = s.target
  BY DEF Seeding
<1>2. DOMAIN cases = 1..Len(cases) /\ Len(cases) \in Nat
  BY DEF TableInv
<1>3. \A i \in DOMAIN cases : ~(i > t.before)
  BY <1>1, <1>2
<1>4. t.after = t.before + t.created + t.negative
  BY <1>1, <1>2
<1> QED
  BY <1>1, <1>3, <1>4 DEF Account

LEMMA SeedsStepOfListing ==
    ASSUME TableInv, SeedingTypes, SeedsInv, NEW o \in Evaluators, ListCases(o) \/ ListKnowledge(o)
    PROVE  /\ \A p \in Evaluators : SeedInv(seeding'[p], cases', at'[p])
           /\ DOMAIN at' = Evaluators
<1> DEFINE s == seeding[o]
           where == at'[o]
           new == seeding'[o]
<1>1. s \in Seeding /\ SeedInv(s, cases, at[o]) /\ UNCHANGED cases
  BY DEF SeedingTypes, SeedsInv, ListCases, ListKnowledge
<1>2. DOMAIN at' = Evaluators /\ \A p \in Evaluators \ {o} : at'[p] = at[p] /\ seeding'[p] = seeding[p]
  BY DEF SeedingTypes, SeedsInv, ListCases, ListKnowledge, Goto, Fails
<1>3. \A p \in Evaluators \ {o} : SeedInv(seeding'[p], cases', at'[p])
  BY <1>1, <1>2, SeedsStepOfOthers
<1>4. SeedInv(new, cases, where)
  <2>1. CASE where = "idle" /\ new = NoSeeding
    BY <2>1, NoSeedingIsKept
  <2>2. CASE ListCases(o) /\ ~(where = "idle" /\ new = NoSeeding)
    <3>1. /\ at[o] = "list_cases"
          /\ where = IF AutoCount(cases) < s.target THEN "list_knowledge" ELSE "negatives"
          /\ new = [s EXCEPT !.before = Len(cases), !.after = Len(cases),
                             !.auto = AutoCount(cases), !.seen = CaseIdsIn(cases), !.alone = TRUE]
      BY <2>2 DEF ListCases, Fails, Goto, SeedsInv, SeedingTypes
    <3>2. s.created = 0 /\ s.negative = 0
      BY <1>1, <3>1 DEF SeedInv
    <3> HIDE DEF new, where, s
    <3>3. Account(new, cases) /\ new.auto = AutoCount(cases) /\ new.target = s.target
      BY <1>1, <3>1, <3>2, ListedAccount
    <3>4. where = "negatives" => Exhausted(new)
      BY <3>1, <3>3 DEF Exhausted
    <3>5. where \in {"list_knowledge", "negatives"}
      BY <3>1
    <3> QED
      BY <3>3, <3>4, <3>5 DEF SeedInv
  <2>3. CASE ListKnowledge(o) /\ ~(where = "idle" /\ new = NoSeeding)
    <3>1. /\ at[o] = "list_knowledge" /\ where = "positives"
          /\ \E list : new = [s EXCEPT !.todo = list]
      BY <2>3 DEF ListKnowledge, Fails, Goto, SeedsInv, SeedingTypes
    <3>2. /\ new.alone = s.alone /\ new.after = s.after /\ new.auto = s.auto /\ new.seen = s.seen
          /\ new.before = s.before /\ new.created = s.created /\ new.negative = s.negative
          /\ new.target = s.target
      BY <1>1, <3>1 DEF Seeding
    <3> HIDE DEF new, where, s
    <3>3. s.alone => Account(s, cases)
      BY <1>1, <3>1 DEF SeedInv
    <3>4. s.alone => Account(new, cases)
      BY <3>2, <3>3 DEF Account
    <3> QED
      BY <3>1, <3>2, <3>4 DEF SeedInv
  <2> QED
    BY <2>1, <2>2, <2>3
<1> QED
  BY <1>1, <1>2, <1>3, <1>4

LEMMA SeedsStep ==
    ASSUME TableInv, SeedingTypes, SeedsInv, [EvalNext]_evalVars
    PROVE  SeedsInv'
<1> SUFFICES (\A p \in Evaluators : SeedInv(seeding'[p], cases', at'[p])) /\ DOMAIN at' = Evaluators
  BY Zenon DEF SeedsInv, SeedInv, Account, Exhausted, Seedable, AutoCount, CaseIdsIn
<1>0. CASE UNCHANGED evalVars
  BY <1>0 DEF evalVars, SeedsInv
<1> SUFFICES ASSUME NEW o \in Evaluators,
                    \/ CreateCase(o) \/ UpdateCase(o)
                    \/ Seed(o) \/ ListCases(o) \/ ListKnowledge(o)
                    \/ SeedPositive(o) \/ SeedNegative(o)
                    \/ Run(o) \/ RunCase(o) \/ SaveRun(o)
                    \/ ListRuns(o) \/ ListRunItems(o)
             PROVE  (\A p \in Evaluators : SeedInv(seeding'[p], cases', at'[p])) /\ DOMAIN at' = Evaluators
  BY <1>0, Zenon DEF EvalNext
<1>1. CASE CreateCase(o) \/ UpdateCase(o)
  <2>1. /\ \A p \in Evaluators : seeding'[p] = [seeding[p] EXCEPT !.alone = FALSE]
        /\ at' = [at EXCEPT ![o] = "idle"]
    BY <1>1, Zenon DEF CreateCase, UpdateCase, Begin, Goto
  <2>2. SeedInv(seeding'[o], cases', "idle")
    <3>1. [seeding[o] EXCEPT !.alone = FALSE] \in Seeding
      BY SeedCounts DEF SeedingTypes
    <3> QED
      BY <2>1, <3>1, NoSeedingIsKept
  <2> QED
    BY <2>1, <2>2, SeedsStepOfOthers DEF SeedsInv
<1>2. CASE Seed(o)
  <2>1. PICK asked :
          seeding' = [seeding EXCEPT ![o] = [NoSeeding EXCEPT !.target = Clamped(asked), !.alone = TRUE]]
    BY <1>2, Zenon DEF Seed
  <2>2. at' = [at EXCEPT ![o] = "list_cases"] /\ UNCHANGED cases
    BY <1>2 DEF Seed, Begin, Goto
  <2> DEFINE new == [NoSeeding EXCEPT !.target = Clamped(asked), !.alone = TRUE]
  <2>3. new.created = 0 /\ new.negative = 0
    BY DEF NoSeeding
  <2> HIDE DEF new
  <2>4. SeedInv(new, cases', "list_cases")
    BY <2>3 DEF SeedInv
  <2>5. seeding'[o] = new /\ at'[o] = "list_cases"
    BY <2>1, <2>2 DEF SeedingTypes, SeedsInv, new
  <2>6. DOMAIN at' = Evaluators /\ \A p \in Evaluators \ {o} : at'[p] = at[p] /\ seeding'[p] = seeding[p]
    BY <2>1, <2>2 DEF SeedingTypes, SeedsInv
  <2>7. \A p \in Evaluators \ {o} : SeedInv(seeding'[p], cases', at'[p])
    BY <2>2, <2>6, SeedsStepOfOthers
  <2> QED
    BY <2>4, <2>5, <2>6, <2>7
<1>3. CASE ListCases(o) \/ ListKnowledge(o)
  BY <1>3, SeedsStepOfListing
<1>4. CASE SeedPositive(o)
  BY <1>4, SeedsStepOfPositive
<1>5. CASE SeedNegative(o)
  BY <1>5, SeedsStepOfNegative
<1>6. CASE Run(o) \/ RunCase(o) \/ SaveRun(o) \/ ListRuns(o) \/ ListRunItems(o)
  <2>1. UNCHANGED cases /\ (UNCHANGED seeding \/ seeding' = [seeding EXCEPT ![o] = NoSeeding])
    BY <1>6, Zenon DEF Run, RunCase, SaveRun, ListRuns, ListRunItems, Forget
  <2>2. \/ UNCHANGED at /\ at[o] = "run_cases"
        \/ \E where \in {"idle", "run_cases", "saved", "list_items", "listed"} : at' = [at EXCEPT ![o] = where]
    BY <1>6, Zenon DEF Run, RunCase, SaveRun, ListRuns, ListRunItems, Begin, Goto, Fails
  <2>3. /\ DOMAIN at' = Evaluators
        /\ at'[o] \notin {"list_cases", "list_knowledge", "positives", "negatives", "seeded"}
        /\ \A p \in Evaluators \ {o} : at'[p] = at[p] /\ seeding'[p] = seeding[p]
    BY <2>1, <2>2 DEF SeedingTypes, SeedsInv
  <2>4. SeedInv(seeding'[o], cases', at'[o])
    BY <2>3 DEF SeedInv
  <2>5. \A p \in Evaluators \ {o} : SeedInv(seeding'[p], cases', at'[p])
    BY <2>1, <2>3, SeedsStepOfOthers
  <2> QED
    BY <2>3, <2>4, <2>5
<1> QED
  BY <1>1, <1>2, <1>3, <1>4, <1>5, <1>6

LEMMA SeedingsAddUp ==
    ASSUME TableInv, SeedingTypes, SeedsInv
    PROVE  SeedReportsTable
<1> SUFFICES ASSUME NEW o \in Evaluators, at[o] = "seeded", seeding[o].alone
             PROVE  LET s == seeding[o]
                        new == { i \in DOMAIN cases : i > s.before }
                    IN  /\ s.after = Len(cases) /\ s.after = s.before + s.created + s.negative
                        /\ NegativeCases \subseteq CaseIdsIn(cases)
                        /\ AutoCount(cases) <= MaxTarget \/ s.created = 0
                        /\ s.created > 0 => AutoCount(cases) <= s.target
                        /\ AutoCount(cases) < s.target =>
                              { AutoCase(s.todo[i].kid) : i \in Seedable(s) } \subseteq CaseIdsIn(cases)
                        /\ \A i \in new, j \in DOMAIN cases : cases[i].case = cases[j].case => i = j
  BY Zenon DEF SeedReportsTable
<1> DEFINE s == seeding[o]
<1>1. Account(s, cases) /\ Exhausted(s) /\ NegativeCases \subseteq s.seen /\ s \in Seeding
  BY DEF SeedsInv, SeedInv, SeedingTypes
<1>2. s.created \in Nat /\ s.target \in Int /\ s.target <= MaxTarget /\ s.auto \in Nat /\ MaxTarget \in Int
  BY <1>1, TargetsAssumption DEF Seeding
<1>3. s.created > 0 => AutoCount(cases) <= s.target
  BY <1>1 DEF Account
<1>4. AutoCount(cases) <= MaxTarget \/ s.created = 0
  BY <1>1, <1>2, <1>3 DEF Account
<1> QED
  BY <1>1, <1>3, <1>4 DEF Account, Exhausted

\* A seeding that nobody disturbed tells the truth about the table, whatever the table held
\* before (SeedRAGEvalCases, rag_eval.go:125-199).
THEOREM SeedingsTellTheTruth == EvalSpec => []SeedReportsTable
<1> DEFINE Inv == TableInv /\ SeedingTypes /\ SeedsInv
<1>1. EvalInit => Inv
  <2> SUFFICES ASSUME EvalInit PROVE Inv
    OBVIOUS
  <2>1. TableInv /\ SeedingTypes
    BY EvalTypesInit
  <2>2. SeedsInv
    BY NoSeedingIsKept DEF EvalInit, SeedsInv
  <2> QED
    BY <2>1, <2>2
<1>2. Inv /\ [EvalNext]_evalVars => Inv'
  BY EvalTypesStep, SeedsStep
<1>3. Inv => SeedReportsTable
  BY SeedingsAddUp
<1> QED
  BY <1>1, <1>2, <1>3, PTL DEF EvalSpec
=============================================================================
