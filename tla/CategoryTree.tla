---------------------------- MODULE CategoryTree ----------------------------
(***************************************************************************)
(* The category tree of the back office (internal/chat/mysql_store.go): at *)
(* most three levels, each row with its level and the path of ids from the *)
(* root.  A category is created in one transaction of several statements;  *)
(* it is deleted by two statements without a transaction.                  *)
(*                                                                         *)
(* A step is one statement that reads or shows something of the table to   *)
(* others.  Whether parent_id is a foreign key is not known - the schema   *)
(* is not part of the repository - so both are allowed for.                *)
(***************************************************************************)
EXTENDS Integers, Sequences, FiniteSets

CONSTANTS
    Operators,       \* requests of the back office that change the tree
    Orders,          \* values of sort_order
    Base,            \* 10: the base in which a path spells its ids
    MaxCategories    \* bound on the rows ever inserted

ASSUME CategoryAssumption == MaxCategories \in Nat /\ Base \in Nat \ {0, 1}

VARIABLES
    categories,  \* cs_category
    nextId,      \* its AUTO_INCREMENT, which a rolled back insert consumes too
    foreignKey,  \* parent_id REFERENCES cs_category: an insert shares, a delete owns the parent
    doing,       \* per operator: the statement it is about to make
    target       \* per operator: what it knows of the category it creates or deletes

treeVars == <<categories, nextId, foreignKey, doing, target>>

\* parent 0 is NULL in the table.
Category == [id : Nat \ {0}, parent : Nat, level : Nat, path : Seq(Nat), order : Orders]

Nothing == [id |-> 0, parent |-> 0, level |-> 0, path |-> <<>>]

Exists(id) == \E c \in categories : c.id = id

Children(id) == { c \in categories : c.parent = id }

\* Inserts that are not committed yet and hold the lock of the foreign key on this row.
Inserting(id) == { o \in Operators : doing[o] = "commit" /\ target[o].parent = id }

Finished(o) ==
    /\ doing' = [doing EXCEPT ![o] = "nothing"]
    /\ target' = [target EXCEPT ![o] = Nothing]

-----------------------------------------------------------------------------
(* CreateCategory *)

\* Mutant: the level is compared before it is incremented.
GetParent_LevelOffByOne(o) ==
    /\ doing[o] = "nothing"
    /\ \E p \in categories :
        /\ p.level <= 3
        /\ target' = [target EXCEPT ![o] =
                        [id |-> 0, parent |-> p.id, level |-> p.level + 1, path |-> p.path]]
    /\ doing' = [doing EXCEPT ![o] = "insert"]
    /\ UNCHANGED <<categories, nextId, foreignKey>>

\* SELECT level, path of the parent; without it, or with one of the third level, nothing happens.
GetParent(o) ==
    /\ doing[o] = "nothing"
    /\ \E p \in categories :
        /\ p.level + 1 <= 3
        /\ target' = [target EXCEPT ![o] =
                        [id |-> 0, parent |-> p.id, level |-> p.level + 1, path |-> p.path]]
    /\ doing' = [doing EXCEPT ![o] = "insert"]
    /\ UNCHANGED <<categories, nextId, foreignKey>>

\* A category without a parent needs no SELECT.
NoParent(o) ==
    /\ doing[o] = "nothing"
    /\ target' = [target EXCEPT ![o] = [id |-> 0, parent |-> 0, level |-> 1, path |-> <<>>]]
    /\ doing' = [doing EXCEPT ![o] = "insert"]
    /\ UNCHANGED <<categories, nextId, foreignKey>>

\* INSERT, which draws the id and, with a foreign key, finds and locks the parent; then the
\* UPDATE of the path.  Nobody sees the row before the commit.
Insert(o) ==
    /\ doing[o] = "insert"
    /\ nextId <= MaxCategories
    /\ nextId' = nextId + 1
    /\ \/ /\ foreignKey /\ target[o].parent # 0 => Exists(target[o].parent)
          /\ target' = [target EXCEPT ![o] =
                        [id |-> nextId, parent |-> @.parent, level |-> @.level,
                         path |-> Append(@.path, nextId)]]
          /\ doing' = [doing EXCEPT ![o] = "commit"]
       \/ Finished(o)
    /\ UNCHANGED <<categories, foreignKey>>

\* The transaction commits, whether or not the operator hears of it, or is rolled back.
Commit(o) ==
    /\ doing[o] = "commit"
    /\ \/ \E order \in Orders :
            categories' = categories \cup
                { [id |-> target[o].id, parent |-> target[o].parent, level |-> target[o].level,
                   path |-> target[o].path, order |-> order] }
       \/ UNCHANGED categories
    /\ Finished(o)
    /\ UNCHANGED <<nextId, foreignKey>>

-----------------------------------------------------------------------------
(* UpdateCategory and DeleteCategory *)

\* UPDATE of name and sort_order; the row that is read back goes to the operator only.
UpdateCategory ==
    /\ \E c \in categories, order \in Orders :
        categories' = (categories \ {c}) \cup { [c EXCEPT !.order = order] }
    /\ UNCHANGED <<nextId, foreignKey, doing, target>>

\* SELECT COUNT of the children: with any, nothing happens.
CountChildren(o) ==
    /\ doing[o] = "nothing"
    /\ \E c \in categories :
        /\ Children(c.id) = {}
        /\ target' = [target EXCEPT ![o] = [Nothing EXCEPT !.id = c.id]]
    /\ doing' = [doing EXCEPT ![o] = "delete"]
    /\ UNCHANGED <<categories, nextId, foreignKey>>

\* DELETE; a foreign key makes it wait for the inserts that share the row and refuses it when
\* they have been committed.
Delete(o) ==
    /\ doing[o] = "delete"
    /\ foreignKey => Inserting(target[o].id) = {}
    /\ \/ /\ foreignKey => Children(target[o].id) = {}
          /\ categories' = { c \in categories : c.id # target[o].id }
       \/ UNCHANGED categories
    /\ Finished(o)
    /\ UNCHANGED <<nextId, foreignKey>>

TreeInit ==
    /\ categories = {}
    /\ nextId = 1
    /\ foreignKey \in BOOLEAN
    /\ doing = [o \in Operators |-> "nothing"]
    /\ target = [o \in Operators |-> Nothing]

TreeNext ==
    \/ \E o \in Operators :
         GetParent(o) \/ NoParent(o) \/ Insert(o) \/ Commit(o) \/ CountChildren(o) \/ Delete(o)
    \/ UpdateCategory

TreeSpec == TreeInit /\ [][TreeNext]_treeVars

-----------------------------------------------------------------------------
(* ListCategories *)

\* An id in decimal, or whatever the base is; a digit d is the character d + 1.
Digits[n \in Nat] ==
    IF n < Base THEN <<n + 1>> ELSE Append(Digits[n \div Base], (n % Base) + 1)

\* Mutant: the ids of a path are spelled one after the other.
Spelled_NoSlash(path) ==
    LET Upto[k \in 0..Len(path)] == IF k = 0 THEN <<>> ELSE Upto[k - 1] \o Digits[path[k]]
    IN  Upto[Len(path)]

\* "/1/12": a slash, which sorts before the digits (0 here), before every id.
Spelled(path) ==
    LET Upto[k \in 0..Len(path)] == IF k = 0 THEN <<>> ELSE Upto[k - 1] \o <<0>> \o Digits[path[k]]
    IN  Upto[Len(path)]

\* Strings in the order of their characters.
Precedes(s, t) ==
    \/ Len(s) < Len(t) /\ SubSeq(t, 1, Len(s)) = s
    \/ \E k \in 1 .. (IF Len(s) < Len(t) THEN Len(s) ELSE Len(t)) :
         SubSeq(s, 1, k - 1) = SubSeq(t, 1, k - 1) /\ s[k] < t[k]

\* ORDER BY path, sort_order, id
ListedBefore(c, d) ==
    \/ Precedes(Spelled(c.path), Spelled(d.path))
    \/ /\ Spelled(c.path) = Spelled(d.path)
       /\ c.order < d.order \/ (c.order = d.order /\ c.id < d.id)

-----------------------------------------------------------------------------
(* Properties. *)

IsSound(c) ==
    /\ c.level = Len(c.path) /\ c.level \in 1..3
    /\ c.path[c.level] = c.id
    /\ IF c.level = 1 THEN c.parent = 0 ELSE c.path[c.level - 1] = c.parent

\* Whatever is created, renamed and deleted at the same time: every row's level is the length
\* of its path, no more than three, its path is its parent's with its own id behind, ids are
\* never used twice; and with a foreign key no parent is missing, although the count of the
\* children and the DELETE are separate statements (mysql_store.go:577-678).
TreeIsSound ==
    \A c \in categories :
        /\ IsSound(c)
        /\ \A d \in categories :
             /\ d.id = c.id => d = c
             /\ d.id = c.parent => c.path = Append(d.path, c.id)
        /\ foreignKey /\ c.parent # 0 => Exists(c.parent)

InSubtree(d, c) == Len(c.path) <= Len(d.path) /\ SubSeq(d.path, 1, Len(c.path)) = c.path

\* The list is the tree from top to bottom: a category stands before the categories below it
\* and nothing else stands between them, also where the ids have different numbers of digits
\* (ORDER BY on a path that is a string, mysql_store.go:548).
ListingIsPreorder ==
    \A c, d \in categories : InSubtree(d, c) /\ c # d =>
        /\ ListedBefore(c, d)
        /\ \A e \in categories : ListedBefore(c, e) /\ ListedBefore(e, d) => InSubtree(e, c)
=============================================================================
