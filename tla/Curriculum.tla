----------------------------- MODULE Curriculum -----------------------------
(***************************************************************************)
(* The contents of a course: modules, their lessons and the order of both  *)
(* (courseContent.service.ts), edited from one page that shows what it     *)
(* loaded last, with the user's drags applied (CourseContentManager.tsx).  *)
(* An item is numbered by its creation; its parent is the course, or a     *)
(* module. Titles and the like are left out.                               *)
(***************************************************************************)
EXTENDS Integers, Sequences, FiniteSets, SequencesExt

CONSTANTS Requests,      \* requests the page can have under way
          LastItem,      \* bound: modules and lessons ever created
          LastDraft,     \* bound: new items begun
          LastOrder,     \* bound: places
          Hasty          \* the user acts while a request is under way, and on a page
                         \* that failed to learn of one

VARIABLES
    rows,      \* the tables of modules and lessons
    shown,     \* the page: children of the course and of the modules, as loaded
    edit,      \* the dialog of an item
    creating,  \* creatingLessonRef: the request that creates a lesson for an upload
    job,       \* requests under way
    drafts,    \* new items begun (history)
    made,      \* lessons created of each of them (history)
    unsure     \* the page failed to learn of something that was done (history)

vars == <<rows, shown, edit, creating, job, drafts, made, unsure>>

Course == 0
Gone == -1
Nobody == "nobody"
Parents == Course..LastItem

NoJob == [op |-> "none", at |-> "idle", id |-> 0, parent |-> Course, order |-> 0,
          ids |-> <<>>, owned |-> {}, last |-> 0, seen |-> <<>>, ok |-> TRUE, draft |-> 0]
Closed == [open |-> FALSE, id |-> 0, parent |-> Course, order |-> 0, draft |-> 0]

Children(rs, p) == {i \in DOMAIN rs : rs[i].parent = p}

\* The children by sortOrder; in which order the database has what is equal is open.
Listed(rs, p) ==
    {ids \in Bijection(1..Cardinality(Children(rs, p)), Children(rs, p)) :
        \A k, l \in DOMAIN ids : k < l => rs[ids[k]].order <= rs[ids[l]].order}

\* What the page may be given. Of a lesson the sortOrder is shown as well, but nothing
\* depends on it.
Loaded(rs) ==
    LET full == {p \in Parents : Children(rs, p) # {}}
        lists == [p \in full |-> Listed(rs, p)]
        Shown(p, ids) == [k \in DOMAIN ids |-> [id |-> ids[k],
                                               order |-> IF p = Course THEN rs[ids[k]].order ELSE 0]]
    IN  {[p \in Parents |-> IF p \in full THEN Shown(p, ls[p]) ELSE <<>>] :
            ls \in {f \in [full -> UNION Range(lists)] : \A p \in full : f[p] \in lists[p]}}

\* Two modules, and a lesson in the first.
Init ==
    /\ rows = <<[parent |-> Course, order |-> 0], [parent |-> Course, order |-> 1],
                [parent |-> 1, order |-> 0]>>
    /\ shown \in Loaded(rows)
    /\ edit = Closed
    /\ creating = Nobody
    /\ job = [h \in Requests |-> NoJob]
    /\ drafts = 0
    /\ made = [d \in 1..LastDraft |-> 0]
    /\ unsure = FALSE

Load == [NoJob EXCEPT !.op = "load", !.at = "read"]

AtRest == \A h \in Requests : job[h] = NoJob

MayAct == Hasty \/ (AtRest /\ ~unsure)

Start(h, j) ==
    /\ job[h] = NoJob
    /\ MayAct \/ (AtRest /\ j = Load)
    /\ job' = [job EXCEPT ![h] = j]

-----------------------------------------------------------------------------
(* The page *)

\* The dialog of an item that is shown.
Open(p, k) ==
    /\ ~edit.open /\ MayAct
    /\ k \in DOMAIN shown[p]
    /\ edit' = [open |-> TRUE, id |-> shown[p][k].id, parent |-> p,
                order |-> shown[p][k].order, draft |-> 0]
    /\ UNCHANGED <<rows, shown, creating, job, drafts, made, unsure>>

\* The dialog of a new module, or of a new lesson of a module that is shown.
OpenNew(p) ==
    /\ ~edit.open /\ MayAct
    /\ p = Course \/ \E k \in DOMAIN shown[Course] : shown[Course][k].id = p
    /\ drafts < LastDraft
    /\ drafts' = drafts + 1
    /\ edit' = [open |-> TRUE, id |-> 0, parent |-> p, order |-> 0, draft |-> drafts + 1]
    /\ UNCHANGED <<rows, shown, creating, job, made, unsure>>

Cancel ==
    /\ edit.open
    /\ edit' = Closed
    /\ UNCHANGED <<rows, shown, creating, job, drafts, made, unsure>>

\* "Mover para módulo".
Move(p) ==
    /\ edit.open /\ edit.id # 0 /\ edit.parent # Course
    /\ p # edit.parent
    /\ \E k \in DOMAIN shown[Course] : shown[Course][k].id = p
    /\ edit' = [edit EXCEPT !.parent = p]
    /\ UNCHANGED <<rows, shown, creating, job, drafts, made, unsure>>

Creation == [NoJob EXCEPT !.op = "create", !.at = "read", !.parent = edit.parent,
                          !.draft = edit.draft]

\* saveModule, saveLesson: all that the dialog holds is sent.
Save(h) ==
    /\ edit.open
    /\ Start(h, IF edit.id = 0 THEN Creation
                ELSE [NoJob EXCEPT !.op = "update", !.id = edit.id, !.parent = edit.parent,
                                   !.order = edit.order,
                                   !.at = IF edit.parent = Course THEN "write" ELSE "read"])
    /\ UNCHANGED <<rows, shown, edit, creating, drafts, made, unsure>>

\* ensureLessonSaved: an upload creates the lesson it is for, unless that is under way.
Upload(h) ==
    /\ edit.open /\ edit.id = 0 /\ edit.parent # Course
    /\ creating = Nobody
    /\ Start(h, Creation)
    /\ creating' = h
    /\ UNCHANGED <<rows, shown, edit, drafts, made, unsure>>

Delete(h, p, k) ==
    /\ ~edit.open
    /\ k \in DOMAIN shown[p]
    /\ Start(h, [NoJob EXCEPT !.op = "delete", !.at = "write", !.id = shown[p][k].id,
                              !.parent = p])
    /\ UNCHANGED <<rows, shown, edit, creating, drafts, made, unsure>>

\* dropModule, dropLesson: shown at once, then sent.
Drag(h, p, from, to) ==
    /\ ~edit.open
    /\ {from, to} \subseteq DOMAIN shown[p] /\ from # to
    /\ LET moved == InsertAt(RemoveAt(shown[p], from), to, shown[p][from])
       IN  /\ shown' = [shown EXCEPT ![p] = moved]
           /\ Start(h, [NoJob EXCEPT !.op = "reorder", !.at = "read", !.parent = p,
                                     !.ids = [k \in DOMAIN moved |-> moved[k].id]])
    /\ UNCHANGED <<rows, edit, creating, drafts, made, unsure>>

\* The page is opened again.
Refresh(h) ==
    /\ Start(h, Load)
    /\ edit' = Closed
    /\ UNCHANGED <<rows, shown, creating, drafts, made, unsure>>

-----------------------------------------------------------------------------
(* The service *)

GoOn(h, j) == job' = [job EXCEPT ![h] = j]
Answer(h, ok) == GoOn(h, [job[h] EXCEPT !.at = "answer", !.ok = ok])

Exists(p) == p = Course \/ (p \in DOMAIN rows /\ rows[p].parent = Course)

\* Behind one that no other comes after.
Behind(p) ==
    {rows[i].order + 1 :
        i \in {c \in Children(rows, p) : \A d \in Children(rows, p) : rows[d].order <= rows[c].order}}

Places(p) == IF Children(rows, p) = {} THEN {0} ELSE Behind(p)

\* Mutant: a new item is placed by the number of those there are.
ReadByCount(h) ==
    /\ job[h].at = "read" /\ job[h].op \in {"create", "update"}
    /\ IF Exists(job[h].parent)
       THEN GoOn(h, [job[h] EXCEPT !.at = "write",
                                   !.last = Cardinality(Children(rows, job[h].parent))])
       ELSE Answer(h, FALSE)
    /\ UNCHANGED <<rows, shown, edit, creating, drafts, made, unsure>>

\* createModule, createLesson, updateLesson: the place behind the last one.
ReadLast(h) ==
    /\ job[h].at = "read" /\ job[h].op \in {"create", "update"}
    /\ IF Exists(job[h].parent)
       THEN \E place \in Places(job[h].parent) \cap (0..LastOrder) :
                GoOn(h, [job[h] EXCEPT !.at = "write", !.last = place])
       ELSE Answer(h, FALSE)
    /\ UNCHANGED <<rows, shown, edit, creating, drafts, made, unsure>>

Create(h) ==
    /\ job[h].at = "write" /\ job[h].op = "create"
    /\ Len(rows) < LastItem
    /\ IF Exists(job[h].parent)
       THEN /\ rows' = Append(rows, [parent |-> job[h].parent, order |-> job[h].last])
            /\ made' = [made EXCEPT ![job[h].draft] = IF job[h].parent = Course THEN @ ELSE @ + 1]
            /\ GoOn(h, [job[h] EXCEPT !.at = "answer", !.id = Len(rows) + 1])
       ELSE /\ Answer(h, FALSE)
            /\ UNCHANGED <<rows, made>>
    /\ UNCHANGED <<shown, edit, creating, drafts, unsure>>

\* updateModule takes the sortOrder sent; updateLesson, told a module, puts the
\* lesson at its end.
Update(h) ==
    /\ job[h].at = "write" /\ job[h].op = "update"
    /\ LET there == rows[job[h].id].parent # Gone /\ Exists(job[h].parent)
       IN  /\ rows' = IF ~there THEN rows
                      ELSE [rows EXCEPT ![job[h].id] =
                              [parent |-> job[h].parent,
                               order |-> IF job[h].parent = Course THEN job[h].order
                                         ELSE job[h].last]]
           /\ Answer(h, there)
    /\ UNCHANGED <<shown, edit, creating, drafts, made, unsure>>

\* deleteModule takes its lessons along.
Erase(h) ==
    /\ job[h].at = "write" /\ job[h].op = "delete"
    /\ rows' = [i \in DOMAIN rows |->
                  IF job[h].id \in {i, rows[i].parent} THEN [rows[i] EXCEPT !.parent = Gone]
                  ELSE rows[i]]
    /\ Answer(h, rows[job[h].id].parent # Gone)
    /\ UNCHANGED <<shown, edit, creating, drafts, made, unsure>>

\* reorderModules, reorderLessons: ids of other parents are left out.
ReadOwned(h) ==
    /\ job[h].at = "read" /\ job[h].op = "reorder"
    /\ GoOn(h, [job[h] EXCEPT !.at = "write",
                                !.owned = Children(rows, job[h].parent)])
    /\ UNCHANGED <<rows, shown, edit, creating, drafts, made, unsure>>

\* One transaction, which fails when an item is gone. The places are those among the
\* ids that were kept.
Reorder(h) ==
    /\ job[h].at = "write" /\ job[h].op = "reorder"
    /\ LET ids == job[h].ids
           clean == {k \in DOMAIN ids : ids[k] \in job[h].owned}
           whole == \A k \in clean : rows[ids[k]].parent # Gone
           At(i) == {k \in clean : ids[k] = i}
           Place(i) == Cardinality({l \in clean : \A k \in At(i) : l < k})
       IN  /\ rows' = IF ~whole THEN rows
                      ELSE [i \in DOMAIN rows |->
                              IF At(i) # {} THEN [rows[i] EXCEPT !.order = Place(i)] ELSE rows[i]]
           /\ Answer(h, whole)
    /\ UNCHANGED <<shown, edit, creating, drafts, made, unsure>>

\* getCourseForEditor.
Look(h) ==
    /\ job[h].at = "read" /\ job[h].op = "load"
    /\ \E seen \in Loaded(rows) : GoOn(h, [job[h] EXCEPT !.at = "answer", !.seen = seen])
    /\ UNCHANGED <<rows, shown, edit, creating, drafts, made, unsure>>

-----------------------------------------------------------------------------
(* Answers *)

\* The dialog closes, except for an upload, which names the lesson in the dialog.
Dialog(h) ==
    IF creating = h /\ edit.open THEN [edit EXCEPT !.id = job[h].id]
    ELSE IF job[h].op \in {"create", "update"} /\ (edit.parent = Course) = (job[h].parent = Course)
    THEN Closed
    ELSE edit

\* What is saved is loaded again; an order is not.
Told(h) ==
    /\ job[h].at = "answer" /\ job[h].ok /\ job[h].op # "load"
    /\ edit' = Dialog(h)
    /\ creating' = IF creating = h THEN Nobody ELSE creating
    /\ GoOn(h, IF job[h].op = "reorder" THEN NoJob ELSE Load)
    /\ UNCHANGED <<rows, shown, drafts, made, unsure>>

Show(h) ==
    /\ job[h].at = "answer" /\ job[h].op = "load"
    /\ shown' = job[h].seen
    /\ unsure' = FALSE
    /\ GoOn(h, NoJob)
    /\ UNCHANGED <<rows, edit, creating, drafts, made>>

Done(h) == job[h].at = "answer" /\ job[h].ok /\ job[h].op # "load"

\* Refused, or lost with or without its effect.
Failed(h, next) ==
    /\ job[h] # NoJob
    /\ GoOn(h, next)
    /\ creating' = IF creating = h THEN Nobody ELSE creating
    /\ unsure' = (unsure \/ job[h].op = "load" \/ Done(h))
    /\ UNCHANGED <<rows, shown, edit, drafts, made>>

\* An order that could not be saved is taken back by loading.
Fail(h) == Failed(h, IF job[h].op = "reorder" THEN Load ELSE NoJob)

Next ==
    \/ Cancel
    \/ \E p \in Parents :
          \/ OpenNew(p) \/ Move(p)
          \/ \E k \in 1..LastItem : Open(p, k)
    \/ \E h \in Requests :
          \/ Save(h) \/ Upload(h) \/ Refresh(h)
          \/ \E p \in Parents, k \in 1..LastItem : Delete(h, p, k)
          \/ \E p \in Parents, from, to \in 1..LastItem : Drag(h, p, from, to)
          \/ ReadLast(h) \/ Create(h) \/ Update(h) \/ Erase(h)
          \/ ReadOwned(h) \/ Reorder(h) \/ Look(h)
          \/ Told(h) \/ Show(h) \/ Fail(h)

Spec == Init /\ [][Next]_vars

-----------------------------------------------------------------------------
(* Properties *)

\* The tables, the page and the requests are what they can be.
TypeOK ==
    /\ Len(rows) <= LastItem
    /\ \A i \in DOMAIN rows : rows[i] \in [parent : Gone..LastItem, order : Nat]
    /\ DOMAIN shown = Parents
    /\ \A p \in Parents : \A k \in DOMAIN shown[p] : shown[p][k].id \in DOMAIN rows
    /\ edit.id \in 0..Len(rows) /\ edit.parent \in Parents
    /\ creating \in Requests \cup {Nobody}
    /\ \A h \in Requests : job[h].at \in {"idle", "read", "write", "answer"}

\* Whatever failed on the way: once all is answered, the page shows what is saved, in
\* the order in which it is saved, unless it was not told of something.
ShownIsSaved ==
    AtRest /\ ~unsure =>
        \A p \in {Course} \cup {i \in DOMAIN rows : rows[i].parent = Course} :
            /\ {shown[p][k].id : k \in DOMAIN shown[p]} = {i \in DOMAIN rows : rows[i].parent = p}
            /\ \A k, l \in DOMAIN shown[p] :
                  k < l => rows[shown[p][k].id].order <= rows[shown[p][l].id].order

\* No two lessons of a module have the same place, through creations, moves,
\* deletions and drags, some of which fail.
PlacesDiffer ==
    \A i, j \in DOMAIN rows :
        i # j /\ rows[i].parent = rows[j].parent /\ rows[i].parent \notin {Course, Gone}
            => rows[i].order # rows[j].order

\* The page shows the order that is saved, and it is one.
OrderIsSaved == ShownIsSaved /\ PlacesDiffer

\* "dois uploads/salvar em paralelo não podem criar duas aulas"
\* (CourseContentManager.tsx, lines 182-183).
OneLessonEach == \A d \in 1..LastDraft : made[d] <= 1

\* The order is what was dragged ("drag para reordenar", CourseContentManager.tsx, lines
\* 3-5): saving an item that stays in its module does not move it.
OnlyDragsReorder ==
    [][\A i, j \in DOMAIN rows :
          /\ rows[i].parent = rows[j].parent /\ rows[i].order < rows[j].order
          /\ rows'[i].parent = rows[i].parent /\ rows'[j].parent = rows[j].parent
          => \/ rows'[i].order < rows'[j].order
             \/ \E h \in Requests : job[h].op = "reorder" /\ job[h].at = "write"
                                    /\ job'[h].at = "answer"]_vars
=============================================================================
