--------------------------- MODULE TeachingPosts ----------------------------
(***************************************************************************)
(* Who teaches where and what in one school of tenant-service              *)
(* (academic.service.ts): the sections of the classes under their display  *)
(* names, the class teacher of each, and the subjects of each teacher.     *)
(*                                                                         *)
(* The middleware of libs/common knows ClassTeacherAssignment and neither  *)
(* ClassSection, whose handlers set and filter softDelete themselves, nor  *)
(* TeacherSubject, which has no such column and is deleted for good.  The  *)
(* unique keys ignore softDelete.                                          *)
(*                                                                         *)
(* Abstracted: a post is a class and a section of it, gone when either is; *)
(* teachers and subjects exist from the start, so the subjects that        *)
(* createTeacher writes are those of an update; subjects are linked in any *)
(* order.                                                                  *)
(***************************************************************************)
EXTENDS Handlers

CONSTANTS
  Posts,        \* a class and a section
  Titles,       \* display names
  Trimmed,      \* dto.name.trim(), for each of them
  Staff,        \* Teacher rows
  Courses       \* Subject rows

ASSUME TrimmedAssumption == Trimmed \in [Titles -> Titles]

VARIABLES
  gone,         \* posts, teachers and subjects that were deleted
  classSection, \* ClassSection rows, per post
  classTeacher, \* ClassTeacherAssignment rows, per post
  teaches       \* TeacherSubject rows

postRows == <<gone, classSection, classTeacher, teaches>>
postVars == <<postRows, req>>

NoRow == [state |-> "absent"]
SectionRow == {NoRow} \cup [state : {"live", "deleted"}, title : Titles]
TeacherRow == {NoRow} \cup [state : {"live", "deleted"}, teacher : Staff]

PostReq ==
  [op : {"section"}, post : Posts, title : Titles]
    \cup [op : {"assign", "reassign"}, post : Posts, teacher : Staff]
    \cup [op : {"replace"}, teacher : Staff, subjects : SUBSET Courses]
    \cup [op : {"link"}, teacher : Staff, subjects : SUBSET Courses,
          todo : SUBSET Courses]

PostsInit ==
  /\ gone = [posts |-> {}, staff |-> {}, courses |-> {}]
  /\ classSection = [p \in Posts |-> NoRow]
  /\ classTeacher = [p \in Posts |-> NoRow]
  /\ teaches = {}
  /\ HandlersInit

LiveAt(table, p) == table[p].state = "live"

\* The posts whose row, a deleted one too, has the title.
Titled(t) ==
  {p \in Posts : classSection[p] # NoRow /\ classSection[p].title = t}

-----------------------------------------------------------------------------
(***************************************************************************)
(* Rows the posts refer to                                                 *)
(***************************************************************************)
\* deleteClass and deleteSection.
ClosePost(r, p) ==
  /\ req[r] = Idle
  /\ gone' = [gone EXCEPT !.posts = @ \cup {p}]
  /\ UNCHANGED <<classSection, classTeacher, teaches, req>>

DeleteTeacher(r, s) ==
  /\ req[r] = Idle
  /\ gone' = [gone EXCEPT !.staff = @ \cup {s}]
  /\ UNCHANGED <<classSection, classTeacher, teaches, req>>

DeleteSubject(r, c) ==
  /\ req[r] = Idle
  /\ gone' = [gone EXCEPT !.courses = @ \cup {c}]
  /\ UNCHANGED <<classSection, classTeacher, teaches, req>>

-----------------------------------------------------------------------------
(***************************************************************************)
(* Sections of classes                                                     *)
(***************************************************************************)
\* The guards look for a live row of the post and of the trimmed name ...
CreateClassSection(r, p, t) ==
  /\ req[r] = Idle
  /\ p \notin gone.posts
  /\ ~LiveAt(classSection, p)
  /\ \A q \in Titled(Trimmed[t]) : ~LiveAt(classSection, q)
  /\ Continue(r, [op |-> "section", post |-> p, title |-> t])
  /\ UNCHANGED postRows

\* ... and the insert stores the name as it was given.
InsertClassSection(r) ==
  /\ req[r].op = "section"
  /\ classSection[req[r].post] = NoRow
  /\ Titled(req[r].title) = {}
  /\ classSection' = [classSection EXCEPT ![req[r].post] =
                        [state |-> "live", title |-> req[r].title]]
  /\ Reply(r)
  /\ UNCHANGED <<gone, classTeacher, teaches>>

UpdateClassSection(r, p, t) ==
  /\ req[r] = Idle
  /\ LiveAt(classSection, p)
  /\ Titled(t) \subseteq {p}
  /\ classSection' = [classSection EXCEPT ![p].title = t]
  /\ UNCHANGED <<gone, classTeacher, teaches, req>>

DeleteClassSection(r, p) ==
  /\ req[r] = Idle
  /\ LiveAt(classSection, p)
  /\ classSection' = [classSection EXCEPT ![p].state = "deleted"]
  /\ UNCHANGED <<gone, classTeacher, teaches, req>>

-----------------------------------------------------------------------------
(***************************************************************************)
(* Class teachers                                                          *)
(***************************************************************************)
AssignClassTeacher(r, p, s) ==
  /\ req[r] = Idle
  /\ p \notin gone.posts /\ s \notin gone.staff
  /\ Continue(r, [op |-> "assign", post |-> p, teacher |-> s])
  /\ UNCHANGED postRows

\* Mutant: what the unique key refuses is taken for an update of the row.
InsertOrRestore(r) ==
  /\ req[r].op = "assign"
  /\ classTeacher' = [classTeacher EXCEPT ![req[r].post] =
                        [state |-> "live", teacher |-> req[r].teacher]]
  /\ Reply(r)
  /\ UNCHANGED <<gone, classSection, teaches>>

InsertClassTeacher(r) ==
  /\ req[r].op = "assign"
  /\ classTeacher[req[r].post] = NoRow
  /\ classTeacher' = [classTeacher EXCEPT ![req[r].post] =
                        [state |-> "live", teacher |-> req[r].teacher]]
  /\ Reply(r)
  /\ UNCHANGED <<gone, classSection, teaches>>

\* Mutant: only a new assignment looks the teacher up.
ReassignUnchecked(r, p, s) ==
  /\ req[r] = Idle
  /\ Continue(r, [op |-> "reassign", post |-> p, teacher |-> s])
  /\ UNCHANGED postRows

\* updateClassTeacherAssignment with a teacherId; without one it changes
\* nothing here.
UpdateClassTeacher(r, p, s) ==
  /\ req[r] = Idle
  /\ s \notin gone.staff
  /\ Continue(r, [op |-> "reassign", post |-> p, teacher |-> s])
  /\ UNCHANGED postRows

WriteClassTeacher(r) ==
  /\ req[r].op = "reassign"
  /\ LiveAt(classTeacher, req[r].post)
  /\ classTeacher' = [classTeacher EXCEPT ![req[r].post].teacher =
                        req[r].teacher]
  /\ Reply(r)
  /\ UNCHANGED <<gone, classSection, teaches>>

DeleteClassTeacher(r, p) ==
  /\ req[r] = Idle
  /\ LiveAt(classTeacher, p)
  /\ classTeacher' = [classTeacher EXCEPT ![p].state = "deleted"]
  /\ UNCHANGED <<gone, classSection, teaches, req>>

-----------------------------------------------------------------------------
(***************************************************************************)
(* Subjects of a teacher                                                   *)
(***************************************************************************)
AssignTeacherSubjects(r, s, subjects) ==
  /\ req[r] = Idle
  /\ s \notin gone.staff
  /\ subjects # {} /\ subjects \cap gone.courses = {}
  /\ Continue(r, [op |-> "link", teacher |-> s, subjects |-> subjects,
                  todo |-> subjects])
  /\ UNCHANGED postRows

\* One turn of the loop: a link that is missing is created, and the last one
\* ends the call.  A link that another call makes between the look-up and
\* the insert is refused, which is PostsAbandon.
LinkSubject(r, c) ==
  /\ req[r].op = "link" /\ c \in req[r].todo
  /\ teaches' = teaches \cup {<<req[r].teacher, c>>}
  /\ IF req[r].todo = {c} THEN Reply(r)
     ELSE Continue(r, [req[r] EXCEPT !.todo = @ \ {c}])
  /\ UNCHANGED <<gone, classSection, classTeacher>>

RemoveTeacherSubject(r, s, c) ==
  /\ req[r] = Idle
  /\ <<s, c>> \in teaches
  /\ teaches' = teaches \ {<<s, c>>}
  /\ UNCHANGED <<gone, classSection, classTeacher, req>>

\* updateTeacher with subjectIds: they are checked before the transaction
\* that checks the teacher and replaces his links.
UpdateTeacher(r, s, subjects) ==
  /\ req[r] = Idle
  /\ subjects \cap gone.courses = {}
  /\ Continue(r, [op |-> "replace", teacher |-> s, subjects |-> subjects])
  /\ UNCHANGED postRows

ReplaceSubjects(r) ==
  /\ req[r].op = "replace"
  /\ req[r].teacher \notin gone.staff
  /\ teaches' = (teaches \ ({req[r].teacher} \X Courses))
                  \cup ({req[r].teacher} \X req[r].subjects)
  /\ Reply(r)
  /\ UNCHANGED <<gone, classSection, classTeacher>>

PostsAbandon(r) == Abandon(r) /\ UNCHANGED postRows

\* Whatever handler r may do next.
PostsHandler(r) ==
  \/ \E p \in Posts : \/ ClosePost(r, p)
                      \/ \E t \in Titles : \/ CreateClassSection(r, p, t)
                                           \/ UpdateClassSection(r, p, t)
                      \/ DeleteClassSection(r, p)
                      \/ \E s \in Staff : \/ AssignClassTeacher(r, p, s)
                                          \/ UpdateClassTeacher(r, p, s)
                      \/ DeleteClassTeacher(r, p)
  \/ \E s \in Staff : \/ DeleteTeacher(r, s)
                      \/ \E c \in Courses : RemoveTeacherSubject(r, s, c)
                      \/ \E subjects \in SUBSET Courses :
                           \/ AssignTeacherSubjects(r, s, subjects)
                           \/ UpdateTeacher(r, s, subjects)
  \/ \E c \in Courses : DeleteSubject(r, c) \/ LinkSubject(r, c)
  \/ InsertClassSection(r) \/ InsertClassTeacher(r) \/ WriteClassTeacher(r)
  \/ ReplaceSubjects(r)
  \/ PostsAbandon(r)

PostsNext == \E r \in Requests : PostsHandler(r)

PostsSpec == PostsInit /\ [][PostsNext]_postVars

-----------------------------------------------------------------------------
PostsTypeOK ==
  /\ gone \in [posts : SUBSET Posts, staff : SUBSET Staff,
               courses : SUBSET Courses]
  /\ classSection \in [Posts -> SectionRow]
  /\ classTeacher \in [Posts -> TeacherRow]
  /\ teaches \subseteq Staff \X Courses
  /\ req \in [Requests -> {Idle} \cup PostReq]

-----------------------------------------------------------------------------
(***************************************************************************)
(* Properties                                                              *)
(***************************************************************************)
\* What handler q has looked up is still there, and the links it has made are.
PostsStand(q) ==
  /\ q.op = "section" => q.post \notin gone.posts
  /\ q.op = "assign" => q.post \notin gone.posts /\ q.teacher \notin gone.staff
  /\ q.op = "reassign" => q.teacher \notin gone.staff
  /\ q.op \in {"replace", "link"} => q.subjects \cap gone.courses = {}
  /\ q.op = "link" => /\ q.teacher \notin gone.staff
                      /\ q.todo \subseteq q.subjects
                      /\ {q.teacher} \X (q.subjects \ q.todo) \subseteq teaches

\* Whatever is named, appointed or linked refers to a class, a section, a
\* teacher and a subject that have not been deleted, and subjects assigned to
\* a teacher are all his when the call ends well, unless the handler was
\* overtaken after its look-ups.  (What is deleted later keeps the rows that
\* refer to it.)
PostsAreFounded ==
  \A r \in Requests :
    \/ ~PostsStand(req[r])
    \/ /\ PostsStand(req[r])'
       /\ \A p \in Posts :
            /\ classSection[p] = NoRow /\ classSection'[p] # NoRow =>
                 p \notin gone.posts
            /\ classTeacher[p] = NoRow /\ classTeacher'[p] # NoRow =>
                 p \notin gone.posts
            /\ LiveAt(classTeacher', p) /\ classTeacher'[p] # classTeacher[p] =>
                 classTeacher'[p].teacher \notin gone.staff
       /\ \A link \in teaches' \ teaches :
            link[1] \notin gone.staff /\ link[2] \notin gone.courses
       /\ \A c \in Courses :
            LinkSubject(r, c) /\ req'[r] = Idle =>
              {req[r].teacher} \X req[r].subjects \subseteq teaches'
    \/ ~PostsHandler(r)

\* The section of a class and a class teacher that were deleted stay so, and
\* keep the place: no post is named or given a teacher a second time.
PostsStayDeleted ==
  [][\A p \in Posts :
       /\ classSection[p].state = "deleted" =>
            classSection'[p] = classSection[p]
       /\ classTeacher[p].state = "deleted" =>
            classTeacher'[p] = classTeacher[p]]_postVars
=============================================================================
