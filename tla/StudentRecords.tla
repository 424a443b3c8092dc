--------------------------- MODULE StudentRecords ---------------------------
(***************************************************************************)
(* Students, parents, the mappings between them and the enrolment of each  *)
(* student for one academic year (academic.service.ts of tenant-service).  *)
(* A handler validates the rows it refers to and then writes in one        *)
(* transaction.  deleteMany sets softDelete through the middleware of      *)
(* libs/common, and the unique keys on (parent, student) and on (student,  *)
(* year) ignore softDelete.                                                *)
(*                                                                         *)
(* Abstracted: profiles; the class and section of an enrolment, so that    *)
(* updateEnrollment, which edits a roll number, changes nothing; several   *)
(* look-ups of one validation are one step.                                *)
(***************************************************************************)
EXTENDS Handlers

CONSTANTS Parents, Students

VARIABLES
  parent,       \* Parent rows
  student,      \* Student rows
  mapping,      \* ParentStudentMapping rows, per parent and student
  enrolment     \* StudentEnrollment rows, per student

people == <<parent, student>>
links == <<mapping, enrolment>>
recordsVars == <<people, links, req>>

Pairs == Parents \X Students

\* A validated request: the pairs it maps, whether they replace those of the
\* student or parent it edits, and whether it enrols.
WriteReq ==
  [op : {"createStudent", "updateStudent"}, student : Students,
   pairs : SUBSET Pairs, replace : BOOLEAN, enrol : BOOLEAN]
    \cup [op : {"createParent", "updateParent"}, parent : Parents,
          pairs : SUBSET Pairs, replace : BOOLEAN]
    \cup [op : {"map"}, pairs : SUBSET Pairs]
    \cup [op : {"enrol"}, student : Students]

RecordsRequest == {Idle} \cup WriteReq

RecordsInit ==
  /\ parent = [p \in Parents |-> "absent"]
  /\ student = [s \in Students |-> "absent"]
  /\ mapping = [pair \in Pairs |-> "absent"]
  /\ enrolment = [s \in Students |-> "absent"]
  /\ HandlersInit

LiveRow(table, k) == table[k] = "live"

ParentsLive(pairs) == \A pair \in pairs : LiveRow(parent, pair[1])
StudentsLive(pairs) == \A pair \in pairs : LiveRow(student, pair[2])

OfStudent(s) == {pair \in Pairs : pair[2] = s}
OfParent(p) == {pair \in Pairs : pair[1] = p}

(***************************************************************************)
(* deleteMany of the pairs in old, then the insert of new: the unique key  *)
(* refuses a pair that was ever mapped, and the transaction rolls back.    *)
(***************************************************************************)
Remapped(old, new) ==
  [pair \in Pairs |->
     CASE pair \in new -> "live"
       [] pair \in old \ new /\ LiveRow(mapping, pair) -> "deleted"
       [] OTHER -> mapping[pair]]

NeverMapped(pairs) == \A pair \in pairs : mapping[pair] = "absent"

\* create and upsert: the upsert finds a deleted row and leaves softDelete.
EnrolledNow(s) ==
  [enrolment EXCEPT ![s] = IF @ = "absent" THEN "live" ELSE @]

-----------------------------------------------------------------------------
(***************************************************************************)
(* Validation                                                              *)
(***************************************************************************)
\* createStudent: the parent it names, if any, must be live.
CreateStudent(r, s, pairs, enrol) ==
  /\ req[r] = Idle
  /\ student[s] = "absent"
  /\ ParentsLive(pairs)
  /\ Continue(r, [op |-> "createStudent", student |-> s, pairs |-> pairs,
                  replace |-> FALSE, enrol |-> enrol])
  /\ UNCHANGED <<people, links>>

\* Mutant: the parent is not validated.
UpdateUnchecked(r, s, pairs, replace, enrol) ==
  /\ req[r] = Idle
  /\ Continue(r, [op |-> "updateStudent", student |-> s, pairs |-> pairs,
                  replace |-> replace, enrol |-> enrol])
  /\ UNCHANGED <<people, links>>

\* updateStudent: parentId undefined, null or a live parent.
UpdateStudent(r, s, pairs, replace, enrol) ==
  /\ req[r] = Idle
  /\ ParentsLive(pairs)
  /\ Continue(r, [op |-> "updateStudent", student |-> s, pairs |-> pairs,
                  replace |-> replace, enrol |-> enrol])
  /\ UNCHANGED <<people, links>>

CreateParent(r, p, pairs) ==
  /\ req[r] = Idle
  /\ parent[p] = "absent"
  /\ StudentsLive(pairs)
  /\ Continue(r, [op |-> "createParent", parent |-> p, pairs |-> pairs,
                  replace |-> FALSE])
  /\ UNCHANGED <<people, links>>

\* updateParent: studentIds undefined, or the students to map.
UpdateParent(r, p, pairs, replace) ==
  /\ req[r] = Idle
  /\ StudentsLive(pairs)
  /\ Continue(r, [op |-> "updateParent", parent |-> p, pairs |-> pairs,
                  replace |-> replace])
  /\ UNCHANGED <<people, links>>

CreateParentStudentMapping(r, pair) ==
  /\ req[r] = Idle
  /\ ParentsLive({pair}) /\ StudentsLive({pair})
  /\ Continue(r, [op |-> "map", pairs |-> {pair}])
  /\ UNCHANGED <<people, links>>

EnrollStudent(r, s) ==
  /\ req[r] = Idle
  /\ LiveRow(student, s)
  /\ Continue(r, [op |-> "enrol", student |-> s])
  /\ UNCHANGED <<people, links>>

-----------------------------------------------------------------------------
(***************************************************************************)
(* Writes, each one transaction; one that fails ends in RecordsAbandon.    *)
(***************************************************************************)
WriteNewStudent(r) ==
  /\ req[r].op = "createStudent"
  /\ student[req[r].student] = "absent"
  /\ student' = [student EXCEPT ![req[r].student] = "live"]
  /\ mapping' = Remapped({}, req[r].pairs)
  /\ enrolment' = IF req[r].enrol THEN EnrolledNow(req[r].student)
                                  ELSE enrolment
  /\ Reply(r)
  /\ UNCHANGED parent

WriteStudent(r) ==
  /\ req[r].op = "updateStudent"
  /\ LiveRow(student, req[r].student)
  /\ NeverMapped(req[r].pairs)
  /\ mapping' = Remapped(IF req[r].replace THEN OfStudent(req[r].student)
                                           ELSE {}, req[r].pairs)
  /\ enrolment' = IF req[r].enrol THEN EnrolledNow(req[r].student)
                                  ELSE enrolment
  /\ Reply(r)
  /\ UNCHANGED people

WriteNewParent(r) ==
  /\ req[r].op = "createParent"
  /\ parent[req[r].parent] = "absent"
  /\ parent' = [parent EXCEPT ![req[r].parent] = "live"]
  /\ mapping' = Remapped({}, req[r].pairs)
  /\ Reply(r)
  /\ UNCHANGED <<student, enrolment>>

WriteParent(r) ==
  /\ req[r].op = "updateParent"
  /\ LiveRow(parent, req[r].parent)
  /\ NeverMapped(req[r].pairs)
  /\ mapping' = Remapped(IF req[r].replace THEN OfParent(req[r].parent)
                                           ELSE {}, req[r].pairs)
  /\ Reply(r)
  /\ UNCHANGED <<people, enrolment>>

WriteMapping(r) ==
  /\ req[r].op = "map"
  /\ NeverMapped(req[r].pairs)
  /\ mapping' = Remapped({}, req[r].pairs)
  /\ Reply(r)
  /\ UNCHANGED <<people, enrolment>>

WriteEnrolment(r) ==
  /\ req[r].op = "enrol"
  /\ enrolment[req[r].student] = "absent"
  /\ enrolment' = EnrolledNow(req[r].student)
  /\ Reply(r)
  /\ UNCHANGED <<people, mapping>>

-----------------------------------------------------------------------------
(***************************************************************************)
(* Deletions: the rows that refer to a deleted one are left as they are.   *)
(***************************************************************************)
SoftDeletes(table, table2, k) ==
  /\ LiveRow(table, k)
  /\ table2 = [table EXCEPT ![k] = "deleted"]

DeleteParent(r, p) ==
  /\ req[r] = Idle
  /\ SoftDeletes(parent, parent', p)
  /\ UNCHANGED <<student, links, req>>

DeleteStudent(r, s) ==
  /\ req[r] = Idle
  /\ SoftDeletes(student, student', s)
  /\ UNCHANGED <<parent, links, req>>

DeleteParentStudentMapping(r, pair) ==
  /\ req[r] = Idle
  /\ SoftDeletes(mapping, mapping', pair)
  /\ UNCHANGED <<people, enrolment, req>>

DeleteEnrollment(r, s) ==
  /\ req[r] = Idle
  /\ SoftDeletes(enrolment, enrolment', s)
  /\ UNCHANGED <<people, mapping, req>>

RecordsAbandon(r) == Abandon(r) /\ UNCHANGED <<people, links>>

\* What parentId and studentIds may hold.
OneParent(s) == {{}} \cup {{pair} : pair \in OfStudent(s)}

\* Whatever handler r may do next.
RecordsHandler(r) ==
  \/ \E s \in Students :
       \/ \E pairs \in OneParent(s), enrol \in BOOLEAN :
            \/ CreateStudent(r, s, pairs, enrol)
            \/ UpdateStudent(r, s, pairs, TRUE, enrol)
            \/ UpdateStudent(r, s, {}, FALSE, enrol)
       \/ EnrollStudent(r, s) \/ DeleteStudent(r, s)
       \/ DeleteEnrollment(r, s)
  \/ \E p \in Parents :
       \/ \E pairs \in SUBSET OfParent(p) :
            CreateParent(r, p, pairs) \/ UpdateParent(r, p, pairs, TRUE)
       \/ UpdateParent(r, p, {}, FALSE)
       \/ DeleteParent(r, p)
  \/ \E pair \in Pairs : \/ CreateParentStudentMapping(r, pair)
                         \/ DeleteParentStudentMapping(r, pair)
  \/ WriteNewStudent(r) \/ WriteStudent(r)
  \/ WriteNewParent(r) \/ WriteParent(r)
  \/ WriteMapping(r) \/ WriteEnrolment(r)
  \/ RecordsAbandon(r)

RecordsNext == \E r \in Requests : RecordsHandler(r)

RecordsSpec == RecordsInit /\ [][RecordsNext]_recordsVars

-----------------------------------------------------------------------------
RecordsTypeOK ==
  /\ parent \in [Parents -> Presence]
  /\ student \in [Students -> Presence]
  /\ mapping \in [Pairs -> Presence]
  /\ enrolment \in [Students -> Presence]
  /\ req \in [Requests -> RecordsRequest]

-----------------------------------------------------------------------------
(***************************************************************************)
(* Properties                                                              *)
(***************************************************************************)
\* The parents and students that handler q has looked up are still shown.
FamilyStands(q) ==
  /\ q.op \in {"createStudent", "updateStudent", "map"} =>
       \A pair \in q.pairs : parent[pair[1]] = "live"
  /\ q.op \in {"createParent", "updateParent", "map"} =>
       \A pair \in q.pairs : student[pair[2]] = "live"
  /\ q.op = "enrol" => student[q.student] = "live"

\* A mapping or an enrolment that appears joins rows that are live, whichever
\* of the five ways it is written in, unless one of the rows was deleted after
\* the handler looked: it validates before the transaction.
LinksAreFounded ==
  \A r \in Requests :
    \/ ~FamilyStands(req[r])
    \/ /\ FamilyStands(req[r])'
       /\ \A pair \in Pairs :
            mapping'[pair] = "live" /\ mapping[pair] # "live" =>
              parent'[pair[1]] = "live" /\ student'[pair[2]] = "live"
       /\ \A s \in Students :
            enrolment'[s] = "live" /\ enrolment[s] # "live" =>
              student'[s] = "live"
    \/ ~RecordsHandler(r)

\* A mapping or an enrolment that was deleted is not shown again: the upsert
\* of updateStudent and a parent sent once more do not bring it back.
LinksStayDeleted ==
  [][/\ \A pair \in Pairs :
          mapping[pair] = "deleted" => mapping'[pair] = "deleted"
     /\ \A s \in Students :
          enrolment[s] = "deleted" => enrolment'[s] = "deleted"]_recordsVars
=============================================================================
