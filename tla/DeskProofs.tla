----------------------------- MODULE DeskProofs -----------------------------
(***************************************************************************)
(* Proofs about SchoolDesk, for any number of rows of every table and of   *)
(* overlapping handlers of each service.  The tables keep their types, and *)
(* nothing that was deleted is shown again.  And of each check that a      *)
(* handler makes before it writes: what the handler has found out          *)
(* stands for as long as only it takes steps, and while it stands the      *)
(* handler writes nothing amiss, so that only one that another handler has *)
(* overtaken does.                                                         *)
(***************************************************************************)
EXTENDS SchoolDesk, TransportProofs, StaffProofs, IdempotencyProofs,
        Integers, TLAPS

-----------------------------------------------------------------------------
(***************************************************************************)
(* StudentRecords                                                          *)
(***************************************************************************)
KnownParents == {p \in Parents : parent[p] # "absent"}
KnownStudents == {s \in Students : student[s] # "absent"}
LiveParents == {p \in Parents : parent[p] = "live"}
LiveStudents == {s \in Students : student[s] = "live"}

\* What a request in flight refers to, besides its own row, is in ps and ss.
Checked(r, ps, ss) ==
  /\ req[r].op \in {"createStudent", "updateStudent"} =>
       \A pair \in req[r].pairs : pair[2] = req[r].student /\ pair[1] \in ps
  /\ req[r].op \in {"createParent", "updateParent"} =>
       \A pair \in req[r].pairs : pair[1] = req[r].parent /\ pair[2] \in ss
  /\ req[r].op = "map" =>
       \A pair \in req[r].pairs : pair[1] \in ps /\ pair[2] \in ss
  /\ req[r].op = "enrol" => req[r].student \in ss

(***************************************************************************)
(* The inductive invariant: a link, and a request that passed validation,  *)
(* refers to rows that were made, so that a row being made has no link the *)
(* unique keys would find deleted.                                         *)
(***************************************************************************)
LinksKnown ==
  /\ \A pair \in Pairs : mapping[pair] # "absent" =>
       pair[1] \in KnownParents /\ pair[2] \in KnownStudents
  /\ \A s \in Students : enrolment[s] # "absent" => s \in KnownStudents

RecordsInv ==
  /\ RecordsTypeOK
  /\ LinksKnown
  /\ \A r \in Requests : Checked(r, KnownParents, KnownStudents)

-----------------------------------------------------------------------------
(***************************************************************************)
(* What a step may do, in the words of the invariant and the properties.   *)
(***************************************************************************)
TablesTyped ==
  /\ parent \in [Parents -> Presence]
  /\ student \in [Students -> Presence]
  /\ mapping \in [Pairs -> Presence]
  /\ enrolment \in [Students -> Presence]

Grows ==
  /\ TablesTyped' /\ LinksKnown'
  /\ KnownParents \subseteq KnownParents'
  /\ KnownStudents \subseteq KnownStudents'

KeepsDeleted ==
  /\ \A pair \in Pairs :
       mapping[pair] = "deleted" => mapping'[pair] = "deleted"
  /\ \A s \in Students :
       enrolment[s] = "deleted" => enrolment'[s] = "deleted"

Founded ==
  /\ \A pair \in Pairs : mapping'[pair] = "live" /\ mapping[pair] # "live" =>
       parent'[pair[1]] = "live" /\ student'[pair[2]] = "live"
  /\ \A s \in Students : enrolment'[s] = "live" /\ enrolment[s] # "live" =>
       student'[s] = "live"

\* The handler of r ends and the others wait.
Ends(r) == /\ req' \in [Requests -> RecordsRequest]
           /\ req'[r] = Idle
           /\ \A s \in Requests \ {r} : req'[s] = req[s]

LEMMA RecordsFields ==
  ASSUME RecordsTypeOK, NEW r \in Requests
  PROVE  /\ req[r].op \in {"createStudent", "updateStudent"} =>
              /\ req[r].student \in Students /\ req[r].pairs \subseteq Pairs
              /\ req[r].enrol \in BOOLEAN /\ req[r].replace \in BOOLEAN
         /\ req[r].op \in {"createParent", "updateParent"} =>
              /\ req[r].parent \in Parents /\ req[r].pairs \subseteq Pairs
              /\ req[r].replace \in BOOLEAN
         /\ req[r].op = "map" => req[r].pairs \subseteq Pairs
         /\ req[r].op = "enrol" => req[r].student \in Students
<1>1. req[r] \in RecordsRequest
  BY DEF RecordsTypeOK
<1>2. ASSUME req[r].op \in {"createStudent", "updateStudent"}
      PROVE  /\ req[r].student \in Students /\ req[r].pairs \subseteq Pairs
             /\ req[r].enrol \in BOOLEAN /\ req[r].replace \in BOOLEAN
  <2>1. req[r] \in [op : {"createStudent", "updateStudent"},
                    student : Students, pairs : SUBSET Pairs,
                    replace : BOOLEAN, enrol : BOOLEAN]
    BY <1>1, <1>2 DEF RecordsRequest, WriteReq, Idle
  <2>2. req[r].student \in Students /\ req[r].pairs \subseteq Pairs
    BY <2>1
  <2>3. req[r].enrol \in BOOLEAN /\ req[r].replace \in BOOLEAN
    BY <2>1, Zenon
  <2> QED
    BY <2>2, <2>3
<1>3. ASSUME req[r].op \in {"createParent", "updateParent"}
      PROVE  /\ req[r].parent \in Parents /\ req[r].pairs \subseteq Pairs
             /\ req[r].replace \in BOOLEAN
  <2>1. req[r] \in [op : {"createParent", "updateParent"},
                    parent : Parents, pairs : SUBSET Pairs,
                    replace : BOOLEAN]
    BY <1>1, <1>3 DEF RecordsRequest, WriteReq, Idle
  <2>2. req[r].parent \in Parents /\ req[r].pairs \subseteq Pairs
    BY <2>1
  <2>3. req[r].replace \in BOOLEAN
    BY <2>1, Zenon
  <2> QED
    BY <2>2, <2>3
<1>4. ASSUME req[r].op \in {"map", "enrol"}
      PROVE  /\ req[r].op = "map" => req[r].pairs \subseteq Pairs
             /\ req[r].op = "enrol" => req[r].student \in Students
  BY <1>1, <1>4 DEF RecordsRequest, WriteReq, Idle
<1> QED
  BY <1>2, <1>3, <1>4

LEMMA RemappedFacts ==
  ASSUME RecordsTypeOK, NEW old, NEW new, mapping' = Remapped(old, new)
  PROVE  /\ mapping' \in [Pairs -> Presence]
         /\ \A pair \in Pairs :
              /\ mapping'[pair] # "absent" =>
                   mapping[pair] # "absent" \/ pair \in new
              /\ pair \notin new /\ mapping[pair] = "deleted" =>
                   mapping'[pair] = "deleted"
              /\ mapping'[pair] = "live" /\ mapping[pair] # "live" =>
                   pair \in new
<1>1. \A pair \in Pairs : mapping[pair] \in Presence
  BY DEF RecordsTypeOK
<1>2. ASSUME NEW pair \in Pairs
      PROVE  mapping'[pair] =
               CASE pair \in new -> "live"
                 [] pair \in old \ new /\ LiveRow(mapping, pair) -> "deleted"
                 [] OTHER -> mapping[pair]
  BY DEF Remapped
<1>3. ASSUME NEW pair \in Pairs
      PROVE  \/ pair \in new /\ mapping'[pair] = "live"
             \/ pair \notin new /\ mapping[pair] = "live"
                  /\ mapping'[pair] = "deleted"
             \/ pair \notin new /\ mapping'[pair] = mapping[pair]
  BY <1>2 DEF LiveRow
<1>4. mapping' \in [Pairs -> Presence]
  BY <1>1, <1>3 DEF Remapped, Presence
<1> QED
  BY <1>3, <1>4

LEMMA EnrolledFacts ==
  ASSUME RecordsTypeOK, NEW s \in Students,
         enrolment' = EnrolledNow(s) \/ enrolment' = enrolment
  PROVE  /\ enrolment' \in [Students -> Presence]
         /\ \A t \in Students :
              /\ enrolment'[t] # "absent" => enrolment[t] # "absent" \/ t = s
              /\ enrolment[t] = "deleted" => enrolment'[t] = "deleted"
              /\ enrolment'[t] = "live" /\ enrolment[t] # "live" => t = s
BY DEF RecordsTypeOK, EnrolledNow, Presence

LEMMA EndsFacts ==
  ASSUME RecordsTypeOK, NEW r \in Requests, Reply(r)
  PROVE  Ends(r)
BY DEF RecordsTypeOK, RecordsRequest, Reply, Continue, Ends

-----------------------------------------------------------------------------
(***************************************************************************)
(* The writes.                                                             *)
(***************************************************************************)
LEMMA NewStudentStep ==
  ASSUME RecordsInv, NEW r \in Requests, WriteNewStudent(r)
  PROVE  /\ Ends(r) /\ Grows /\ KeepsDeleted
         /\ Checked(r, LiveParents, LiveStudents) => Founded
<1> PICK s \in Students : s = req[r].student
  BY RecordsFields DEF RecordsInv, WriteNewStudent
<1> PICK pairs \in SUBSET Pairs : pairs = req[r].pairs
  BY RecordsFields DEF RecordsInv, WriteNewStudent
<1>1. /\ student[s] = "absent" /\ student' = [student EXCEPT ![s] = "live"]
      /\ UNCHANGED parent /\ mapping' = Remapped({}, pairs)
      /\ enrolment' = EnrolledNow(s) \/ enrolment' = enrolment
      /\ Ends(r)
  BY EndsFacts DEF RecordsInv, WriteNewStudent
<1>2. /\ \A pair \in pairs : pair[2] = s /\ pair[1] \in KnownParents
      /\ Checked(r, LiveParents, LiveStudents) =>
           \A pair \in pairs : pair[1] \in LiveParents
  BY DEF RecordsInv, Checked, WriteNewStudent
<1>3. /\ student' \in [Students -> Presence] /\ student'[s] = "live"
      /\ \A t \in Students \ {s} : student'[t] = student[t]
  BY <1>1 DEF RecordsInv, RecordsTypeOK, Presence
<1>4. /\ \A pair \in pairs : mapping[pair] # "deleted"
      /\ enrolment[s] = "absent"
  BY <1>1, <1>2 DEF RecordsInv, LinksKnown, KnownStudents
<1>5. Grows
  <2>1. TablesTyped'
    BY <1>1, <1>3, RemappedFacts, EnrolledFacts
       DEF RecordsInv, RecordsTypeOK, TablesTyped
  <2>2. /\ KnownParents' = KnownParents
        /\ KnownStudents' = KnownStudents \cup {s}
    BY <1>1, <1>3 DEF KnownParents, KnownStudents
  <2>3. LinksKnown'
    BY <1>1, <1>2, <2>2, RemappedFacts, EnrolledFacts
       DEF RecordsInv, LinksKnown
  <2> QED
    BY <2>1, <2>2, <2>3 DEF Grows
<1>6. KeepsDeleted
  BY <1>1, <1>4, RemappedFacts, EnrolledFacts DEF RecordsInv, KeepsDeleted
<1>7. Checked(r, LiveParents, LiveStudents) => Founded
  BY <1>1, <1>2, <1>3, RemappedFacts, EnrolledFacts
     DEF RecordsInv, Founded, LiveParents, Pairs
<1> QED
  BY <1>1, <1>5, <1>6, <1>7

LEMMA StudentStep ==
  ASSUME RecordsInv, NEW r \in Requests, WriteStudent(r)
  PROVE  /\ Ends(r) /\ Grows /\ KeepsDeleted
         /\ Checked(r, LiveParents, LiveStudents) => Founded
<1> PICK s \in Students : s = req[r].student
  BY RecordsFields DEF RecordsInv, WriteStudent
<1> PICK pairs \in SUBSET Pairs : pairs = req[r].pairs
  BY RecordsFields DEF RecordsInv, WriteStudent
<1>1. /\ student[s] = "live" /\ NeverMapped(pairs)
      /\ UNCHANGED people
      /\ enrolment' = EnrolledNow(s) \/ enrolment' = enrolment
      /\ Ends(r)
  BY EndsFacts DEF RecordsInv, WriteStudent, LiveRow
<1> PICK old : mapping' = Remapped(old, pairs)
  BY DEF WriteStudent
<1>2. /\ \A pair \in pairs : pair[2] = s /\ pair[1] \in KnownParents
      /\ Checked(r, LiveParents, LiveStudents) =>
           \A pair \in pairs : pair[1] \in LiveParents
  BY DEF RecordsInv, Checked, WriteStudent
<1>3. Grows
  <2>1. TablesTyped'
    BY <1>1, RemappedFacts, EnrolledFacts
       DEF RecordsInv, RecordsTypeOK, TablesTyped, people
  <2>2. /\ KnownParents' = KnownParents /\ KnownStudents' = KnownStudents
        /\ s \in KnownStudents
    BY <1>1 DEF KnownParents, KnownStudents, people
  <2>3. LinksKnown'
    BY <1>1, <1>2, <2>2, RemappedFacts, EnrolledFacts
       DEF RecordsInv, LinksKnown
  <2> QED
    BY <2>1, <2>2, <2>3 DEF Grows
<1>4. KeepsDeleted
  BY <1>1, RemappedFacts, EnrolledFacts
     DEF RecordsInv, KeepsDeleted, NeverMapped
<1>5. Checked(r, LiveParents, LiveStudents) => Founded
  BY <1>1, <1>2, RemappedFacts, EnrolledFacts
     DEF RecordsInv, Founded, LiveParents, Pairs, people
<1> QED
  BY <1>1, <1>3, <1>4, <1>5

LEMMA NewParentStep ==
  ASSUME RecordsInv, NEW r \in Requests, WriteNewParent(r)
  PROVE  /\ Ends(r) /\ Grows /\ KeepsDeleted
         /\ Checked(r, LiveParents, LiveStudents) => Founded
<1> PICK p \in Parents : p = req[r].parent
  BY RecordsFields DEF RecordsInv, WriteNewParent
<1> PICK pairs \in SUBSET Pairs : pairs = req[r].pairs
  BY RecordsFields DEF RecordsInv, WriteNewParent
<1>1. /\ parent[p] = "absent" /\ parent' = [parent EXCEPT ![p] = "live"]
      /\ UNCHANGED <<student, enrolment>> /\ mapping' = Remapped({}, pairs)
      /\ Ends(r)
  BY EndsFacts DEF RecordsInv, WriteNewParent
<1>2. /\ \A pair \in pairs : pair[1] = p /\ pair[2] \in KnownStudents
      /\ Checked(r, LiveParents, LiveStudents) =>
           \A pair \in pairs : pair[2] \in LiveStudents
  BY DEF RecordsInv, Checked, WriteNewParent
<1>3. /\ parent' \in [Parents -> Presence] /\ parent'[p] = "live"
      /\ \A q \in Parents \ {p} : parent'[q] = parent[q]
  BY <1>1 DEF RecordsInv, RecordsTypeOK, Presence
<1>4. \A pair \in pairs : mapping[pair] # "deleted"
  BY <1>1, <1>2 DEF RecordsInv, LinksKnown, KnownParents
<1>5. Grows
  <2>1. TablesTyped'
    BY <1>1, <1>3, RemappedFacts DEF RecordsInv, RecordsTypeOK, TablesTyped
  <2>2. /\ KnownStudents' = KnownStudents
        /\ KnownParents' = KnownParents \cup {p}
    BY <1>1, <1>3 DEF KnownParents, KnownStudents
  <2>3. LinksKnown'
    BY <1>1, <1>2, <2>2, RemappedFacts DEF RecordsInv, LinksKnown
  <2> QED
    BY <2>1, <2>2, <2>3 DEF Grows
<1>6. KeepsDeleted
  BY <1>1, <1>4, RemappedFacts DEF RecordsInv, KeepsDeleted
<1>7. Checked(r, LiveParents, LiveStudents) => Founded
  BY <1>1, <1>2, <1>3, RemappedFacts
     DEF RecordsInv, Founded, LiveStudents, Pairs
<1> QED
  BY <1>1, <1>5, <1>6, <1>7

LEMMA ParentStep ==
  ASSUME RecordsInv, NEW r \in Requests, WriteParent(r) \/ WriteMapping(r)
  PROVE  /\ Ends(r) /\ Grows /\ KeepsDeleted
         /\ Checked(r, LiveParents, LiveStudents) => Founded
<1> PICK pairs \in SUBSET Pairs : pairs = req[r].pairs
  BY RecordsFields DEF RecordsInv, WriteParent, WriteMapping
<1>1. NeverMapped(pairs) /\ UNCHANGED <<people, enrolment>> /\ Ends(r)
  BY EndsFacts DEF RecordsInv, WriteParent, WriteMapping
<1> PICK old : mapping' = Remapped(old, pairs)
  BY DEF WriteParent, WriteMapping
<1>2. /\ \A pair \in pairs :
           pair[1] \in KnownParents /\ pair[2] \in KnownStudents
      /\ Checked(r, LiveParents, LiveStudents) =>
           \A pair \in pairs :
             pair[1] \in LiveParents /\ pair[2] \in LiveStudents
  <2>1. CASE WriteParent(r)
    <3>1. req[r].parent \in Parents /\ parent[req[r].parent] = "live"
      BY <2>1, RecordsFields DEF RecordsInv, WriteParent, LiveRow
    <3>2. /\ req[r].parent \in LiveParents
          /\ req[r].parent \in KnownParents
      BY <3>1 DEF LiveParents, KnownParents
    <3> QED
      BY <2>1, <3>2 DEF RecordsInv, Checked, WriteParent
  <2>2. CASE WriteMapping(r)
    BY <2>2 DEF RecordsInv, Checked, WriteMapping
  <2> QED
    BY <2>1, <2>2
<1>3. Grows
  <2>1. TablesTyped'
    BY <1>1, RemappedFacts DEF RecordsInv, RecordsTypeOK, TablesTyped, people
  <2>2. KnownParents' = KnownParents /\ KnownStudents' = KnownStudents
    BY <1>1 DEF KnownParents, KnownStudents, people
  <2>3. LinksKnown'
    BY <1>1, <1>2, <2>2, RemappedFacts DEF RecordsInv, LinksKnown
  <2> QED
    BY <2>1, <2>2, <2>3 DEF Grows
<1>4. KeepsDeleted
  BY <1>1, RemappedFacts DEF RecordsInv, KeepsDeleted, NeverMapped
<1>5. Checked(r, LiveParents, LiveStudents) => Founded
  BY <1>1, <1>2, RemappedFacts
     DEF RecordsInv, Founded, LiveParents, LiveStudents, people
<1> QED
  BY <1>1, <1>3, <1>4, <1>5

LEMMA EnrolmentStep ==
  ASSUME RecordsInv, NEW r \in Requests, WriteEnrolment(r)
  PROVE  /\ Ends(r) /\ Grows /\ KeepsDeleted
         /\ Checked(r, LiveParents, LiveStudents) => Founded
<1> PICK s \in Students : s = req[r].student
  BY RecordsFields DEF RecordsInv, WriteEnrolment
<1>1. /\ enrolment' = EnrolledNow(s) /\ UNCHANGED <<people, mapping>>
      /\ s \in KnownStudents /\ Ends(r)
      /\ Checked(r, LiveParents, LiveStudents) => s \in LiveStudents
  BY EndsFacts DEF RecordsInv, Checked, WriteEnrolment
<1>2. TablesTyped'
  BY <1>1, EnrolledFacts DEF RecordsInv, RecordsTypeOK, TablesTyped, people
<1>3. KnownParents' = KnownParents /\ KnownStudents' = KnownStudents
  BY <1>1 DEF KnownParents, KnownStudents, people
<1>4. LinksKnown'
  BY <1>1, <1>3, EnrolledFacts DEF RecordsInv, LinksKnown
<1>5. KeepsDeleted
  BY <1>1, EnrolledFacts DEF RecordsInv, KeepsDeleted
<1>6. Checked(r, LiveParents, LiveStudents) => Founded
  BY <1>1, EnrolledFacts DEF RecordsInv, Founded, LiveStudents, people
<1> QED
  BY <1>1, <1>2, <1>3, <1>4, <1>5, <1>6 DEF Grows

-----------------------------------------------------------------------------
(***************************************************************************)
(* Deletions, and requests that start.                                     *)
(***************************************************************************)
Deletes(r) ==
  \/ \E p \in Parents : DeleteParent(r, p)
  \/ \E s \in Students : DeleteStudent(r, s) \/ DeleteEnrollment(r, s)
  \/ \E pair \in Pairs : DeleteParentStudentMapping(r, pair)

LEMMA DeletesStep ==
  ASSUME RecordsInv, NEW r \in Requests, Deletes(r)
  PROVE  /\ UNCHANGED req /\ req[r] = Idle
         /\ Grows /\ KeepsDeleted /\ Founded
<1> USE DEF RecordsInv, RecordsTypeOK, TablesTyped, LinksKnown, Grows,
            KeepsDeleted, Founded, KnownParents, KnownStudents, SoftDeletes,
            LiveRow, Presence, people, links
<1>1. ASSUME NEW p \in Parents, DeleteParent(r, p)
      PROVE  /\ UNCHANGED req /\ req[r] = Idle
             /\ Grows /\ KeepsDeleted /\ Founded
  BY <1>1 DEF DeleteParent
<1>2. ASSUME NEW s \in Students, DeleteStudent(r, s)
      PROVE  /\ UNCHANGED req /\ req[r] = Idle
             /\ Grows /\ KeepsDeleted /\ Founded
  BY <1>2 DEF DeleteStudent
<1>3. ASSUME NEW s \in Students, DeleteEnrollment(r, s)
      PROVE  /\ UNCHANGED req /\ req[r] = Idle
             /\ Grows /\ KeepsDeleted /\ Founded
  BY <1>3 DEF DeleteEnrollment
<1>4. ASSUME NEW pair \in Pairs, DeleteParentStudentMapping(r, pair)
      PROVE  /\ UNCHANGED req /\ req[r] = Idle
             /\ Grows /\ KeepsDeleted /\ Founded
  BY <1>4 DEF DeleteParentStudentMapping
<1> QED
  BY <1>1, <1>2, <1>3, <1>4 DEF Deletes

Validates(r) ==
  \/ \E s \in Students :
       \/ \E pairs \in OneParent(s), enrol \in BOOLEAN :
            \/ CreateStudent(r, s, pairs, enrol)
            \/ UpdateStudent(r, s, pairs, TRUE, enrol)
            \/ UpdateStudent(r, s, {}, FALSE, enrol)
       \/ EnrollStudent(r, s)
  \/ \E p \in Parents :
       \/ \E pairs \in SUBSET OfParent(p) :
            CreateParent(r, p, pairs) \/ UpdateParent(r, p, pairs, TRUE)
       \/ UpdateParent(r, p, {}, FALSE)
  \/ \E pair \in Pairs : CreateParentStudentMapping(r, pair)

LEMMA ValidatesStep ==
  ASSUME RecordsInv, NEW r \in Requests, Validates(r)
  PROVE  /\ UNCHANGED <<people, links>>
         /\ req' \in [Requests -> RecordsRequest]
         /\ \A q \in Requests \ {r} : req'[q] = req[q]
         /\ Checked(r, LiveParents, LiveStudents)'
<1> DEFINE Goal == /\ UNCHANGED <<people, links>>
                   /\ req' \in [Requests -> RecordsRequest]
                   /\ \A q \in Requests \ {r} : req'[q] = req[q]
                   /\ Checked(r, LiveParents, LiveStudents)'
<1> SUFFICES Goal
  OBVIOUS
<1> USE DEF RecordsInv, RecordsTypeOK, RecordsRequest, WriteReq, Continue,
            Checked, LiveParents, LiveStudents, ParentsLive, StudentsLive,
            LiveRow, people, links
<1>1. ASSUME NEW s \in Students, NEW pairs \in SUBSET OfStudent(s),
             NEW enrol \in BOOLEAN, NEW replace \in BOOLEAN,
             CreateStudent(r, s, pairs, enrol)
               \/ UpdateStudent(r, s, pairs, replace, enrol)
      PROVE  Goal
  <2>1. pairs \subseteq Pairs /\ \A pair \in pairs : pair[2] = s
    BY DEF OfStudent
  <2>2. \A pair \in pairs : pair[1] \in LiveParents
    BY <1>1, <2>1 DEF CreateStudent, UpdateStudent, Pairs
  <2>3. PICK op \in {"createStudent", "updateStudent"}, again \in BOOLEAN :
          req' = [req EXCEPT ![r] =
                    [op |-> op, student |-> s, pairs |-> pairs,
                     replace |-> again, enrol |-> enrol]]
    BY <1>1, Zenon DEF CreateStudent, UpdateStudent
  <2> DEFINE c == [op |-> op, student |-> s, pairs |-> pairs,
                   replace |-> again, enrol |-> enrol]
  <2>4. /\ c \in RecordsRequest /\ c.student = s /\ c.pairs = pairs
        /\ c.op \in {"createStudent", "updateStudent"}
    <3>1. c \in [op : {"createStudent", "updateStudent"},
                 student : Students, pairs : SUBSET Pairs,
                 replace : BOOLEAN, enrol : BOOLEAN]
      BY <2>1, Zenon
    <3> QED
      BY <3>1, Zenon
  <2> HIDE DEF c
  <2>5. req' = [req EXCEPT ![r] = c]
    BY <2>3 DEF c
  <2>6. UNCHANGED <<people, links>>
    BY <1>1 DEF CreateStudent, UpdateStudent
  <2>7. /\ req' \in [Requests -> RecordsRequest] /\ req'[r] = c
        /\ \A q \in Requests \ {r} : req'[q] = req[q]
    BY <2>4, <2>5
  <2>8. Checked(r, LiveParents, LiveStudents)'
    <3>1. LiveParents' = LiveParents
      BY <2>6
    <3>2. \A pair \in pairs : pair[2] = s /\ pair[1] \in LiveParents'
      BY <2>1, <2>2, <3>1
    <3> QED
      BY <2>4, <2>7, <3>2
  <2> QED
    BY <2>6, <2>7, <2>8
<1>2. ASSUME NEW p \in Parents, NEW pairs \in SUBSET OfParent(p),
             NEW replace \in BOOLEAN,
             CreateParent(r, p, pairs)
               \/ UpdateParent(r, p, pairs, replace)
      PROVE  Goal
  <2>1. pairs \subseteq Pairs /\ \A pair \in pairs : pair[1] = p
    BY DEF OfParent
  <2>2. \A pair \in pairs : pair[2] \in LiveStudents
    BY <1>2, <2>1 DEF CreateParent, UpdateParent, Pairs
  <2>3. PICK op \in {"createParent", "updateParent"}, again \in BOOLEAN :
          req' = [req EXCEPT ![r] =
                    [op |-> op, parent |-> p, pairs |-> pairs,
                     replace |-> again]]
    BY <1>2, Zenon DEF CreateParent, UpdateParent
  <2> DEFINE c == [op |-> op, parent |-> p, pairs |-> pairs,
                   replace |-> again]
  <2>4. /\ c \in RecordsRequest /\ c.parent = p /\ c.pairs = pairs
        /\ c.op \in {"createParent", "updateParent"}
    <3>1. c \in [op : {"createParent", "updateParent"}, parent : Parents,
                 pairs : SUBSET Pairs, replace : BOOLEAN]
      BY <2>1, Zenon
    <3> QED
      BY <3>1, Zenon
  <2> HIDE DEF c
  <2>5. req' = [req EXCEPT ![r] = c]
    BY <2>3 DEF c
  <2>6. UNCHANGED <<people, links>>
    BY <1>2 DEF CreateParent, UpdateParent
  <2>7. /\ req' \in [Requests -> RecordsRequest] /\ req'[r] = c
        /\ \A q \in Requests \ {r} : req'[q] = req[q]
    BY <2>4, <2>5
  <2>8. Checked(r, LiveParents, LiveStudents)'
    <3>1. LiveStudents' = LiveStudents
      BY <2>6
    <3>2. \A pair \in pairs : pair[1] = p /\ pair[2] \in LiveStudents'
      BY <2>1, <2>2, <3>1
    <3> QED
      BY <2>4, <2>7, <3>2
  <2> QED
    BY <2>6, <2>7, <2>8
<1>3. ASSUME NEW pair \in Pairs, CreateParentStudentMapping(r, pair)
      PROVE  Goal
  BY <1>3 DEF CreateParentStudentMapping, Pairs
<1>4. ASSUME NEW s \in Students, EnrollStudent(r, s)
      PROVE  Goal
  BY <1>4 DEF EnrollStudent
<1> HIDE DEF Goal
<1>5. /\ \A s \in Students : OneParent(s) \subseteq SUBSET OfStudent(s)
      /\ \A s \in Students : {} \in SUBSET OfStudent(s)
      /\ \A p \in Parents : {} \in SUBSET OfParent(p)
  BY DEF OneParent
<1>6. CASE \E s \in Students :
             \/ \E pairs \in OneParent(s), enrol \in BOOLEAN :
                  \/ CreateStudent(r, s, pairs, enrol)
                  \/ UpdateStudent(r, s, pairs, TRUE, enrol)
                  \/ UpdateStudent(r, s, {}, FALSE, enrol)
             \/ EnrollStudent(r, s)
  <2> PICK s \in Students :
        \/ \E pairs \in OneParent(s), enrol \in BOOLEAN :
             \/ CreateStudent(r, s, pairs, enrol)
             \/ UpdateStudent(r, s, pairs, TRUE, enrol)
             \/ UpdateStudent(r, s, {}, FALSE, enrol)
        \/ EnrollStudent(r, s)
    BY <1>6
  <2>1. CASE EnrollStudent(r, s)
    BY <2>1, <1>4, Zenon
  <2>2. ASSUME NEW pairs \in OneParent(s), NEW enrol \in BOOLEAN,
               \/ CreateStudent(r, s, pairs, enrol)
               \/ UpdateStudent(r, s, pairs, TRUE, enrol)
               \/ UpdateStudent(r, s, {}, FALSE, enrol)
        PROVE  Goal
    <3>1. pairs \in SUBSET OfStudent(s)
      BY <1>5
    <3> QED
      BY <2>2, <3>1, <1>1, <1>5, Zenon
  <2> QED
    BY <2>1, <2>2, Zenon
<1>7. CASE \E p \in Parents :
             \/ \E pairs \in SUBSET OfParent(p) :
                  CreateParent(r, p, pairs) \/ UpdateParent(r, p, pairs, TRUE)
             \/ UpdateParent(r, p, {}, FALSE)
  <2> PICK p \in Parents :
        \/ \E pairs \in SUBSET OfParent(p) :
             CreateParent(r, p, pairs) \/ UpdateParent(r, p, pairs, TRUE)
        \/ UpdateParent(r, p, {}, FALSE)
    BY <1>7
  <2>1. CASE UpdateParent(r, p, {}, FALSE)
    BY <2>1, <1>2, <1>5, Zenon
  <2>2. ASSUME NEW pairs \in SUBSET OfParent(p),
               CreateParent(r, p, pairs) \/ UpdateParent(r, p, pairs, TRUE)
        PROVE  Goal
    BY <2>2, <1>2, Zenon
  <2> QED
    BY <2>1, <2>2, Zenon
<1> QED
  BY <1>3, <1>6, <1>7 DEF Validates

-----------------------------------------------------------------------------
(***************************************************************************)
(* Every step is one of these, and keeps the invariant.                    *)
(***************************************************************************)
LEMMA RecordsSteps ==
  ASSUME NEW q \in Requests, RecordsHandler(q)
  PROVE  \/ Validates(q) \/ Deletes(q)
         \/ WriteNewStudent(q) \/ WriteStudent(q)
         \/ WriteNewParent(q) \/ WriteParent(q)
         \/ WriteMapping(q) \/ WriteEnrolment(q)
         \/ RecordsAbandon(q)
BY Zenon DEF RecordsHandler, Validates, Deletes

LEMMA GrowingKeeps ==
  ASSUME RecordsInv, Grows, req' \in [Requests -> RecordsRequest],
         \A s \in Requests : req'[s] = Idle \/ req'[s] = req[s]
  PROVE  RecordsInv'
<1>1. RecordsTypeOK'
  BY DEF Grows, TablesTyped, RecordsTypeOK
<1>2. \A s \in Requests : Checked(s, KnownParents, KnownStudents)'
  BY DEF RecordsInv, Grows, Checked, Idle
<1> QED
  BY <1>1, <1>2 DEF RecordsInv, Grows

LEMMA WaitingKeeps ==
  ASSUME RecordsInv, UNCHANGED <<people, links>>,
         NEW r \in Requests, req' \in [Requests -> RecordsRequest],
         \A s \in Requests \ {r} : req'[s] = req[s],
         req'[r] = Idle \/ Checked(r, LiveParents, LiveStudents)'
  PROVE  RecordsInv' /\ KeepsDeleted /\ Founded
<1>1. RecordsTypeOK' /\ KeepsDeleted /\ Founded
  BY DEF RecordsInv, RecordsTypeOK, KeepsDeleted, Founded, people, links
<1>2. /\ KnownParents' = KnownParents /\ KnownStudents' = KnownStudents
      /\ LinksKnown'
  BY DEF RecordsInv, LinksKnown, KnownParents, KnownStudents, people, links
<1>3. LiveParents' \subseteq KnownParents'
        /\ LiveStudents' \subseteq KnownStudents'
  BY DEF LiveParents, LiveStudents, KnownParents, KnownStudents
<1>4. Checked(r, KnownParents, KnownStudents)'
  <2>1. CASE req'[r] = Idle
    BY <2>1 DEF Checked, Idle
  <2>2. CASE Checked(r, LiveParents, LiveStudents)'
    BY <2>2, <1>3 DEF Checked
  <2> QED
    BY <2>1, <2>2
<1>5. \A s \in Requests \ {r} : Checked(s, KnownParents, KnownStudents)'
  BY <1>2 DEF RecordsInv, Checked
<1> QED
  BY <1>1, <1>2, <1>4, <1>5 DEF RecordsInv

\* What a step of a handler does, and what it needs to be sound.
LEMMA RecordsStep ==
  ASSUME RecordsInv, NEW r \in Requests, RecordsHandler(r)
  PROVE  /\ RecordsInv' /\ KeepsDeleted
         /\ Checked(r, LiveParents, LiveStudents) => Founded
         /\ req'[r] = Idle \/ Checked(r, LiveParents, LiveStudents)'
<1> DEFINE Goal ==
      /\ RecordsInv' /\ KeepsDeleted
      /\ Checked(r, LiveParents, LiveStudents) => Founded
      /\ req'[r] = Idle \/ Checked(r, LiveParents, LiveStudents)'
<1>0. \/ Validates(r) \/ Deletes(r)
      \/ WriteNewStudent(r) \/ WriteStudent(r)
      \/ WriteNewParent(r) \/ WriteParent(r)
      \/ WriteMapping(r) \/ WriteEnrolment(r)
      \/ RecordsAbandon(r)
  BY RecordsSteps
<1> SUFFICES Goal
  BY Zenon
<1>1. CASE Validates(r)
  BY <1>1, ValidatesStep, WaitingKeeps
<1>2. CASE Deletes(r)
  BY <1>2, DeletesStep, GrowingKeeps DEF RecordsInv, RecordsTypeOK
<1>3. ASSUME /\ Ends(r) /\ Grows /\ KeepsDeleted
             /\ Checked(r, LiveParents, LiveStudents) => Founded
      PROVE  Goal
  BY <1>3, GrowingKeeps DEF Ends
<1>4. CASE \/ WriteNewStudent(r) \/ WriteStudent(r)
           \/ WriteNewParent(r) \/ WriteParent(r)
           \/ WriteMapping(r) \/ WriteEnrolment(r)
  BY <1>3, <1>4, NewStudentStep, StudentStep, NewParentStep, ParentStep,
     EnrolmentStep
<1>5. CASE RecordsAbandon(r)
  <2>1. Ends(r) /\ UNCHANGED <<people, links>>
    BY <1>5, EndsFacts DEF RecordsAbandon, Abandon, RecordsInv
  <2> QED
    BY <2>1, WaitingKeeps DEF Ends
<1> QED
  BY <1>0, <1>1, <1>2, <1>4, <1>5

LEMMA RecordsInitInv == RecordsInit => RecordsInv
BY DEF RecordsInit, HandlersInit, RecordsInv, RecordsTypeOK, RecordsRequest,
   LinksKnown, Checked, Idle, Presence

LEMMA RecordsInvStep ==
  ASSUME RecordsInv, [RecordsNext]_recordsVars
  PROVE  RecordsInv'
<1>1. CASE UNCHANGED recordsVars
  BY <1>1 DEF recordsVars, people, links, RecordsInv, RecordsTypeOK,
     LinksKnown, Checked, KnownParents, KnownStudents
<1>2. CASE RecordsNext
  BY <1>2, RecordsStep DEF RecordsNext
<1> QED
  BY <1>1, <1>2

\* The tables and the handlers in flight stay in their types.
THEOREM RecordsTypeCorrect == RecordsSpec => []RecordsTypeOK
<1>1. RecordsInv => RecordsTypeOK
  BY DEF RecordsInv
<1> QED
  BY <1>1, RecordsInitInv, RecordsInvStep, PTL DEF RecordsSpec

\* For any number of parents, students and overlapping handlers, no mapping
\* and no enrolment that was deleted is shown again.
THEOREM LinksDeletedForGood == RecordsSpec => LinksStayDeleted
<1>1. RecordsInv /\ [RecordsNext]_recordsVars =>
        [/\ \A pair \in Pairs :
              mapping[pair] = "deleted" => mapping'[pair] = "deleted"
         /\ \A s \in Students :
              enrolment[s] = "deleted" => enrolment'[s] = "deleted"
        ]_recordsVars
  BY RecordsStep DEF RecordsNext, KeepsDeleted
<1> QED
  BY <1>1, RecordsInitInv, RecordsInvStep, PTL
     DEF RecordsSpec, LinksStayDeleted

-----------------------------------------------------------------------------
(***************************************************************************)
(* What a request that is not overtaken has validated is still live when   *)
(* it is written, and the step that validates leaves it so.                *)
(***************************************************************************)
LEMMA StandingFamily ==
  ASSUME RecordsInv, NEW r \in Requests
  PROVE  FamilyStands(req[r]) => Checked(r, LiveParents, LiveStudents)
<1> SUFFICES ASSUME FamilyStands(req[r])
             PROVE  Checked(r, LiveParents, LiveStudents)
  OBVIOUS
<1>1. Checked(r, KnownParents, KnownStudents) /\ req[r] \in RecordsRequest
  BY DEF RecordsInv, RecordsTypeOK
<1>2. \A p : p \in Parents /\ parent[p] = "live" => p \in LiveParents
  BY DEF LiveParents
<1>3. \A s : s \in Students /\ student[s] = "live" => s \in LiveStudents
  BY DEF LiveStudents
<1> QED
  BY <1>1, <1>2, <1>3
     DEF Checked, FamilyStands, KnownParents, KnownStudents, RecordsRequest,
         Idle

\* A mapping or an enrolment that appears joins live rows, and what has been
\* validated stands, whatever handlers do that are not overtaken.
LEMMA FoundedByAnyHandler ==
  ASSUME RecordsInv
  PROVE  LinksAreFounded
<1> SUFFICES ASSUME NEW r \in Requests, RecordsHandler(r),
                    FamilyStands(req[r])
             PROVE  FamilyStands(req[r])' /\ Founded
  BY DEF LinksAreFounded, Founded
<1>1. /\ Founded
      /\ req'[r] = Idle \/ Checked(r, LiveParents, LiveStudents)'
  BY StandingFamily, RecordsStep
<1>2. Checked(r, LiveParents, LiveStudents)' => FamilyStands(req[r])'
  BY DEF Checked, FamilyStands, LiveParents, LiveStudents
<1>3. req'[r] = Idle => FamilyStands(req[r])'
  BY DEF FamilyStands, Idle
<1> QED
  BY <1>1, <1>2, <1>3

-----------------------------------------------------------------------------
(***************************************************************************)
(* Timetable: the two unique keys, and that a handler which found a lesson *)
(* updates a row that exists.                                              *)
(***************************************************************************)
KeysUnique ==
  \A l, m \in Rows(lesson) : l # m /\ lesson[l].slot = lesson[m].slot =>
    lesson[l].group # lesson[m].group /\ lesson[l].teacher # lesson[m].teacher

FoundExists(c) ==
  /\ c.op = "updateLesson" => c.id \in Rows(lesson)
  /\ c.op = "upsert" /\ c.at = "update" => c.id \in Rows(entry)

TimetableInv ==
  /\ TimetableTypeOK
  /\ \A r \in Requests : FoundExists(req[r])
  /\ KeysUnique

LEMMA TimetableFields ==
  ASSUME TimetableTypeOK, NEW r \in Requests
  PROVE  /\ req[r].op = "updateLesson" =>
              /\ req[r].id \in Lessons
              /\ req[r].slot \in Slots \cup {Null}
              /\ req[r].teacher \in Teachers \cup {Null}
         /\ req[r].op = "upsert" => req[r].row \in EntryRow
         /\ req[r].op = "upsert" /\ req[r].at = "update" =>
              req[r].id \in Entries
         /\ req[r].op = "upsert" /\ req[r].at = "find" =>
              [req[r] EXCEPT !.at = "create"] =
                [op |-> "upsert", at |-> "create", row |-> req[r].row]
<1>1. req[r] \in TimetableRequest
  BY DEF TimetableTypeOK
<1>2. CASE req[r].op = "upsert" /\ req[r].at = "find"
  <2>1. req[r] \in [op : {"upsert"}, at : {"find", "create"}, row : EntryRow]
    BY <1>1, <1>2
       DEF TimetableRequest, UpdateLessonReq, UpsertReq, Idle
  <2> QED
    BY <1>2, <2>1
<1>3. CASE ~(req[r].op = "upsert" /\ req[r].at = "find")
  BY <1>1, <1>3 DEF TimetableRequest, UpdateLessonReq, UpsertReq, Idle
<1> QED
  BY <1>2, <1>3

\* A step that leaves the lessons.
LEMMA LessonsUntouched ==
  ASSUME TimetableInv, UNCHANGED lesson,
         entry' \in [Entries -> EntryRow \cup {Null}],
         Rows(entry) \subseteq Rows(entry)',
         NEW r \in Requests, NEW c \in TimetableRequest,
         req' = [req EXCEPT ![r] = c], FoundExists(c)
  PROVE  TimetableInv'
<1>1. TimetableTypeOK'
  BY DEF TimetableInv, TimetableTypeOK
<1>2. Rows(lesson)' = Rows(lesson) /\ KeysUnique'
  BY DEF TimetableInv, KeysUnique, Rows
<1>3. \A q \in Requests : req'[q] = c \/ req'[q] = req[q]
  BY DEF TimetableInv, TimetableTypeOK
<1>4. \A q \in Requests : FoundExists(req[q])'
  BY <1>2, <1>3 DEF TimetableInv, FoundExists
<1> QED
  BY <1>1, <1>2, <1>4 DEF TimetableInv

\* A lesson that is made, or changed to a row whose keys are free.
LEMMA LessonWritten ==
  ASSUME TimetableInv, UNCHANGED entry,
         NEW l \in Lessons, NEW row \in LessonRow,
         lesson' = [lesson EXCEPT ![l] = row],
         \/ KeysFree(l, row)
         \/ l \in Rows(lesson) /\ row.group = lesson[l].group
              /\ row.slot = lesson[l].slot /\ row.teacher = lesson[l].teacher,
         req' \in [Requests -> TimetableRequest],
         \A q \in Requests : req'[q] = Idle \/ req'[q] = req[q]
  PROVE  TimetableInv'
<1>1. /\ lesson'[l] = row /\ row # Null
      /\ \A m \in Lessons \ {l} : lesson'[m] = lesson[m]
      /\ lesson' \in [Lessons -> LessonRow \cup {Null}]
  BY NoLessonAssumption DEF TimetableInv, TimetableTypeOK
<1>2. Rows(lesson)' = Rows(lesson) \cup {l} /\ Rows(lesson) \subseteq Lessons
  BY <1>1 DEF Rows, TimetableInv, TimetableTypeOK
<1>3. TimetableTypeOK'
  BY <1>1 DEF TimetableInv, TimetableTypeOK
<1>4. \A m \in Rows(lesson) \ {l} : lesson[m].slot = row.slot =>
        lesson[m].group # row.group /\ lesson[m].teacher # row.teacher
  BY <1>2 DEF KeysFree, TimetableInv, KeysUnique
<1>5. KeysUnique'
  BY <1>1, <1>2, <1>4 DEF TimetableInv, KeysUnique
<1>6. Rows(entry)' = Rows(entry)
  BY DEF Rows
<1>7. \A q \in Requests : FoundExists(req[q])'
  <2>1. \A c : FoundExists(c) => FoundExists(c)'
    BY <1>2, <1>6 DEF FoundExists
  <2>2. FoundExists(Idle)
    BY DEF FoundExists, Idle
  <2> QED
    BY <2>1, <2>2 DEF TimetableInv
<1> QED
  BY <1>3, <1>5, <1>7 DEF TimetableInv

LEMMA TimetableStep ==
  ASSUME TimetableInv, TimetableNext
  PROVE  TimetableInv'
<1> USE DEF timetables, Continue, Reply
<1> Idle \in TimetableRequest /\ FoundExists(Idle)
  BY DEF TimetableRequest, Idle, FoundExists
<1>1. ASSUME NEW r \in Requests, NEW l \in Lessons, NEW row \in LessonRow,
             CreateEntry(r, l, row)
      PROVE  TimetableInv'
  BY <1>1, LessonWritten DEF CreateEntry, TimetableInv, TimetableTypeOK
<1>2. ASSUME NEW r \in Requests, NEW l \in Lessons,
             NEW slot \in Slots \cup {Null},
             NEW teacher \in Teachers \cup {Null},
             UpdateEntry(r, l, slot, teacher)
      PROVE  TimetableInv'
  <2> DEFINE c == [op |-> "updateLesson", id |-> l, slot |-> slot,
                   teacher |-> teacher]
  <2>1. c \in TimetableRequest /\ c.op = "updateLesson" /\ c.id = l
    BY DEF TimetableRequest, UpdateLessonReq
  <2>2. /\ req' = [req EXCEPT ![r] = c] /\ l \in Rows(lesson)
        /\ UNCHANGED <<lesson, entry>>
    BY <1>2 DEF UpdateEntry
  <2> HIDE DEF c
  <2>3. FoundExists(c) /\ Rows(entry)' = Rows(entry)
    BY <2>1, <2>2 DEF FoundExists, Rows
  <2> QED
    BY <2>1, <2>2, <2>3, LessonsUntouched DEF TimetableInv, TimetableTypeOK
<1>3. ASSUME NEW r \in Requests, WriteLesson(r)
      PROVE  TimetableInv'
  <2> PICK l \in Lessons : l = req[r].id /\ l \in Rows(lesson)
    BY <1>3, TimetableFields DEF WriteLesson, TimetableInv, FoundExists
  <2>1. lesson[l] \in LessonRow
    BY DEF TimetableInv, TimetableTypeOK, Rows
  <2> DEFINE row == [lesson[l] EXCEPT
                       !.slot = Given(req[r].slot, lesson[l].slot),
                       !.teacher = Given(req[r].teacher, lesson[l].teacher)]
  <2>2. row \in LessonRow
    BY <1>3, <2>1, TimetableFields
       DEF WriteLesson, TimetableInv, LessonRow, Given
  <2>3. KeysFree(l, row) /\ lesson' = [lesson EXCEPT ![l] = row]
    BY <1>3 DEF WriteLesson
  <2>4. /\ UNCHANGED entry /\ req' \in [Requests -> TimetableRequest]
        /\ \A q \in Requests : req'[q] = Idle \/ req'[q] = req[q]
    BY <1>3
       DEF WriteLesson, TimetableInv, TimetableTypeOK, TimetableRequest
  <2> QED
    BY <2>2, <2>3, <2>4, LessonWritten
<1>4. ASSUME NEW r \in Requests, NEW l \in Lessons, DeleteEntry(r, l)
      PROVE  TimetableInv'
  <2>1. lesson[l] \in LessonRow /\ l \in Rows(lesson)
    BY <1>4 DEF DeleteEntry, TimetableInv, TimetableTypeOK, Rows
  <2> DEFINE row == [lesson[l] EXCEPT !.live = FALSE]
  <2>2. /\ row.group = lesson[l].group /\ row.slot = lesson[l].slot
        /\ row.teacher = lesson[l].teacher /\ row \in LessonRow
    BY <2>1 DEF LessonRow
  <2>3. lesson' = [lesson EXCEPT ![l] = row] /\ UNCHANGED <<entry, req>>
    BY <1>4 DEF DeleteEntry
  <2> QED
    BY <2>1, <2>2, <2>3, LessonWritten DEF TimetableInv, TimetableTypeOK
<1>5. ASSUME NEW r \in Requests, NEW wanted \in EntryRow,
             UpsertEntry(r, wanted)
      PROVE  TimetableInv'
  <2> DEFINE c == [op |-> "upsert", at |-> "find", row |-> wanted]
  <2>1. c \in TimetableRequest /\ FoundExists(c)
    BY DEF TimetableRequest, UpsertReq, FoundExists
  <2>2. req' = [req EXCEPT ![r] = c] /\ UNCHANGED <<lesson, entry>>
        /\ Rows(entry)' = Rows(entry)
    BY <1>5 DEF UpsertEntry, Rows
  <2> HIDE DEF c
  <2> QED
    BY <2>1, <2>2, LessonsUntouched DEF TimetableInv, TimetableTypeOK
<1>6. ASSUME NEW r \in Requests, FindEntry(r)
      PROVE  TimetableInv'
  <2>1. req[r].row \in EntryRow /\ UNCHANGED <<lesson, entry>>
    BY <1>6, TimetableFields DEF FindEntry, TimetableInv
  <2>2. PICK c : /\ req' = [req EXCEPT ![r] = c]
                 /\ \/ \E e \in Rows(entry) :
                         c = [op |-> "upsert", at |-> "update",
                              row |-> req[r].row, id |-> e]
                    \/ c = [op |-> "upsert", at |-> "create",
                            row |-> req[r].row]
    BY <1>6, TimetableFields
       DEF FindEntry, TimetableInv
  <2>3. Rows(entry) \subseteq Entries /\ Rows(entry)' = Rows(entry)
    BY <2>1 DEF Rows, TimetableInv, TimetableTypeOK
  <2>4. c \in TimetableRequest /\ FoundExists(c)
    BY <2>1, <2>2, <2>3 DEF TimetableRequest, UpsertReq, FoundExists
  <2> QED
    BY <2>1, <2>2, <2>3, <2>4, LessonsUntouched
       DEF TimetableInv, TimetableTypeOK
<1>7. ASSUME NEW r \in Requests,
             UpdateFound(r) \/ \E e \in Entries : CreateMissing(r, e)
      PROVE  TimetableInv'
  <2>1. req[r].row \in EntryRow
    BY <1>7, TimetableFields DEF UpdateFound, CreateMissing, TimetableInv
  <2>2. /\ entry' \in [Entries -> EntryRow \cup {Null}]
        /\ Rows(entry) \subseteq Rows(entry)'
    <3>1. ASSUME NEW e \in Entries, NEW row \in EntryRow,
                 entry' = [entry EXCEPT ![e] = row]
          PROVE  /\ entry' \in [Entries -> EntryRow \cup {Null}]
                 /\ Rows(entry) \subseteq Rows(entry)'
      BY <3>1, NoLessonAssumption DEF TimetableInv, TimetableTypeOK, Rows
    <3>2. CASE UpdateFound(r)
      <4>1. PICK e \in Entries : e = req[r].id /\ e \in Rows(entry)
        BY <3>2, TimetableFields DEF UpdateFound, TimetableInv, FoundExists
      <4>2. entry[e] \in EntryRow /\ req[r].row.teacher \in Teachers \cup {Null}
        BY <2>1, <4>1 DEF EntryRow, TimetableInv, TimetableTypeOK, Rows
      <4>3. [entry[e] EXCEPT !.teacher = req[r].row.teacher] \in EntryRow
        BY <4>2 DEF EntryRow
      <4> QED
        BY <3>1, <3>2, <4>1, <4>3 DEF UpdateFound
    <3>3. CASE \E e \in Entries : CreateMissing(r, e)
      BY <2>1, <3>1, <3>3 DEF CreateMissing
    <3> QED
      BY <1>7, <3>2, <3>3
  <2>3. UNCHANGED lesson /\ req' = [req EXCEPT ![r] = Idle]
    BY <1>7 DEF UpdateFound, CreateMissing
  <2> QED
    BY <2>2, <2>3, LessonsUntouched
<1>8. ASSUME NEW r \in Requests, TimetableAbandon(r)
      PROVE  TimetableInv'
  <2>1. Rows(entry)' = Rows(entry)
    BY <1>8 DEF TimetableAbandon, Rows
  <2> QED
    BY <1>8, <2>1, LessonsUntouched
       DEF TimetableAbandon, Abandon, TimetableInv, TimetableTypeOK
<1> QED
  BY <1>1, <1>2, <1>3, <1>4, <1>5, <1>6, <1>7, <1>8
  DEF TimetableNext, TimetableHandler

-----------------------------------------------------------------------------
(***************************************************************************)
(* Timetable: what GridStands says of a handler that is not overtaken is   *)
(* kept by its steps.                                                      *)
(***************************************************************************)
GridInv(r) == r \in Requests /\ TimetableInv /\ GridStands(req[r])

GridKept == GridIsSound => GridIsSound'

\* What a step leaves of it that does not touch the entries.
LEMMA GridUntouched ==
  ASSUME NEW r \in Requests, GridInv(r), UNCHANGED entry, TimetableInv',
         NEW c, req' = [req EXCEPT ![r] = c], GridStands(c)
  PROVE  GridInv(r)' /\ GridKept
<1>1. Rows(entry)' = Rows(entry)
  BY DEF Rows
<1>2. req'[r] = c
  BY DEF GridInv, TimetableInv, TimetableTypeOK
<1>3. GridStands(req[r])'
  BY <1>1, <1>2 DEF GridStands, Booked
<1>4. GridKept
  BY <1>1 DEF GridKept, GridIsSound
<1> QED
  BY <1>3, <1>4 DEF GridInv

LEMMA GridStep ==
  ASSUME NEW r \in Requests, GridInv(r), TimetableHandler(r)
  PROVE  GridInv(r)' /\ GridKept
<1>0. /\ TimetableInv /\ TimetableInv' /\ TimetableTypeOK
      /\ GridStands(req[r]) /\ FoundExists(req[r]) /\ GridStands(Idle)
      /\ entry \in [Entries -> EntryRow \cup {Null}]
      /\ Rows(entry) \subseteq Entries
      /\ \A e \in Rows(entry) : entry[e] \in EntryRow
  BY TimetableStep
  DEF GridInv, TimetableInv, TimetableTypeOK, Rows, GridStands, Idle,
      TimetableNext
<1>1. ASSUME UNCHANGED entry, req[r] = Idle, UNCHANGED req
      PROVE  GridInv(r)' /\ GridKept
  <2>1. req' = [req EXCEPT ![r] = Idle]
    BY <1>0, <1>1 DEF TimetableTypeOK
  <2> QED
    BY <1>0, <1>1, <2>1, GridUntouched
<1>2. ASSUME NEW l \in Lessons, NEW row, CreateEntry(r, l, row)
      PROVE  GridInv(r)' /\ GridKept
  BY <1>1, <1>2 DEF CreateEntry
<1>3. ASSUME NEW l \in Lessons, DeleteEntry(r, l)
      PROVE  GridInv(r)' /\ GridKept
  BY <1>1, <1>3 DEF DeleteEntry
<1>4. ASSUME NEW l \in Lessons, NEW slot, NEW teacher,
             UpdateEntry(r, l, slot, teacher)
      PROVE  GridInv(r)' /\ GridKept
  <2>1. /\ UNCHANGED entry
        /\ req' = [req EXCEPT ![r] = [op |-> "updateLesson", id |-> l,
                                      slot |-> slot, teacher |-> teacher]]
    BY <1>4 DEF UpdateEntry, Continue, timetables
  <2> QED
    BY <1>0, <2>1, GridUntouched DEF GridStands
<1>5. CASE WriteLesson(r) \/ TimetableAbandon(r)
  <2>1. UNCHANGED entry /\ req' = [req EXCEPT ![r] = Idle]
    BY <1>5 DEF WriteLesson, TimetableAbandon, Abandon, Reply, Continue,
       timetables
  <2> QED
    BY <1>0, <2>1, GridUntouched
<1>6. ASSUME NEW wanted \in EntryRow, UpsertEntry(r, wanted)
      PROVE  GridInv(r)' /\ GridKept
  <2>1. /\ UNCHANGED entry
        /\ wanted.teacher # Null => Booked(wanted) = {}
        /\ req' = [req EXCEPT ![r] =
                     [op |-> "upsert", at |-> "find", row |-> wanted]]
    BY <1>6 DEF UpsertEntry, Continue, timetables
  <2> QED
    BY <1>0, <2>1, GridUntouched DEF GridStands
<1>7. CASE FindEntry(r)
  <2>1. PICK c : /\ req' = [req EXCEPT ![r] = c]
                 /\ \/ \E e \in Rows(entry) :
                         /\ SameSlot(entry[e], req[r].row)
                         /\ c = [op |-> "upsert", at |-> "update",
                                 row |-> req[r].row, id |-> e]
                    \/ /\ \A e \in Rows(entry) :
                            ~SameSlot(entry[e], req[r].row)
                       /\ c = [op |-> "upsert", at |-> "create",
                               row |-> req[r].row]
    BY <1>0, <1>7, TimetableFields DEF FindEntry, Continue
  <2>2. req[r].row.teacher # Null => Booked(req[r].row) = {}
    BY <1>0, <1>7 DEF FindEntry, GridStands
  <2>3. GridStands(c)
    BY <2>1, <2>2 DEF GridStands
  <2>4. UNCHANGED entry
    BY <1>7 DEF FindEntry, timetables
  <2> QED
    BY <1>0, <2>1, <2>3, <2>4, GridUntouched
<1>8. ASSUME req' = [req EXCEPT ![r] = Idle], GridKept
      PROVE  GridInv(r)' /\ GridKept
  <2>1. req'[r] = Idle
    BY <1>0, <1>8 DEF TimetableTypeOK
  <2>2. GridStands(req[r])'
    BY <2>1 DEF GridStands, Idle
  <2> QED
    BY <1>0, <1>8, <2>2 DEF GridInv
\* A teacher who was not booked elsewhere is in the class of the request.
<1>9. ASSUME req[r].op = "upsert", NEW e \in Rows(entry),
             req[r].row.teacher # Null, entry[e].teacher = req[r].row.teacher
      PROVE  entry[e].form = req[r].row.form
  <2>1. e \notin Booked(req[r].row)
    BY <1>0, <1>9 DEF GridStands
  <2> QED
    BY <1>9, <2>1 DEF Booked, Elsewhere
<1>10. CASE UpdateFound(r)
  <2>1. PICK e \in Rows(entry) : e = req[r].id
    BY <1>0, <1>10 DEF UpdateFound, FoundExists
  <2>2. /\ req[r].op = "upsert" /\ SameSlot(entry[e], req[r].row)
        /\ entry' = [entry EXCEPT ![e].teacher = req[r].row.teacher]
        /\ req' = [req EXCEPT ![r] = Idle]
    BY <1>0, <1>10, <2>1 DEF UpdateFound, GridStands, Reply, Continue
  <2>3. /\ entry'[e].teacher = req[r].row.teacher
        /\ entry'[e].form = entry[e].form
        /\ entry'[e].section = entry[e].section
        /\ \A f \in Rows(entry) \ {e} : entry'[f] = entry[f]
        /\ entry[e].form = req[r].row.form
    BY <1>0, <2>2 DEF EntryRow, SameSlot
  <2>4. Rows(entry)' = Rows(entry)
    <3>1. entry[e] \in EntryRow /\ req[r].row.teacher \in Teachers \cup {Null}
      BY <1>0, <2>1, <2>2, TimetableFields
         DEF EntryRow, TimetableInv, TimetableTypeOK, Rows
    <3>2. [entry[e] EXCEPT !.teacher = req[r].row.teacher] \in EntryRow
      BY <3>1 DEF EntryRow
    <3>3. entry'[e] # Null
      BY <1>0, <2>1, <2>2, <3>2, NoLessonAssumption DEF TimetableTypeOK, Rows
    <3> QED
      BY <1>0, <2>1, <2>2, <2>3, <3>3 DEF TimetableTypeOK, Rows
  <2>5. GridKept
    BY <1>0, <1>9, <2>2, <2>3, <2>4 DEF GridKept, GridIsSound, SameSlot
  <2> QED
    BY <1>8, <2>2, <2>5
<1>11. ASSUME NEW e \in Entries, CreateMissing(r, e)
       PROVE  GridInv(r)' /\ GridKept
  <2>1. /\ req[r].op = "upsert" /\ entry[e] = Null
        /\ \A f \in Rows(entry) : ~SameSlot(entry[f], req[r].row)
        /\ entry' = [entry EXCEPT ![e] = req[r].row]
        /\ req' = [req EXCEPT ![r] = Idle]
    BY <1>0, <1>11 DEF CreateMissing, GridStands, Reply, Continue
  <2>2. /\ entry'[e] = req[r].row
        /\ \A f \in Rows(entry) : entry'[f] = entry[f] /\ f # e
        /\ Rows(entry)' \subseteq Rows(entry) \cup {e}
    BY <1>0, <2>1 DEF Rows
  <2>3. GridKept
    BY <1>0, <1>9, <2>1, <2>2 DEF GridKept, GridIsSound, SameSlot
  <2> QED
    BY <1>8, <2>1, <2>3
<1> QED
  BY <1>2, <1>3, <1>4, <1>5, <1>6, <1>7, <1>10, <1>11 DEF TimetableHandler

\* Whatever handlers do that are not overtaken, no teacher is in two classes
\* of the period, and no class and section gets a second entry.
LEMMA SoundByAnyHandler ==
  ASSUME TimetableInv
  PROVE  GridStaysSound
<1> SUFFICES ASSUME NEW r \in Requests, TimetableHandler(r),
                    GridStands(req[r])
             PROVE  GridStands(req[r])' /\ GridKept
  BY DEF GridStaysSound, GridKept
<1>1. GridInv(r)
  BY DEF GridInv
<1>2. GridInv(r)' /\ GridKept
  BY <1>1, GridStep
<1> QED
  BY <1>2 DEF GridInv

-----------------------------------------------------------------------------
(***************************************************************************)
(* The services whose guards and unique keys look at the row they write.   *)
(***************************************************************************)
RecordKept == \A p \in Pupils : record[p].state = "deleted" =>
                record'[p].state = "deleted"

LEMMA AttendanceStep ==
  ASSUME DOMAIN record = Pupils, AttendanceNext
  PROVE  DOMAIN record' = Pupils /\ RecordKept
<1> USE DEF RecordKept
<1>1. CASE UNCHANGED record
  BY <1>1
<1>2. ASSUME NEW p \in Pupils, NEW status,
             record' = [record EXCEPT ![p] = Marked(record[p], status)]
      PROVE  DOMAIN record' = Pupils /\ RecordKept
  <2>1. record[p].state = "deleted" =>
          Marked(record[p], status).state = "deleted"
    BY DEF Marked
  <2> QED
    BY <1>2, <2>1
<1>3. ASSUME NEW r \in Requests, NEW sheet, NEW status,
             SaveBulkAttendance(r, sheet, status)
      PROVE  DOMAIN record' = Pupils /\ RecordKept
  <2>1. ASSUME NEW p \in Pupils, record[p].state = "deleted"
        PROVE  /\ SoftDeleted(record[p]) = record[p]
               /\ Created(SoftDeleted(record[p]), status) = record[p]
    BY <2>1 DEF SoftDeleted, Created
  <2> QED
    BY <1>3, <2>1 DEF SaveBulkAttendance
<1>4. ASSUME NEW r \in Requests, WriteMark(r)
      PROVE  DOMAIN record' = Pupils /\ RecordKept
  <2>1. \/ UNCHANGED record
        \/ record' = [record EXCEPT ![Head(req[r].todo)] =
                        Marked(record[Head(req[r].todo)], req[r].status)]
    BY <1>4 DEF WriteMark
  <2>2. CASE Head(req[r].todo) \in Pupils
    BY <1>1, <1>2, <2>1, <2>2
  <2>3. CASE Head(req[r].todo) \notin Pupils
    BY <2>1, <2>3
  <2> QED
    BY <2>2, <2>3
<1>5. \/ UNCHANGED record
      \/ \E r \in Requests : WriteMark(r)
      \/ \E r \in Requests, sheet \in Sheets, status \in Marks :
           SaveBulkAttendance(r, sheet, status)
  BY Zenon DEF AttendanceNext, AttendanceHandler, ChangeEnrolment, CreateSession,
     MarkAttendance, ReadEnrolments, CloseSession, SaveAttendanceLog,
     WriteLog, LockAttendanceLog, AttendanceAbandon, sheets
<1> QED
  BY <1>1, <1>3, <1>4, <1>5

OrgTables == DOMAIN department = Departments /\ DOMAIN staffRole = StaffRoles

OrgKept ==
  /\ \A d \in Departments :
       department[d] = "deleted" => department'[d] = "deleted"
  /\ \A x \in StaffRoles :
       staffRole[x] = "deleted" => staffRole'[x] = "deleted"

LEMMA OrgStep ==
  ASSUME OrgTables, OrgNext
  PROVE  OrgTables' /\ OrgKept
<1> USE DEF OrgTables, OrgKept, departmentRows, roleRows
<1>1. ASSUME UNCHANGED <<department, staffRole>>
      PROVE  OrgTables' /\ OrgKept
  BY <1>1
<1>2. ASSUME NEW r \in Requests, NEW d \in Departments,
             DeleteDepartment(r, d)
      PROVE  OrgTables' /\ OrgKept
  BY <1>2 DEF DeleteDepartment
<1>3. ASSUME NEW r \in Requests, NEW x \in StaffRoles,
             DeleteEmployeeRole(r, x)
      PROVE  OrgTables' /\ OrgKept
  BY <1>3 DEF DeleteEmployeeRole
<1>4. ASSUME NEW r \in Requests, InsertDepartment(r) \/ InsertEmployeeRole(r)
      PROVE  OrgTables' /\ OrgKept
  BY <1>4 DEF InsertDepartment, InsertEmployeeRole
<1>5. ASSUME NEW r \in Requests, WriteImport(r)
      PROVE  OrgTables' /\ OrgKept
  BY <1>5 DEF WriteImport
<1>6. ASSUME NEW r \in Requests, WriteDepartment(r) \/ WriteEmployeeRole(r)
      PROVE  OrgTables' /\ OrgKept
  BY <1>6 DEF WriteDepartment, WriteEmployeeRole
<1>7. \E r \in Requests :
        \/ UNCHANGED <<departmentRows, roleRows>>
        \/ \E d \in Departments : DeleteDepartment(r, d)
        \/ \E x \in StaffRoles : DeleteEmployeeRole(r, x)
        \/ InsertDepartment(r) \/ InsertEmployeeRole(r)
        \/ WriteDepartment(r) \/ WriteEmployeeRole(r)
        \/ WriteImport(r)
  BY Zenon DEF OrgNext, OrgHandler, CreateDepartment, UpdateDepartment,
     CreateEmployeeRole, UpdateEmployeeRole, ImportOrg, OrgAbandon
<1>8. PICK r \in Requests :
        \/ UNCHANGED <<departmentRows, roleRows>>
        \/ \E d \in Departments : DeleteDepartment(r, d)
        \/ \E x \in StaffRoles : DeleteEmployeeRole(r, x)
        \/ InsertDepartment(r) \/ InsertEmployeeRole(r)
        \/ WriteDepartment(r) \/ WriteEmployeeRole(r)
        \/ WriteImport(r)
  BY <1>7
<1>9. CASE UNCHANGED <<departmentRows, roleRows>>
  BY <1>1, <1>9
<1> QED
  BY <1>2, <1>3, <1>4, <1>5, <1>6, <1>8, <1>9

-----------------------------------------------------------------------------
(***************************************************************************)
(* Attendance: what RegisterStands says of a handler that is not overtaken *)
(* is kept by its steps.                                                   *)
(***************************************************************************)
Unsettled(q) == RegisterStands(q) /\ (q.op = "mark" => q.todo # <<>>)

AttendanceInv(r) == r \in Requests /\ AttendanceTypeOK /\ Unsettled(req[r])

\* What SettledAttendanceIsFrozen asks of a step of r.
SettledKept(r) ==
  /\ \A p \in Pupils :
       req[r].op = "mark" /\ record'[p] # record[p] =>
         session = "OPEN" /\ p \in enrolled
  /\ log # Null /\ log.locked => log'.blob = log.blob

LEMMA SheetsAreSequences ==
  ASSUME NEW sheet \in Sheets
  PROVE  sheet \in Seq(Pupils) /\ sheet # <<>>
<1>1. PICK n \in 1 .. MaxSheet : sheet \in [1 .. n -> Pupils]
  BY DEF Sheets
<1> QED
  BY <1>1, MaxSheetAssumption

LEMMA MarkFields ==
  ASSUME AttendanceTypeOK, NEW r \in Requests, req[r].op = "mark"
  PROVE  /\ req[r] \in MarkReq
         /\ req[r].todo \in Seq(Pupils) /\ req[r].status \in Marks
         /\ req[r].at \in {"enrolments", "write"}
  BY DEF AttendanceTypeOK, AttendanceRequest, MarkReq, SaveLogReq, Idle

LEMMA MarkUpdates ==
  ASSUME NEW q \in MarkReq
  PROVE  /\ \A e : [q EXCEPT !.at = "write", !.enrolled = e] =
                     [op |-> "mark", at |-> "write", todo |-> q.todo,
                      status |-> q.status, enrolled |-> e]
         /\ \A todo : [q EXCEPT !.todo = todo] =
                        [op |-> "mark", at |-> q.at, todo |-> todo,
                         status |-> q.status, enrolled |-> q.enrolled]
<1>1. /\ q.op = "mark"
      /\ DOMAIN q = {"op", "at", "todo", "status", "enrolled"}
      /\ q = [x \in DOMAIN q |-> q[x]]
  BY DEF MarkReq
<1>2. \A e : [q EXCEPT !.at = "write", !.enrolled = e] =
               [op |-> "mark", at |-> "write", todo |-> q.todo,
                status |-> q.status, enrolled |-> e]
  <2> TAKE e
  <2> DEFINE f == [q EXCEPT !.at = "write", !.enrolled = e]
  <2>1. /\ DOMAIN f = {"op", "at", "todo", "status", "enrolled"}
        /\ f.op = "mark" /\ f.at = "write" /\ f.todo = q.todo
        /\ f.status = q.status /\ f.enrolled = e
        /\ f = [x \in DOMAIN f |-> f[x]]
    BY <1>1
  <2> HIDE DEF f
  <2>2. f = [op |-> "mark", at |-> "write", todo |-> q.todo,
             status |-> q.status, enrolled |-> e]
    BY <2>1
  <2> QED
    BY <2>2 DEF f
<1>3. \A todo : [q EXCEPT !.todo = todo] =
                  [op |-> "mark", at |-> q.at, todo |-> todo,
                   status |-> q.status, enrolled |-> q.enrolled]
  BY <1>1
<1> QED
  BY <1>2, <1>3

\* The tables stay typed and the handler goes on to a state that is
\* still unsettled.
LEMMA UnsettledOn ==
  ASSUME NEW r \in Requests, AttendanceTypeOK,
         NEW state \in AttendanceRequest, Continue(r, state),
         Unsettled(state)',
         enrolled' \subseteq Pupils, session' \in {"none", "OPEN", "CLOSED"},
         record' \in [Pupils -> RecordRow], log' \in LogRow \cup {Null}
  PROVE  AttendanceInv(r)'
<1>1. req' \in [Requests -> AttendanceRequest] /\ req'[r] = state
  BY DEF AttendanceTypeOK, Continue
<1>2. Unsettled(req[r])'
  BY <1>1 DEF Unsettled, RegisterStands
<1> QED
  BY <1>1, <1>2 DEF AttendanceInv, AttendanceTypeOK

LEMMA AttendanceInvStep ==
  ASSUME NEW r \in Requests, AttendanceInv(r), AttendanceHandler(r)
  PROVE  AttendanceInv(r)' /\ SettledKept(r)
<1>0. /\ AttendanceTypeOK /\ Unsettled(req[r]) /\ Idle \in AttendanceRequest
      /\ Unsettled(Idle)'
      /\ enrolled \subseteq Pupils /\ session \in {"none", "OPEN", "CLOSED"}
      /\ record \in [Pupils -> RecordRow] /\ log \in LogRow \cup {Null}
      /\ \A q \in Requests : req[q] \in AttendanceRequest
  BY DEF AttendanceInv, AttendanceTypeOK, AttendanceRequest, Unsettled, RegisterStands, Idle
\* A handler that is a single step: no other is at work.
<1>1. ASSUME req[r] = Idle, UNCHANGED req,
             enrolled' \subseteq Pupils,
             session' \in {"none", "OPEN", "CLOSED"},
             record' \in [Pupils -> RecordRow], log' \in LogRow \cup {Null},
             log # Null => log'.blob = log.blob
      PROVE  AttendanceInv(r)' /\ SettledKept(r)
  <2>1. Unsettled(req[r])'
    BY <1>1 DEF Unsettled, RegisterStands, Idle
  <2>2. AttendanceInv(r)'
    BY <1>0, <1>1, <2>1 DEF AttendanceInv, AttendanceTypeOK
  <2> QED
    BY <1>1, <2>2 DEF SettledKept, Idle
\* A step that writes nothing.
<1>2. ASSUME UNCHANGED <<enrolled, sheets>>, NEW state \in AttendanceRequest,
             Continue(r, state), Unsettled(state)
      PROVE  AttendanceInv(r)' /\ SettledKept(r)
  <2>1. Unsettled(state)'
    BY <1>2 DEF Unsettled, RegisterStands, sheets
  <2> QED
    BY <1>0, <1>2, <2>1, UnsettledOn DEF sheets, SettledKept
<1>3. ASSUME NEW p \in Pupils, ChangeEnrolment(r, p)
      PROVE  AttendanceInv(r)' /\ SettledKept(r)
  BY <1>0, <1>1, <1>3 DEF ChangeEnrolment, sheets
<1>4. CASE CreateSession(r) \/ CloseSession(r)
  BY <1>0, <1>1, <1>4 DEF CreateSession, CloseSession
<1>5. ASSUME NEW sheet \in Sheets, NEW status \in Marks,
             SaveBulkAttendance(r, sheet, status)
      PROVE  AttendanceInv(r)' /\ SettledKept(r)
  <2>1. \A p \in Pupils : record'[p] \in RecordRow
    BY <1>0, <1>5 DEF SaveBulkAttendance, SoftDeleted, Created, RecordRow,
       Presence
  <2>2. record' \in [Pupils -> RecordRow]
    BY <1>5, <2>1 DEF SaveBulkAttendance
  <2> QED
    BY <1>0, <1>1, <1>5, <2>2 DEF SaveBulkAttendance
<1>6. ASSUME NEW lock \in BOOLEAN, LockAttendanceLog(r, lock)
      PROVE  AttendanceInv(r)' /\ SettledKept(r)
  <2>1. log \in LogRow
    BY <1>0, <1>6 DEF LockAttendanceLog
  <2>2. log' = [locked |-> lock, blob |-> log.blob] /\ log.blob \in Blobs
    BY <1>6, <2>1 DEF LockAttendanceLog, LogRow
  <2>3. log' \in LogRow /\ log'.blob = log.blob
    BY <2>2 DEF LogRow
  <2> QED
    BY <1>0, <1>1, <1>6, <2>3 DEF LockAttendanceLog
<1>7. ASSUME NEW sheet \in Sheets, NEW status \in Marks,
             MarkAttendance(r, sheet, status)
      PROVE  AttendanceInv(r)' /\ SettledKept(r)
  <2>1. sheet \in Seq(Pupils) /\ sheet # <<>>
    BY SheetsAreSequences
  <2> QED
    BY <1>2, <1>7, <2>1
    DEF MarkAttendance, Unsettled, RegisterStands, AttendanceRequest, MarkReq
<1>8. CASE ReadEnrolments(r)
  <2>1. PICK state \in AttendanceRequest :
          /\ state = [op |-> "mark", at |-> "write", todo |-> req[r].todo,
                      status |-> req[r].status, enrolled |-> enrolled]
          /\ Continue(r, state)
    <3>1. req[r].op = "mark"
      BY <1>8 DEF ReadEnrolments
    <3>2. [req[r] EXCEPT !.at = "write", !.enrolled = enrolled] =
            [op |-> "mark", at |-> "write", todo |-> req[r].todo,
             status |-> req[r].status, enrolled |-> enrolled]
      BY <1>0, <3>1, MarkFields, MarkUpdates
    <3>3. [op |-> "mark", at |-> "write", todo |-> req[r].todo,
           status |-> req[r].status, enrolled |-> enrolled]
            \in AttendanceRequest
      BY <1>0, <3>1, MarkFields DEF AttendanceRequest, MarkReq
    <3> QED
      BY <1>8, <3>2, <3>3 DEF ReadEnrolments
  <2>2. Unsettled(state)
    BY <1>0, <1>8, <2>1 DEF ReadEnrolments, Unsettled, RegisterStands
  <2> QED
    BY <1>2, <1>8, <2>1, <2>2 DEF ReadEnrolments
<1>9. ASSUME NEW row \in LogRow, SaveAttendanceLog(r, row)
      PROVE  AttendanceInv(r)' /\ SettledKept(r)
  BY <1>2, <1>9
  DEF SaveAttendanceLog, Unsettled, RegisterStands, AttendanceRequest, SaveLogReq
<1>10. CASE AttendanceAbandon(r)
  BY <1>0, <1>2, <1>10 DEF AttendanceAbandon, Abandon, Reply, Unsettled, RegisterStands, Idle
<1>11. CASE WriteLog(r)
  <2>1. req[r].row \in LogRow /\ req[r].found \in BOOLEAN
    BY <1>0, <1>11 DEF WriteLog, AttendanceRequest, MarkReq, SaveLogReq, Idle
  <2>2. log' \in LogRow \cup {Null}
    BY <1>0, <1>11, <2>1 DEF WriteLog
  <2>3. SettledKept(r)
    BY <1>0, <1>11 DEF WriteLog, Unsettled, RegisterStands, SettledKept
  <2> QED
    BY <1>0, <1>11, <2>2, <2>3, UnsettledOn DEF WriteLog, Reply
<1>12. CASE WriteMark(r)
  <2> DEFINE p == Head(req[r].todo)
             rest == Tail(req[r].todo)
  <2>1. /\ req[r].op = "mark" /\ req[r].at = "write"
        /\ session = "OPEN" /\ req[r].enrolled = enrolled
        /\ p \in Pupils /\ rest \in Seq(Pupils) /\ req[r].status \in Marks
    BY <1>0, <1>12, MarkFields DEF WriteMark, Unsettled, RegisterStands
  <2>2. UNCHANGED <<enrolled, session, log>>
    BY <1>12 DEF WriteMark
  <2>3. \/ p \in enrolled /\ record' = [record EXCEPT ![p] = Marked(@, req[r].status)]
        \/ UNCHANGED record
    BY <1>12, <2>1 DEF WriteMark
  <2>4. record' \in [Pupils -> RecordRow]
    BY <1>0, <2>1, <2>3 DEF Marked, RecordRow, Presence
  <2>5. SettledKept(r)
    BY <1>0, <2>1, <2>2, <2>3 DEF SettledKept
  <2>6. CASE Reply(r)
    BY <1>0, <2>2, <2>4, <2>5, <2>6, UnsettledOn DEF Reply
  <2>7. CASE rest # <<>> /\ Continue(r, [req[r] EXCEPT !.todo = rest])
    <3>1. PICK state \in AttendanceRequest :
            /\ state = [op |-> "mark", at |-> "write", todo |-> rest,
                        status |-> req[r].status, enrolled |-> enrolled]
            /\ Continue(r, state)
      <4>1. [req[r] EXCEPT !.todo = rest] =
              [op |-> "mark", at |-> "write", todo |-> rest,
               status |-> req[r].status, enrolled |-> enrolled]
        <5>1. req[r] \in MarkReq /\ req[r].at = "write"
          BY <1>0, <1>12, MarkFields DEF WriteMark
        <5>2. [req[r] EXCEPT !.todo = rest] =
                [op |-> "mark", at |-> req[r].at, todo |-> rest,
                 status |-> req[r].status, enrolled |-> req[r].enrolled]
          BY <5>1, MarkUpdates
        <5> QED
          BY <2>1, <5>1, <5>2
      <4>2. [op |-> "mark", at |-> "write", todo |-> rest,
             status |-> req[r].status, enrolled |-> enrolled]
              \in AttendanceRequest
        BY <1>0, <2>1 DEF AttendanceRequest, MarkReq
      <4> QED
        BY <2>7, <4>1, <4>2
    <3>2. Unsettled(state)'
      BY <2>1, <2>2, <2>7, <3>1 DEF Unsettled, RegisterStands
    <3> QED
      BY <1>0, <2>2, <2>4, <2>5, <3>1, <3>2, UnsettledOn
  <2> QED
    BY <1>12, <2>6, <2>7 DEF WriteMark
<1> QED
  BY <1>3, <1>4, <1>5, <1>6, <1>7, <1>8, <1>9, <1>10, <1>11, <1>12, Zenon
  DEF AttendanceInv, AttendanceHandler

-----------------------------------------------------------------------------
(***************************************************************************)
(* TeachingPosts: inserts find no row, and the other writes a live one.    *)
(***************************************************************************)
PostTables == DOMAIN classSection = Posts /\ DOMAIN classTeacher = Posts

PostsKept ==
  \A p \in Posts :
    /\ classSection[p].state = "deleted" =>
         classSection'[p] = classSection[p]
    /\ classTeacher[p].state = "deleted" =>
         classTeacher'[p] = classTeacher[p]

LEMMA PostsStep ==
  ASSUME PostTables, PostsNext
  PROVE  PostTables' /\ PostsKept
<1> USE DEF PostTables, PostsKept, LiveAt, NoRow
<1>1. ASSUME UNCHANGED <<classSection, classTeacher>>
      PROVE  PostTables' /\ PostsKept
  BY <1>1
<1>2. ASSUME NEW r \in Requests, InsertClassSection(r)
      PROVE  PostTables' /\ PostsKept
  BY <1>2 DEF InsertClassSection
<1>3. ASSUME NEW r \in Requests, InsertClassTeacher(r)
      PROVE  PostTables' /\ PostsKept
  BY <1>3 DEF InsertClassTeacher
<1>4. ASSUME NEW r \in Requests, WriteClassTeacher(r)
      PROVE  PostTables' /\ PostsKept
  BY <1>4 DEF WriteClassTeacher
<1>5. ASSUME NEW r \in Requests, NEW p \in Posts, NEW t \in Titles,
             UpdateClassSection(r, p, t)
      PROVE  PostTables' /\ PostsKept
  BY <1>5 DEF UpdateClassSection
<1>6. ASSUME NEW r \in Requests, NEW p \in Posts,
             DeleteClassSection(r, p) \/ DeleteClassTeacher(r, p)
      PROVE  PostTables' /\ PostsKept
  BY <1>6 DEF DeleteClassSection, DeleteClassTeacher
<1>7. \E r \in Requests :
        \/ UNCHANGED <<classSection, classTeacher>>
        \/ InsertClassSection(r) \/ InsertClassTeacher(r)
        \/ WriteClassTeacher(r)
        \/ \E p \in Posts, t \in Titles : UpdateClassSection(r, p, t)
        \/ \E p \in Posts :
             DeleteClassSection(r, p) \/ DeleteClassTeacher(r, p)
  BY DEF PostsNext, PostsHandler, ClosePost, DeleteTeacher, DeleteSubject,
     CreateClassSection, AssignClassTeacher, UpdateClassTeacher,
     AssignTeacherSubjects, LinkSubject, RemoveTeacherSubject,
     UpdateTeacher, ReplaceSubjects, PostsAbandon, postRows
<1> QED
  BY <1>1, <1>2, <1>3, <1>4, <1>5, <1>6, <1>7

-----------------------------------------------------------------------------
(***************************************************************************)
(* TeachingPosts: what PostsStand says of a handler that is not overtaken  *)
(* is kept by its steps.                                                   *)
(***************************************************************************)
PostsInv(r) == r \in Requests /\ PostsTypeOK /\ PostsStand(req[r])

\* What PostsAreFounded asks of a step.
TablesFounded ==
  /\ \A p \in Posts :
       /\ classSection[p] = NoRow /\ classSection'[p] # NoRow =>
            p \notin gone.posts
       /\ classTeacher[p] = NoRow /\ classTeacher'[p] # NoRow =>
            p \notin gone.posts
       /\ LiveAt(classTeacher', p) /\ classTeacher'[p] # classTeacher[p] =>
            classTeacher'[p].teacher \notin gone.staff
  /\ \A link \in teaches' \ teaches :
       link[1] \notin gone.staff /\ link[2] \notin gone.courses

CallsComplete(r) ==
  \A c \in Courses : LinkSubject(r, c) /\ req'[r] = Idle =>
    {req[r].teacher} \X req[r].subjects \subseteq teaches'

LEMMA PostsFields ==
  ASSUME PostsTypeOK, NEW r \in Requests
  PROVE  /\ req[r].op \in {"section", "assign", "reassign"} =>
              req[r].post \in Posts
         /\ req[r].op = "section" => req[r].title \in Titles
         /\ req[r].op \in {"assign", "reassign", "replace", "link"} =>
              req[r].teacher \in Staff
         /\ req[r].op \in {"replace", "link"} =>
              req[r].subjects \subseteq Courses
         /\ req[r].op = "link" =>
              /\ req[r].todo \subseteq Courses
              /\ \A todo \in SUBSET Courses :
                   /\ [req[r] EXCEPT !.todo = todo] \in PostReq
                   /\ [req[r] EXCEPT !.todo = todo] =
                        [op |-> "link", teacher |-> req[r].teacher,
                         subjects |-> req[r].subjects, todo |-> todo]
<1>1. req[r] \in {Idle} \cup PostReq
  BY DEF PostsTypeOK
<1> QED
  BY <1>1 DEF PostReq, Idle

LEMMA SlotType ==
  ASSUME NEW r \in Requests, PostsTypeOK,
         NEW state \in {Idle} \cup PostReq, Continue(r, state)
  PROVE  /\ req' \in [Requests -> {Idle} \cup PostReq]
         /\ req'[r] = state
         /\ \A q \in Requests : q # r => req'[q] = req[q]
  BY DEF PostsTypeOK, Continue

\* The last link of a call completes it, whatever else its step is taken for.
LEMMA LinksComplete ==
  ASSUME NEW r \in Requests, PostsInv(r)
  PROVE  CallsComplete(r)
<1>1. ASSUME NEW c \in Courses, LinkSubject(r, c),
             req'[r] = Idle
      PROVE  {req[r].teacher} \X req[r].subjects \subseteq teaches'
  <2>1. req[r].op = "link"
    BY <1>1 DEF LinkSubject
  <2>2. req[r].todo = {c}
    <3>1. SUFFICES ASSUME req[r].todo # {c} PROVE FALSE
      OBVIOUS
    <3>2. Continue(r, [req[r] EXCEPT !.todo = @ \ {c}])
      BY <1>1, <3>1 DEF LinkSubject
    <3>3. req'[r] = [op |-> "link", teacher |-> req[r].teacher,
                     subjects |-> req[r].subjects,
                     todo |-> req[r].todo \ {c}]
      BY <2>1, <3>2, PostsFields DEF PostsInv, PostsTypeOK, Continue
    <3> QED
      BY <1>1, <3>3 DEF Idle
  <2>3. {req[r].teacher} \X (req[r].subjects \ {c}) \subseteq teaches
    BY <2>1, <2>2 DEF PostsInv, PostsStand
  <2>4. teaches' = teaches \cup {<<req[r].teacher, c>>}
    BY <1>1 DEF LinkSubject
  <2> QED
    BY <2>3, <2>4
<1> QED
  BY <1>1 DEF CallsComplete

\* The handler goes on to a state that stands.
LEMMA StandsOn ==
  ASSUME NEW r \in Requests, PostsTypeOK,
         NEW state \in {Idle} \cup PostReq, Continue(r, state),
         PostsStand(state)',
         gone' \in [posts : SUBSET Posts, staff : SUBSET Staff,
                    courses : SUBSET Courses],
         classSection' \in [Posts -> SectionRow],
         classTeacher' \in [Posts -> TeacherRow],
         teaches' \subseteq Staff \X Courses
  PROVE  PostsInv(r)'
<1>1. req' \in [Requests -> {Idle} \cup PostReq] /\ req'[r] = state
  BY SlotType
<1>2. PostsStand(req[r])'
  BY <1>1 DEF PostsStand
<1> QED
  BY <1>1, <1>2 DEF PostsInv, PostsTypeOK

LEMMA IdleStands == PostsStand(Idle) /\ PostsStand(Idle)'
  BY DEF PostsStand, Idle

LEMMA PostsInvStep ==
  ASSUME NEW r \in Requests, PostsInv(r), PostsHandler(r)
  PROVE  PostsInv(r)' /\ TablesFounded
<1> USE DEF PostsTypeOK
<1>0. /\ PostsTypeOK /\ PostsStand(req[r]) /\ Idle \in {Idle} \cup PostReq
      /\ \A p \in Posts : classSection[p] \in SectionRow
      /\ \A p \in Posts : classTeacher[p] \in TeacherRow
  BY DEF PostsInv
<1>1. ASSUME \/ \E p \in Posts : ClosePost(r, p)
             \/ \E s \in Staff : DeleteTeacher(r, s)
             \/ \E c \in Courses : DeleteSubject(r, c)
      PROVE  PostsInv(r)' /\ TablesFounded
  <2>1. /\ gone' \in [posts : SUBSET Posts, staff : SUBSET Staff,
                     courses : SUBSET Courses]
        /\ UNCHANGED <<classSection, classTeacher, teaches, req>>
        /\ req[r] = Idle
    BY <1>0, <1>1 DEF ClosePost, DeleteTeacher, DeleteSubject
  <2>2. PostsStand(req[r])'
    BY <2>1 DEF PostsStand, Idle
  <2> QED
    BY <1>0, <2>1, <2>2 DEF PostsInv, TablesFounded
<1>2. ASSUME UNCHANGED postRows, NEW state \in {Idle} \cup PostReq,
             Continue(r, state), PostsStand(state)
      PROVE  PostsInv(r)' /\ TablesFounded
  <2>1. PostsStand(state)'
    BY <1>2 DEF PostsStand, postRows
  <2> QED
    BY <1>0, <1>2, <2>1, StandsOn DEF postRows, TablesFounded
<1>3. ASSUME NEW p \in Posts, NEW t \in Titles, CreateClassSection(r, p, t)
      PROVE  PostsInv(r)' /\ TablesFounded
  BY <1>2, <1>3 DEF CreateClassSection, PostsStand, PostReq
<1>4. ASSUME NEW p \in Posts, NEW s \in Staff,
             AssignClassTeacher(r, p, s) \/ UpdateClassTeacher(r, p, s)
      PROVE  PostsInv(r)' /\ TablesFounded
  BY <1>2, <1>4 DEF AssignClassTeacher, UpdateClassTeacher, PostsStand, PostReq
<1>5. ASSUME NEW s \in Staff, NEW subjects \in SUBSET Courses,
             AssignTeacherSubjects(r, s, subjects)
      PROVE  PostsInv(r)' /\ TablesFounded
  BY <1>2, <1>5 DEF AssignTeacherSubjects, PostsStand, PostReq
<1>6. ASSUME NEW s \in Staff, NEW subjects \in SUBSET Courses,
             UpdateTeacher(r, s, subjects)
      PROVE  PostsInv(r)' /\ TablesFounded
  BY <1>2, <1>6 DEF UpdateTeacher, PostsStand, PostReq
<1>7. CASE PostsAbandon(r)
  BY <1>2, <1>7, IdleStands DEF PostsAbandon, Abandon, Reply
<1>8. ASSUME UNCHANGED gone, req[r] = Idle, UNCHANGED req,
             classSection' \in [Posts -> SectionRow],
             classTeacher' \in [Posts -> TeacherRow],
             teaches' \subseteq teaches
      PROVE  PostsInv(r)'
  BY <1>0, <1>8 DEF PostsInv, PostsStand, Idle
<1>9. ASSUME NEW p \in Posts, NEW t \in Titles, UpdateClassSection(r, p, t)
      PROVE  PostsInv(r)' /\ TablesFounded
  <2>1. classSection' \in [Posts -> SectionRow] /\ TablesFounded
    BY <1>0, <1>9 DEF UpdateClassSection, LiveAt, SectionRow, NoRow,
       TablesFounded
  <2> QED
    BY <1>0, <1>8, <1>9, <2>1 DEF UpdateClassSection
<1>10. ASSUME NEW p \in Posts, DeleteClassSection(r, p)
       PROVE  PostsInv(r)' /\ TablesFounded
  <2>1. classSection' \in [Posts -> SectionRow] /\ TablesFounded
    BY <1>0, <1>10 DEF DeleteClassSection, LiveAt, SectionRow, NoRow,
       TablesFounded
  <2> QED
    BY <1>0, <1>8, <1>10, <2>1 DEF DeleteClassSection
<1>11. ASSUME NEW p \in Posts, DeleteClassTeacher(r, p)
       PROVE  PostsInv(r)' /\ TablesFounded
  <2>1. classTeacher' \in [Posts -> TeacherRow] /\ TablesFounded
    BY <1>0, <1>11 DEF DeleteClassTeacher, LiveAt, TeacherRow, NoRow,
       TablesFounded
  <2> QED
    BY <1>0, <1>8, <1>11, <2>1 DEF DeleteClassTeacher
<1>12. ASSUME NEW s \in Staff, NEW c \in Courses,
              RemoveTeacherSubject(r, s, c)
       PROVE  PostsInv(r)' /\ TablesFounded
  BY <1>0, <1>8, <1>12 DEF RemoveTeacherSubject, TablesFounded
<1>13. CASE InsertClassSection(r)
  <2>1. classSection' \in [Posts -> SectionRow] /\ TablesFounded
    BY <1>0, <1>13, PostsFields
    DEF InsertClassSection, PostsStand, LiveAt, SectionRow, NoRow, TablesFounded
  <2> QED
    BY <1>0, <1>13, <2>1, StandsOn, IdleStands DEF InsertClassSection, Reply
<1>14. CASE InsertClassTeacher(r)
  <2>1. classTeacher' \in [Posts -> TeacherRow] /\ TablesFounded
    BY <1>0, <1>14, PostsFields
    DEF InsertClassTeacher, PostsStand, LiveAt, TeacherRow, NoRow, TablesFounded
  <2> QED
    BY <1>0, <1>14, <2>1, StandsOn, IdleStands DEF InsertClassTeacher, Reply
<1>15. CASE WriteClassTeacher(r)
  <2>1. classTeacher' \in [Posts -> TeacherRow] /\ TablesFounded
    BY <1>0, <1>15, PostsFields
    DEF WriteClassTeacher, PostsStand, LiveAt, TeacherRow, NoRow, TablesFounded
  <2> QED
    BY <1>0, <1>15, <2>1, StandsOn, IdleStands DEF WriteClassTeacher, Reply
<1>16. CASE ReplaceSubjects(r)
  <2>1. teaches' \subseteq Staff \X Courses /\ TablesFounded
    BY <1>0, <1>16, PostsFields DEF ReplaceSubjects, PostsStand, TablesFounded
  <2> QED
    BY <1>0, <1>16, <2>1, StandsOn, IdleStands DEF ReplaceSubjects, Reply
<1>17. ASSUME NEW c \in Courses, LinkSubject(r, c)
       PROVE  PostsInv(r)' /\ TablesFounded
  <2> DEFINE rest == [req[r] EXCEPT !.todo = @ \ {c}]
  <2>1. /\ req[r].op = "link" /\ c \in req[r].todo
        /\ req[r].teacher \in Staff /\ req[r].subjects \subseteq Courses
        /\ req[r].todo \subseteq req[r].subjects
        /\ req[r].teacher \notin gone.staff
        /\ req[r].subjects \cap gone.courses = {}
        /\ {req[r].teacher} \X (req[r].subjects \ req[r].todo) \subseteq teaches
    BY <1>0, <1>17, PostsFields DEF LinkSubject, PostsStand
  <2>2. /\ teaches' = teaches \cup {<<req[r].teacher, c>>}
        /\ UNCHANGED <<gone, classSection, classTeacher>>
    BY <1>17 DEF LinkSubject
  <2>3. teaches' \subseteq Staff \X Courses /\ TablesFounded
    BY <1>0, <2>1, <2>2 DEF TablesFounded
  <2>4. CASE Reply(r)
    BY <1>0, <2>2, <2>3, <2>4, StandsOn, IdleStands DEF Reply
  <2>5. CASE Continue(r, rest)
    <3>1. PICK state \in PostReq :
            /\ state = [op |-> "link", teacher |-> req[r].teacher,
                        subjects |-> req[r].subjects,
                        todo |-> req[r].todo \ {c}]
            /\ Continue(r, state)
      BY <1>0, <2>1, <2>5, PostsFields
    <3>2. {state.teacher} \X (state.subjects \ state.todo) \subseteq teaches'
      BY <2>1, <2>2, <3>1
    <3>3. PostsStand(state)'
      BY <2>1, <2>2, <3>1, <3>2 DEF PostsStand
    <3> QED
      BY <1>0, <2>2, <2>3, <3>1, <3>3, StandsOn
  <2> QED
    BY <1>17, <2>4, <2>5 DEF LinkSubject
<1> QED
  BY <1>1, <1>3, <1>4, <1>5, <1>6, <1>7, <1>9, <1>10, <1>11, <1>12, <1>13,
     <1>14, <1>15, <1>16, <1>17, Zenon DEF PostsInv, PostsHandler

\* Whatever handlers do that are not overtaken, appointments, section names
\* and subjects are given between rows that are there, and all the subjects of
\* a call that ends well.
LEMMA FoundedPostsByAnyHandler ==
  ASSUME PostsTypeOK
  PROVE  PostsAreFounded
<1> SUFFICES ASSUME NEW r \in Requests, PostsHandler(r), PostsStand(req[r])
             PROVE  PostsStand(req[r])' /\ TablesFounded /\ CallsComplete(r)
  BY DEF PostsAreFounded, TablesFounded, CallsComplete
<1>1. PostsInv(r)
  BY DEF PostsInv
<1>2. PostsInv(r)' /\ TablesFounded /\ CallsComplete(r)
  BY <1>1, PostsInvStep, LinksComplete
<1> QED
  BY <1>2 DEF PostsInv

-----------------------------------------------------------------------------
(***************************************************************************)
(* RouteMaster: new rows get ids that are free, and a save touches only    *)
(* the live rows of its route.                                             *)
(***************************************************************************)
MasterTables ==
  /\ DOMAIN vehicle = VehicleNos
  /\ DOMAIN stop = StopNames
  /\ DOMAIN route = RouteCodes
  /\ DOMAIN routeTrip = 1 .. MaxTrips
  /\ DOMAIN routeStop = 1 .. MaxStops

NamesKept ==
  /\ \A v \in VehicleNos :
       vehicle[v] = "deleted" => vehicle'[v] = "deleted"
  /\ \A s \in StopNames : stop[s] = "deleted" => stop'[s] = "deleted"
  /\ \A c \in RouteCodes : route[c] = "deleted" => route'[c] = "deleted"

\* The rows a table has that are deleted are the same in another.
DeletedIn(before, after) ==
  /\ DOMAIN after = DOMAIN before
  /\ \A x \in DOMAIN before :
       before[x] # Null /\ ~before[x].live => after[x] = before[x]

CopyKept ==
  \A c \in RouteCodes :
    schoolCopy.routes[c] # Null => schoolCopy'.routes[c] = schoolCopy.routes[c]

MasterKept ==
  /\ NamesKept
  /\ CopyKept
  /\ \A t \in 1 .. MaxTrips :
       routeTrip[t] # Null /\ ~routeTrip[t].live =>
         routeTrip'[t] = routeTrip[t]
  /\ \A s \in 1 .. MaxStops :
       routeStop[s] # Null /\ ~routeStop[s].live =>
         routeStop'[s] = routeStop[s]

LEMMA AddedKeeps ==
  ASSUME NEW table, NEW rows
  PROVE  /\ DOMAIN Added(table, rows) = DOMAIN table
         /\ \A x \in DOMAIN table :
              table[x] # Null => Added(table, rows)[x] = table[x]
BY DEF Added

LEMMA AddedDeletedIn ==
  ASSUME NEW table, NEW rows
  PROVE  DeletedIn(table, Added(table, rows))
BY AddedKeeps DEF DeletedIn

LEMMA SavedDeletedIn ==
  ASSUME NEW table, NEW c, NEW form, NEW n
  PROVE  DeletedIn(table, Saved(table, c, form, n))
<1> DEFINE own == Own(table, c)
           Sent(x, m) == {i \in 1 .. m : form[i].id = x}
           new == {i \in 1 .. n : form[i].id \notin own}
           edited == [x \in DOMAIN table |->
                        CASE x \in own /\ Sent(x, Len(form)) = {} ->
                               [table[x] EXCEPT !.live = FALSE]
                          [] x \in own /\ Sent(x, n) # {} ->
                               [table[x] EXCEPT !.data =
                                  form[CHOOSE i \in Sent(x, n) : TRUE].data]
                          [] OTHER -> table[x]]
           rows == [i \in new |-> [line |-> c, data |-> form[i].data]]
<1>1. Saved(table, c, form, n) = Added(edited, rows)
  BY DEF Saved
<1>2. \A x \in DOMAIN table : ~table[x].live => x \notin own
  BY DEF Own
<1>3. /\ DOMAIN edited = DOMAIN table
      /\ \A x \in DOMAIN table : x \notin own => edited[x] = table[x]
  OBVIOUS
<1> HIDE DEF own, edited, rows
<1> QED
  BY <1>1, <1>2, <1>3, AddedKeeps DEF DeletedIn

LEMMA ClearedDeletedIn ==
  ASSUME NEW table, NEW c
  PROVE  DeletedIn(table, Cleared(table, c))
BY DEF Cleared, Own, DeletedIn

LEMMA SameDeletedIn == ASSUME NEW table PROVE DeletedIn(table, table)
BY DEF DeletedIn

LEMMA MasterStep ==
  ASSUME MasterTables, MasterNext
  PROVE  MasterTables' /\ MasterKept
<1> DEFINE Goal == /\ NamesKept /\ CopyKept
                   /\ DeletedIn(routeTrip, routeTrip')
                   /\ DeletedIn(routeStop, routeStop')
                   /\ DOMAIN vehicle' = VehicleNos
                   /\ DOMAIN stop' = StopNames
                   /\ DOMAIN route' = RouteCodes
<1>1. SUFFICES Goal
  BY DEF MasterTables, MasterKept, DeletedIn
<1> USE DEF MasterTables, NamesKept, CopyKept, named, nested, masterRows
<1>2. ASSUME UNCHANGED masterRows
      PROVE  Goal
  BY <1>2, SameDeletedIn
<1>3. ASSUME NEW r \in Requests, NEW v \in VehicleNos,
             CreateVehicle(r, v) \/ DeleteVehicle(r, v)
      PROVE  Goal
  BY <1>3, SameDeletedIn DEF CreateVehicle, DeleteVehicle
<1>4. ASSUME NEW r \in Requests, NEW s \in StopNames,
             CreateStop(r, s) \/ DeleteStop(r, s)
      PROVE  Goal
  BY <1>4, SameDeletedIn DEF CreateStop, DeleteStop
<1>5. ASSUME NEW r \in Requests, NEW c \in RouteCodes,
             NEW trips \in TripForms, NEW stops \in StopForms,
             CreateRoute(r, c, trips, stops)
      PROVE  Goal
  BY <1>5, AddedDeletedIn DEF CreateRoute
<1>6. ASSUME NEW r \in Requests, WriteRoute(r)
      PROVE  Goal
  BY <1>6, SavedDeletedIn, SameDeletedIn DEF WriteRoute
<1>7. ASSUME NEW r \in Requests, NEW c \in RouteCodes, DeleteRoute(r, c)
      PROVE  Goal
  BY <1>7, ClearedDeletedIn DEF DeleteRoute
<1>8. ASSUME NEW r \in Requests, WriteTransportSeed(r)
      PROVE  Goal
  BY <1>8, AddedDeletedIn DEF WriteTransportSeed
<1>9. ASSUME NEW r \in Requests, WriteClone(r)
      PROVE  Goal
  BY <1>9, SameDeletedIn DEF WriteClone
<1>10. \E r \in Requests :
         \/ UNCHANGED masterRows
         \/ \E v \in VehicleNos : CreateVehicle(r, v) \/ DeleteVehicle(r, v)
         \/ \E s \in StopNames : CreateStop(r, s) \/ DeleteStop(r, s)
         \/ \E c \in RouteCodes, trips \in TripForms, stops \in StopForms :
              CreateRoute(r, c, trips, stops)
         \/ \E c \in RouteCodes : DeleteRoute(r, c)
         \/ WriteRoute(r) \/ WriteTransportSeed(r) \/ WriteClone(r)
  BY Zenon DEF MasterNext, MasterHandler, SaveTripsAndStops, SeedTransport, CloneTransport,
     MasterAbandon
<1> HIDE DEF Goal
<1> QED
  BY <1>2, <1>3, <1>4, <1>5, <1>6, <1>7, <1>8, <1>9, <1>10, Zenon

-----------------------------------------------------------------------------
(***************************************************************************)
(* The holiday calendar                                                    *)
(***************************************************************************)
\* What the loops go through has something to be written.
Covered(q) ==
  /\ q.op = "generate" => q.todo \subseteq DOMAIN q.plan
  /\ q.op = "clone" => q.todo \subseteq DOMAIN MasterHolidays

HolidayStates == {q \in HolidayRequest : Covered(q)}

HolidayTyped == HolidayTypeOK /\ req \in [Requests -> HolidayStates]

LEMMA HolidayFields ==
  ASSUME HolidayTyped, NEW r \in Requests
  PROVE  /\ req[r].op = "generate" =>
              req[r] \in GenerateReq /\ req[r].todo \subseteq DOMAIN req[r].plan
         /\ req[r].op = "cloneCalendar" => req[r] \in CloneCalendarReq
         /\ req[r].op = "clone" =>
              req[r] \in CloneReq /\ req[r].todo \subseteq DOMAIN MasterHolidays
  BY DEF HolidayTyped, HolidayStates, Covered, HolidayRequest, Idle,
     GenerateReq, CloneCalendarReq, CloneReq

LEMMA HolidayContinues ==
  ASSUME HolidayTyped, NEW r, NEW c \in HolidayStates, Continue(r, c)
  PROVE  /\ req' \in [Requests -> HolidayStates]
         /\ req' \in [Requests -> HolidayRequest]
  BY DEF HolidayTyped, HolidayStates, Continue

LEMMA HolidayReplies ==
  ASSUME HolidayTyped, NEW r, Reply(r)
  PROVE  /\ req' \in [Requests -> HolidayStates]
         /\ req' \in [Requests -> HolidayRequest]
<1>1. Idle \in HolidayStates
  BY DEF HolidayStates, HolidayRequest, Covered, Idle
<1> QED
  BY <1>1, HolidayContinues DEF Reply

\* The request with another stage or a smaller todo.
Staged(q, todo) == [q EXCEPT !.at = "upsert", !.todo = todo]

LEMMA GenerateFields ==
  ASSUME NEW q \in GenerateReq, NEW todo \in SUBSET Dates,
         todo \subseteq DOMAIN q.plan, NEW next,
         next = [q EXCEPT !.todo = todo] \/ next = Staged(q, todo)
  PROVE  /\ next \in GenerateReq /\ next \in HolidayStates
         /\ next.op = "generate" /\ next.todo = todo /\ next.plan = q.plan
         /\ next = Staged(q, todo) => next.at = "upsert"
         /\ next # Staged(q, todo) => next.at = q.at
<1>1. /\ next \in GenerateReq /\ next.op = "generate" /\ next.todo = todo /\ next.plan = q.plan
      /\ next = Staged(q, todo) => next.at = "upsert"
      /\ next # Staged(q, todo) => next.at = q.at
  BY DEF GenerateReq, Staged
<1> QED
  BY <1>1 DEF HolidayStates, HolidayRequest, Covered

LEMMA CloneFields ==
  ASSUME NEW q \in CloneReq, NEW todo \in SUBSET Dates,
         todo \subseteq DOMAIN MasterHolidays, NEW next,
         next = [q EXCEPT !.todo = todo] \/ next = Staged(q, todo)
  PROVE  /\ next \in CloneReq /\ next \in HolidayStates
         /\ next.op = "clone" /\ next.todo = todo
         /\ next = Staged(q, todo) => next.at = "upsert"
         /\ next # Staged(q, todo) => next.at = q.at
<1>1. /\ next \in CloneReq /\ next.op = "clone" /\ next.todo = todo
      /\ next = Staged(q, todo) => next.at = "upsert"
      /\ next # Staged(q, todo) => next.at = q.at
  BY DEF CloneReq, Staged
<1> QED
  BY <1>1 DEF HolidayStates, HolidayRequest, Covered

LEMMA CloneCalendarFields ==
  ASSUME NEW q \in CloneCalendarReq, NEW todo \in SUBSET SlNos
  PROVE  [q EXCEPT !.todo = todo] \in HolidayStates
<1>1. /\ [q EXCEPT !.todo = todo] \in CloneCalendarReq
      /\ [q EXCEPT !.todo = todo].op = "cloneCalendar"
  BY DEF CloneCalendarReq
<1> QED
  BY <1>1 DEF HolidayStates, HolidayRequest, Covered

LEMMA ProceedTypes ==
  ASSUME HolidayTyped, NEW r \in Requests,
         req[r].op \in {"generate", "cloneCalendar", "clone"},
         NEW n, n \in Due(req[r].todo), Proceed(r, req[r].todo \ {n})
  PROVE  /\ req' \in [Requests -> HolidayStates]
         /\ req' \in [Requests -> HolidayRequest]
<1>1. CASE Reply(r)
  BY <1>1, HolidayReplies
<1>2. CASE Continue(r, [req[r] EXCEPT !.todo = req[r].todo \ {n}])
  <2> PICK next : next = [req[r] EXCEPT !.todo = req[r].todo \ {n}]
    OBVIOUS
  <2>1. CASE req[r].op = "generate"
    <3>1. /\ req[r] \in GenerateReq /\ req[r].at \in {"protect", "upsert"}
          /\ req[r].todo \ {n} \in SUBSET Dates
          /\ req[r].todo \ {n} \subseteq DOMAIN req[r].plan
      BY <2>1, HolidayFields DEF GenerateReq
    <3>2. next \in HolidayStates
      BY <3>1, GenerateFields
    <3> QED
      BY <1>2, <3>2, HolidayContinues
  <2>2. CASE req[r].op = "clone"
    <3>1. /\ req[r] \in CloneReq /\ req[r].at \in {"manual", "upsert"}
          /\ req[r].todo \ {n} \in SUBSET Dates
          /\ req[r].todo \ {n} \subseteq DOMAIN MasterHolidays
      BY <2>2, HolidayFields DEF CloneReq
    <3>2. next \in HolidayStates
      BY <3>1, CloneFields
    <3> QED
      BY <1>2, <3>2, HolidayContinues
  <2>3. CASE req[r].op = "cloneCalendar"
    <3>1. /\ req[r] \in CloneCalendarReq
          /\ req[r].todo \ {n} \in SUBSET SlNos
      BY <2>3, HolidayFields DEF CloneCalendarReq
    <3> QED
      BY <1>2, <3>1, CloneCalendarFields, HolidayContinues
  <2> QED
    BY <2>1, <2>2, <2>3
<1> QED
  BY <1>1, <1>2 DEF Proceed

LEMMA OffDates ==
  ASSUME HolidayTypeOK, NEW place
  PROVE  CalendarDates(place) \subseteq Dates
BY DEF CalendarDates, HolidayTypeOK, Calendar, CalendarRow, Filled

\* The engine answers with a source for dates of the calendar.
LEMMA PlanType ==
  ASSUME NEW off \in SUBSET Dates, NEW days \in SUBSET PlannedDates(off)
  PROVE  /\ Plan(days, off) \in GenerateReq
         /\ Plan(days, off) \in HolidayStates
         /\ DOMAIN Plan(days, off).plan = days
         /\ \A d \in days \cap off : Plan(days, off).plan[d] = "CALENDAR"
         /\ Plan(days, off).op = "generate" /\ Plan(days, off).at = "protect"
         /\ Plan(days, off).todo = {}
<1>1. \A d \in days : d \in Dates /\ Planned(d, off) \in Sources
  <2> TAKE d \in days
  <2>1. /\ d \in YearDates \cup off /\ Planned(d, off) # "none"
    BY DEF PlannedDates
  <2> QED
    BY <2>1, DatesAssumption DEF Planned, Sources
<1>2. [d \in days |-> Planned(d, off)] \in [days -> Sources]
  BY <1>1
<1>3. days \in SUBSET Dates
  BY <1>1
<1>4. \A d \in days \cap off : Planned(d, off) = "CALENDAR"
  BY DEF Planned
<1>5. Plan(days, off) \in GenerateReq
  BY <1>2, <1>3 DEF Plan, GenerateReq
<1>6. /\ DOMAIN Plan(days, off).plan = days
      /\ \A d \in days \cap off : Plan(days, off).plan[d] = "CALENDAR"
      /\ Plan(days, off).op = "generate" /\ Plan(days, off).at = "protect"
      /\ Plan(days, off).todo = {}
  BY <1>4 DEF Plan
<1> QED
  BY <1>5, <1>6 DEF HolidayStates, HolidayRequest, Covered

LEMMA HolidayTypes ==
  ASSUME HolidayTyped, HolidayNext
  PROVE  HolidayTyped'
<1> PICK r \in Requests :
      \/ \E upload \in Uploads : UploadAcademicCalendar(r, upload)
      \/ \E config \in WeekendEdits : SaveWeekendConfig(r, config)
      \/ \E rules \in MatrixEdits : SaveMatrixRules(r, rules)
      \/ CloneAcademicCalendar(r) \/ UpsertCalendarEntry(r)
      \/ GenerateHolidays(r) \/ ProtectEntries(r) \/ UpsertHoliday(r)
      \/ CloneHolidays(r) \/ ReadManualEntries(r) \/ CloneHoliday(r)
      \/ \E d \in Dates : \/ CreateHolidayEntry(r, d)
                          \/ UpdateHolidayEntry(r, d)
                          \/ DeleteHolidayEntry(r, d)
      \/ HolidayAbandon(r)
  BY DEF HolidayNext, HolidayHandler
<1> DEFINE ReqTyped == /\ req' \in [Requests -> HolidayStates]
                    /\ req' \in [Requests -> HolidayRequest]
<1>0. /\ calendar \in Calendar /\ weekend \in WeekendConfig
      /\ matrix \subseteq Occurrences
      /\ holiday \in [Dates -> HolidayRow \cup {Null}]
      /\ UNCHANGED req => ReqTyped
  BY DEF HolidayTyped, HolidayTypeOK
<1> HIDE DEF ReqTyped
<1>s. /\ ReqTyped
      /\ calendar' \in Calendar /\ weekend' \in WeekendConfig
      /\ matrix' \subseteq Occurrences
      /\ holiday' \in [Dates -> HolidayRow \cup {Null}]
      => HolidayTyped'
  BY DEF ReqTyped, HolidayTyped, HolidayTypeOK
<1>r. Reply(r) => ReqTyped
  BY HolidayReplies DEF ReqTyped
<1>1. ASSUME NEW upload \in Uploads, UploadAcademicCalendar(r, upload)
      PROVE  HolidayTyped'
  BY <1>0, <1>s, <1>1, UploadsAssumption DEF UploadAcademicCalendar
<1>2. ASSUME NEW config \in WeekendEdits, SaveWeekendConfig(r, config)
      PROVE  HolidayTyped'
  BY <1>0, <1>s, <1>2, PoliciesAssumption DEF SaveWeekendConfig
<1>3. ASSUME NEW rules \in MatrixEdits, SaveMatrixRules(r, rules)
      PROVE  HolidayTyped'
  BY <1>0, <1>s, <1>3, PoliciesAssumption DEF SaveMatrixRules
<1>4. CASE CloneAcademicCalendar(r)
  <2> DEFINE c == [op |-> "cloneCalendar",
                   todo |-> {n \in SlNos : MasterCalendar[n] # Null}]
  <2>1. c \in HolidayStates
    BY DEF HolidayStates, HolidayRequest, CloneCalendarReq, Covered
  <2>2. Continue(r, c)
    BY <1>4 DEF CloneAcademicCalendar
  <2> HIDE DEF c
  <2>3. ReqTyped
    BY <2>1, <2>2, HolidayContinues DEF ReqTyped
  <2> QED
    BY <1>0, <1>s, <1>4, <2>3 DEF CloneAcademicCalendar, policies
<1>5. CASE UpsertCalendarEntry(r)
  <2>1. PICK n \in Due(req[r].todo) :
          /\ calendar' = [calendar EXCEPT ![n] = MasterCalendar[n]]
          /\ Proceed(r, req[r].todo \ {n})
    BY <1>5 DEF UpsertCalendarEntry
  <2>2. ReqTyped
    BY <1>5, <2>1, ProceedTypes DEF UpsertCalendarEntry, ReqTyped
  <2>3. n \in SlNos
    BY <1>5, <2>1, HolidayFields DEF UpsertCalendarEntry, Due,
       CloneCalendarReq
  <2>4. calendar' \in Calendar
    BY <1>0, <2>1, <2>3, UploadsAssumption DEF Calendar
  <2> QED
    BY <1>0, <1>s, <1>5, <2>2, <2>4 DEF UpsertCalendarEntry
<1>6. CASE GenerateHolidays(r)
  <2>1. PICK place \in Readings :
          Continue(r, Plan(PlannedDates(CalendarDates(place)) \ ManualDates,
                           CalendarDates(place)))
    BY <1>6 DEF GenerateHolidays
  <2>2. CalendarDates(place) \in SUBSET Dates
    BY OffDates DEF HolidayTyped
  <2>3. ReqTyped
    BY <2>1, <2>2, PlanType, HolidayContinues DEF ReqTyped
  <2> QED
    BY <1>0, <1>s, <1>6, <2>3 DEF GenerateHolidays, policies
<1>7. CASE ProtectEntries(r)
  <2>1. req[r] \in GenerateReq /\ DOMAIN req[r].plan \subseteq Dates
    BY <1>7, HolidayFields DEF ProtectEntries, GenerateReq
  <2>2. \/ Reply(r)
        \/ \E todo \in SUBSET DOMAIN req[r].plan :
             Continue(r, [req[r] EXCEPT !.at = "upsert", !.todo = todo])
    BY <1>7 DEF ProtectEntries
  <2>3. ASSUME NEW todo \in SUBSET DOMAIN req[r].plan,
               Continue(r, [req[r] EXCEPT !.at = "upsert", !.todo = todo])
        PROVE  ReqTyped
    <3> PICK next : next = Staged(req[r], todo)
      OBVIOUS
    <3>1. /\ todo \in SUBSET Dates /\ todo \subseteq DOMAIN req[r].plan
      BY <2>1
    <3>2. next \in HolidayStates
      BY <2>1, <3>1, GenerateFields
    <3> QED
      BY <2>3, <3>2, HolidayContinues DEF ReqTyped, Staged
  <2> QED
    BY <1>0, <1>s, <1>7, <1>r, <2>2, <2>3 DEF ProtectEntries, policies
<1>8. CASE UpsertHoliday(r)
  <2>1. PICK d \in Due(req[r].todo) :
          /\ holiday' = [holiday EXCEPT ![d] = Generated(@, req[r].plan[d])]
          /\ Proceed(r, req[r].todo \ {d})
    BY <1>8 DEF UpsertHoliday
  <2>2. ReqTyped
    BY <1>8, <2>1, ProceedTypes DEF UpsertHoliday, ReqTyped
  <2>3. d \in Dates /\ req[r].plan[d] \in Sources
    BY <1>8, <2>1, HolidayFields DEF UpsertHoliday, Due, GenerateReq
  <2>4. Generated(holiday[d], req[r].plan[d]) \in HolidayRow
    BY <1>0, <2>3 DEF Generated, HolidayRow
  <2> QED
    BY <1>0, <1>s, <1>8, <2>1, <2>2, <2>4 DEF UpsertHoliday, policies
<1>9. CASE CloneHolidays(r)
  <2>1. [op |-> "clone", at |-> "manual", todo |-> {}] \in HolidayStates
    BY DEF HolidayStates, HolidayRequest, CloneReq, Covered
  <2>2. ReqTyped
    BY <1>9, <2>1, HolidayContinues DEF CloneHolidays, ReqTyped
  <2> QED
    BY <1>0, <1>s, <1>9, <2>2, PoliciesAssumption DEF CloneHolidays
<1>10. CASE ReadManualEntries(r)
  <2>1. req[r] \in CloneReq
    BY <1>10, HolidayFields DEF ReadManualEntries
  <2>2. \/ Reply(r)
        \/ \E todo \in SUBSET DOMAIN MasterHolidays :
             Continue(r, [req[r] EXCEPT !.at = "upsert", !.todo = todo])
    BY <1>10 DEF ReadManualEntries
  <2>3. ASSUME NEW todo \in SUBSET DOMAIN MasterHolidays,
               Continue(r, [req[r] EXCEPT !.at = "upsert", !.todo = todo])
        PROVE  ReqTyped
    <3> PICK next : next = Staged(req[r], todo)
      OBVIOUS
    <3>1. /\ todo \in SUBSET Dates /\ todo \subseteq DOMAIN MasterHolidays
      BY MasterHolidaysAssumption
    <3>2. next \in HolidayStates
      BY <2>1, <3>1, CloneFields
    <3> QED
      BY <2>3, <3>2, HolidayContinues DEF ReqTyped, Staged
  <2> QED
    BY <1>0, <1>s, <1>10, <1>r, <2>2, <2>3 DEF ReadManualEntries, policies
<1>11. CASE CloneHoliday(r)
  <2>1. PICK d \in Due(req[r].todo) :
          /\ holiday' = [holiday EXCEPT ![d] = Cloned(@, MasterHolidays[d])]
          /\ Proceed(r, req[r].todo \ {d})
    BY <1>11 DEF CloneHoliday
  <2>2. ReqTyped
    BY <1>11, <2>1, ProceedTypes DEF CloneHoliday, ReqTyped
  <2>3. d \in Dates /\ MasterHolidays[d] \in Sources
    BY <1>11, <2>1, HolidayFields, MasterHolidaysAssumption
       DEF CloneHoliday, Due
  <2>4. Cloned(holiday[d], MasterHolidays[d]) \in HolidayRow
    BY <1>0, <2>3 DEF Cloned, HolidayRow
  <2> QED
    BY <1>0, <1>s, <1>11, <2>1, <2>2, <2>4 DEF CloneHoliday, policies
<1>12. ASSUME NEW d \in Dates, CreateHolidayEntry(r, d)
       PROVE  HolidayTyped'
  BY <1>0, <1>s, <1>12 DEF CreateHolidayEntry, HolidayRow, Sources, policies
<1>13. ASSUME NEW d \in Dates,
              UpdateHolidayEntry(r, d) \/ DeleteHolidayEntry(r, d)
       PROVE  HolidayTyped'
  <2>1. holiday[d] \in HolidayRow
    BY <1>0, <1>13 DEF UpdateHolidayEntry, DeleteHolidayEntry, LiveHoliday
  <2>2. /\ [holiday[d] EXCEPT !.isManual = TRUE] \in HolidayRow
        /\ [holiday[d] EXCEPT !.live = FALSE] \in HolidayRow
    BY <2>1 DEF HolidayRow
  <2>3. holiday' \in [Dates -> HolidayRow \cup {Null}]
    BY <1>0, <1>13, <2>2 DEF UpdateHolidayEntry, DeleteHolidayEntry
  <2> QED
    BY <1>0, <1>s, <1>13, <2>3 DEF UpdateHolidayEntry, DeleteHolidayEntry,
       policies
<1>14. CASE HolidayAbandon(r)
  BY <1>0, <1>r, <1>s, <1>14 DEF HolidayAbandon, Abandon, policies
<1> QED
  BY <1>1, <1>2, <1>3, <1>4, <1>5, <1>6, <1>7, <1>8, <1>9, <1>10, <1>11,
     <1>12, <1>13, <1>14

LEMMA HolidayTypedInit == HolidayInit => HolidayTyped
BY DEF HolidayInit, HandlersInit, HolidayTyped, HolidayTypeOK, Calendar,
   WeekendConfig, HolidayStates, HolidayRequest, Covered, Idle

-----------------------------------------------------------------------------
(***************************************************************************)
(* The order of the sources: what SourcesStand says of a handler that is   *)
(* not overtaken is kept by its steps.                                     *)
(***************************************************************************)
HolidayInv(r) == r \in Requests /\ HolidayTyped /\ SourcesStand(req[r])

\* What SourcesKeepTheirOrder asks of a step of r.
OrderKept(r) ==
  /\ req[r] # Idle => \A d \in ManualDates : holiday'[d] = holiday[d]
  /\ req[r].op = "generate" =>
       \A d \in ProtectedDates :
         holiday'[d].source \in {holiday[d].source, "CALENDAR"}
  /\ UpsertHoliday(r) /\ req'[r] = Idle =>
       \A d \in Dates : OffInCalendar(d) =>
         \/ d \in ManualDates
         \/ holiday'[d] # Null /\ holiday'[d].source = "CALENDAR"

\* Whatever the order among entries of one date, the engine finds the dates
\* that are off.
LEMMA OffIsFound ==
  ASSUME HolidayTypeOK, NEW place \in Readings, NEW d \in Dates,
         OffInCalendar(d)
  PROVE  d \in CalendarDates(place)
<1>1. CASE \E n \in Filled : calendar[n].date = d
                               /\ calendar[n].type = "Holiday"
  BY <1>1 DEF CalendarDates
<1>2. ASSUME NEW s \in Filled, NEW e \in Filled,
             calendar[s].type = "Vacation_Start",
             calendar[e].type = "Vacation_End",
             calendar[s].date < calendar[e].date,
             d \in calendar[s].date .. calendar[e].date,
             \A n \in Filled \ {s, e} : Boundary(n) =>
               \/ calendar[n].date < calendar[s].date
               \/ calendar[e].date < calendar[n].date
      PROVE  d \in CalendarDates(place)
  <2>1. \A n \in Filled : place[n] \in Int
    BY DEF Readings
  <2>2. place[s] < place[e]
    BY <1>2 DEF Readings
  <2>3. ASSUME NEW n \in Filled, Boundary(n), place[s] < place[n],
               place[n] < place[e]
        PROVE  FALSE
    <3>1. n # s /\ n # e
      BY <2>1, <2>3
    <3>2. CASE calendar[n].date < calendar[s].date
      <4>1. place[n] < place[s]
        BY <3>2 DEF Readings
      <4> QED
        BY <2>1, <2>3, <4>1
    <3>3. CASE calendar[e].date < calendar[n].date
      <4>1. place[e] < place[n]
        BY <3>3 DEF Readings
      <4> QED
        BY <2>1, <2>3, <4>1
    <3> QED
      BY <1>2, <2>3, <3>1, <3>2, <3>3
  <2>4. d \in VacationDates(place)
    <3> DEFINE pair == <<s, e>>
    <3>1. /\ pair \in Filled \X Filled /\ pair[1] = s /\ pair[2] = e
      OBVIOUS
    <3> QED
      BY <1>2, <2>2, <2>3, <3>1 DEF VacationDates
  <2> QED
    BY <2>4 DEF CalendarDates
<1> QED
  BY <1>1, <1>2 DEF OffInCalendar

LEMMA OffIsPlanned ==
  ASSUME NEW off \in SUBSET Dates, NEW d \in off
  PROVE  d \in PlannedDates(off)
BY DEF PlannedDates, Planned

\* The handler goes on to a state in order; no other is at work.
LEMMA OrderlyOn ==
  ASSUME NEW r \in Requests, HolidayTyped, NEW c, Continue(r, c),
         SourcesStand(c)', HolidayTyped'
  PROVE  HolidayInv(r)'
<1>1. req'[r] = c
  BY DEF HolidayTyped, Continue
<1>2. SourcesStand(req[r])'
  BY <1>1 DEF SourcesStand
<1> QED
  BY <1>2 DEF HolidayInv

LEMMA IdleOrderly == SourcesStand(Idle) /\ SourcesStand(Idle)'
BY DEF SourcesStand, Idle

\* A step that leaves the entries alone, or is taken when all are idle, by a
\* handler that does not write an entry of a plan.
LEMMA OrderKeptBy ==
  ASSUME NEW r \in Requests, HolidayTyped,
         \/ UNCHANGED holiday /\ ~UpsertHoliday(r)
         \/ req[r] = Idle
  PROVE  OrderKept(r)
<1>1. CASE req[r] = Idle
  BY <1>1 DEF OrderKept, Idle, UpsertHoliday
<1>2. CASE UNCHANGED holiday /\ ~UpsertHoliday(r)
  BY <1>2 DEF OrderKept
<1> QED
  BY <1>1, <1>2

LEMMA HolidayInvStep ==
  ASSUME NEW r \in Requests, HolidayInv(r), HolidayHandler(r)
  PROVE  HolidayInv(r)' /\ OrderKept(r)
<1>0. /\ HolidayTyped /\ HolidayTyped' /\ SourcesStand(req[r]) /\ HolidayTypeOK
      /\ holiday \in [Dates -> HolidayRow \cup {Null}]
  BY HolidayTypes DEF HolidayInv, HolidayTyped, HolidayTypeOK, HolidayNext
<1>1. ASSUME req[r] = Idle, UNCHANGED req
      PROVE  HolidayInv(r)' /\ OrderKept(r)
  <2>1. SourcesStand(req[r])'
    BY <1>1, IdleOrderly
  <2> QED
    BY <1>0, <1>1, <2>1, OrderKeptBy DEF HolidayInv
<1>r. Reply(r) => HolidayInv(r)'
  BY <1>0, OrderlyOn, IdleOrderly DEF Reply
<1>2. CASE \/ \E upload \in Uploads : UploadAcademicCalendar(r, upload)
           \/ \E config \in WeekendEdits : SaveWeekendConfig(r, config)
           \/ \E rules \in MatrixEdits : SaveMatrixRules(r, rules)
           \/ \E d \in Dates : \/ CreateHolidayEntry(r, d)
                               \/ UpdateHolidayEntry(r, d)
                               \/ DeleteHolidayEntry(r, d)
  BY <1>1, <1>2 DEF UploadAcademicCalendar, SaveWeekendConfig,
     SaveMatrixRules, CreateHolidayEntry, UpdateHolidayEntry,
     DeleteHolidayEntry
<1>3. CASE CloneAcademicCalendar(r)
  <2>1. PICK c : Continue(r, c) /\ c.op = "cloneCalendar"
    BY <1>3 DEF CloneAcademicCalendar
  <2>2. SourcesStand(c)'
    BY <2>1 DEF SourcesStand
  <2>3. HolidayInv(r)'
    BY <1>0, <2>1, <2>2, OrderlyOn
  <2> QED
    BY <1>0, <1>3, <2>3, OrderKeptBy DEF CloneAcademicCalendar
<1>4. CASE UpsertCalendarEntry(r)
  <2>1. PICK n \in Due(req[r].todo) : Proceed(r, req[r].todo \ {n})
    BY <1>4 DEF UpsertCalendarEntry
  <2>2. ASSUME Continue(r, [req[r] EXCEPT !.todo = req[r].todo \ {n}])
        PROVE  HolidayInv(r)'
    <3>1. PICK c : /\ c = [req[r] EXCEPT !.todo = req[r].todo \ {n}]
                   /\ Continue(r, c)
      BY <2>2
    <3>2. c.op = "cloneCalendar"
      BY <1>0, <1>4, <3>1, HolidayFields
         DEF UpsertCalendarEntry, CloneCalendarReq
    <3>3. SourcesStand(c)'
      BY <3>2 DEF SourcesStand
    <3> QED
      BY <1>0, <3>1, <3>3, OrderlyOn
  <2>3. HolidayInv(r)'
    BY <1>r, <2>1, <2>2 DEF Proceed
  <2>4. UNCHANGED holiday /\ req[r].op # "generate"
    BY <1>4 DEF UpsertCalendarEntry
  <2> QED
    BY <1>0, <2>3, <2>4, OrderKeptBy DEF UpsertHoliday
<1>5. CASE GenerateHolidays(r)
  <2>1. PICK place \in Readings :
          Continue(r, Plan(PlannedDates(CalendarDates(place)) \ ManualDates,
                           CalendarDates(place)))
    BY <1>5 DEF GenerateHolidays
  <2>2. PICK off \in SUBSET Dates : off = CalendarDates(place)
    BY <1>0, OffDates
  <2>3. PICK days : days = PlannedDates(off) \ ManualDates
    OBVIOUS
  <2>4. PICK c : c = Plan(days, off) /\ Continue(r, c)
    BY <2>1, <2>2, <2>3
  <2>5. UNCHANGED <<calendar, holiday>>
    BY <1>5 DEF GenerateHolidays, policies
  <2>6. /\ c.op = "generate" /\ c.at = "protect" /\ DOMAIN c.plan = days
        /\ \A d \in days \cap off : c.plan[d] = "CALENDAR"
    BY <2>3, <2>4, PlanType
  <2>7. \A d \in Dates : OffInCalendar(d) => d \in off
    BY <1>0, <2>2, OffIsFound
  <2>8. \A d \in off : d \in days \/ d \in ManualDates
    BY <2>3, OffIsPlanned
  <2>9. UNCHANGED ManualDates /\ \A d \in Dates : UNCHANGED OffInCalendar(d)
    BY <2>5 DEF ManualDates, LiveHoliday, OffInCalendar, Filled, Boundary
  <2>10. SourcesStand(c)'
    BY <2>3, <2>6, <2>7, <2>8, <2>9 DEF SourcesStand
  <2>11. HolidayInv(r)'
    BY <1>0, <2>4, <2>10, OrderlyOn
  <2> QED
    BY <1>0, <1>5, <2>11, OrderKeptBy DEF GenerateHolidays
<1>6. CASE ProtectEntries(r)
  <2> PICK todo : todo = {d \in DOMAIN req[r].plan :
                            \/ req[r].plan[d] = "CALENDAR"
                            \/ d \notin ProtectedDates}
    OBVIOUS
  <2>1. Reply(r) \/ Continue(r, Staged(req[r], todo))
    BY <1>6 DEF ProtectEntries, Staged
  <2>2. /\ req[r] \in GenerateReq /\ req[r].op = "generate"
        /\ req[r].at = "protect"
        /\ UNCHANGED <<calendar, holiday>>
    BY <1>0, <1>6, HolidayFields DEF ProtectEntries, policies
  <2>3. ASSUME Continue(r, Staged(req[r], todo))
        PROVE  HolidayInv(r)'
    <3> PICK c : c = Staged(req[r], todo)
      OBVIOUS
    <3>1. todo \in SUBSET Dates /\ todo \subseteq DOMAIN req[r].plan
      BY <2>2 DEF GenerateReq
    <3>2. /\ c.op = "generate" /\ c.todo = todo /\ c.at = "upsert"
          /\ c.plan = req[r].plan
      BY <2>2, <3>1, GenerateFields
    <3>3. /\ UNCHANGED <<ManualDates, ProtectedDates>>
          /\ \A d \in Dates : UNCHANGED <<OffInCalendar(d), SaysOff(d)>>
      BY <2>2 DEF ManualDates, ProtectedDates, LiveHoliday, OffInCalendar,
         Filled, Boundary, SaysOff
    <3>4. SourcesStand(c)'
      BY <1>0, <2>2, <3>2, <3>3 DEF SourcesStand
    <3> QED
      BY <1>0, <2>3, <3>4, OrderlyOn
  <2>4. ~UpsertHoliday(r)
    BY <2>2 DEF UpsertHoliday
  <2> QED
    BY <1>0, <1>r, <2>1, <2>2, <2>3, <2>4, OrderKeptBy
<1>8. CASE CloneHolidays(r)
  <2>1. PICK c : /\ Continue(r, c) /\ c.op = "clone" /\ c.todo = {}
    BY <1>8 DEF CloneHolidays
  <2>2. SourcesStand(c)'
    BY <2>1 DEF SourcesStand
  <2>3. HolidayInv(r)'
    BY <1>0, <2>1, <2>2, OrderlyOn
  <2> QED
    BY <1>0, <1>8, <2>3, OrderKeptBy DEF CloneHolidays
<1>9. CASE ReadManualEntries(r)
  <2> PICK todo : todo = DOMAIN MasterHolidays \ ManualDates
    OBVIOUS
  <2>1. Reply(r) \/ Continue(r, Staged(req[r], todo))
    BY <1>9 DEF ReadManualEntries, Staged
  <2>2. /\ req[r] \in CloneReq /\ req[r].op = "clone"
        /\ UNCHANGED holiday
    BY <1>0, <1>9, HolidayFields DEF ReadManualEntries
  <2>3. ASSUME Continue(r, Staged(req[r], todo))
        PROVE  HolidayInv(r)'
    <3> PICK c : c = Staged(req[r], todo)
      OBVIOUS
    <3>1. todo \in SUBSET Dates /\ todo \subseteq DOMAIN MasterHolidays
      BY MasterHolidaysAssumption
    <3>2. c.op = "clone" /\ c.todo = todo
      BY <2>2, <3>1, CloneFields
    <3>3. UNCHANGED ManualDates
      BY <2>2 DEF ManualDates, LiveHoliday
    <3>4. SourcesStand(c)'
      BY <3>2, <3>3 DEF SourcesStand
    <3> QED
      BY <1>0, <2>3, <3>4, OrderlyOn
  <2>4. ~UpsertHoliday(r)
    BY <2>2 DEF UpsertHoliday
  <2> QED
    BY <1>0, <1>r, <2>1, <2>2, <2>3, <2>4, OrderKeptBy
<1>7. CASE UpsertHoliday(r)
  <2>1. PICK d \in Due(req[r].todo) :
          /\ holiday' = [holiday EXCEPT ![d] = Generated(@, req[r].plan[d])]
          /\ Proceed(r, req[r].todo \ {d})
    BY <1>7 DEF UpsertHoliday
  <2>2. /\ req[r].op = "generate" /\ req[r].at = "upsert"
        /\ UNCHANGED calendar
    BY <1>7 DEF UpsertHoliday, policies
  <2>3. /\ req[r] \in GenerateReq /\ req[r].todo \subseteq DOMAIN req[r].plan
        /\ d \in req[r].todo /\ d \in Dates
        /\ req[r].todo \subseteq Dates /\ DOMAIN req[r].plan \subseteq Dates
    BY <1>0, <2>1, <2>2, HolidayFields DEF Due, GenerateReq
  <2>4. d \notin ManualDates
          /\ (d \in ProtectedDates => req[r].plan[d] = "CALENDAR")
    BY <1>0, <2>2, <2>3 DEF SourcesStand
  <2>5. /\ holiday'[d] # Null /\ holiday'[d].source = req[r].plan[d]
        /\ holiday'[d].isManual = FALSE
        /\ \A e \in Dates \ {d} : holiday'[e] = holiday[e]
    <3>1. holiday'[d] = Generated(holiday[d], req[r].plan[d])
            /\ \A e \in Dates \ {d} : holiday'[e] = holiday[e]
      BY <1>0, <2>1, <2>3
    <3>2. Generated(holiday[d], req[r].plan[d]) \in HolidayRow
      <4>1. req[r].plan[d] \in Sources /\ holiday[d] \in HolidayRow \cup {Null}
        BY <1>0, <2>3 DEF GenerateReq
      <4> QED
        BY <4>1 DEF Generated, HolidayRow
    <3>3. holiday'[d] # Null
      BY <3>1, <3>2, NoHolidayAssumption
    <3>4. /\ Generated(holiday[d], req[r].plan[d]).source = req[r].plan[d]
          /\ Generated(holiday[d], req[r].plan[d]).isManual = FALSE
      BY DEF Generated
    <3> QED
      BY <3>1, <3>3, <3>4
  <2>6. UNCHANGED ManualDates
    BY <2>3, <2>4, <2>5 DEF ManualDates, LiveHoliday
  <2>7. ProtectedDates' \ {d} \subseteq ProtectedDates
    BY <2>5, <2>6 DEF ProtectedDates, LiveHoliday
  <2>8. /\ \A e \in Dates \ {d} : SaysOff(e) => SaysOff(e)'
        /\ req[r].plan[d] = "CALENDAR" => SaysOff(d)'
        /\ \A e \in Dates : UNCHANGED OffInCalendar(e)
    BY <2>2, <2>5 DEF SaysOff, OffInCalendar, Filled, Boundary
  <2>9. \A e \in DOMAIN req[r].plan \ (req[r].todo \ {d}) :
          req[r].plan[e] = "CALENDAR" => SaysOff(e)'
    BY <1>0, <2>2, <2>3, <2>8 DEF SourcesStand
  <2>10. ASSUME Continue(r, [req[r] EXCEPT !.todo = req[r].todo \ {d}])
         PROVE  HolidayInv(r)'
    <3>1. PICK rest, c : /\ rest = req[r].todo \ {d}
                         /\ c = [req[r] EXCEPT !.todo = rest]
                         /\ Continue(r, c)
      BY <2>10
    <3>2. /\ rest \in SUBSET Dates
          /\ rest \subseteq DOMAIN req[r].plan
      BY <2>3, <3>1
    <3>3. /\ c.op = "generate" /\ c.todo = rest
          /\ c.plan = req[r].plan
      BY <2>2, <2>3, <3>1 DEF GenerateReq
    <3>4. /\ DOMAIN c.plan \cap ManualDates' = {}
          /\ \A e \in Dates : OffInCalendar(e)' =>
               \/ e \in ManualDates'
               \/ e \in DOMAIN c.plan /\ c.plan[e] = "CALENDAR"
      BY <1>0, <2>2, <2>6, <2>8, <3>3 DEF SourcesStand
    <3>5. \A e \in c.todo \cap ProtectedDates' : c.plan[e] = "CALENDAR"
      BY <1>0, <2>2, <2>7, <3>1, <3>3 DEF SourcesStand
    <3>6. SourcesStand(c)'
      BY <2>9, <3>1, <3>3, <3>4, <3>5 DEF SourcesStand
    <3> QED
      BY <1>0, <3>1, <3>6, OrderlyOn
  <2>11. HolidayInv(r)'
    BY <1>r, <2>1, <2>10 DEF Proceed
  <2>12. req'[r] = Idle => req[r].todo \ {d} = {}
    <3>1. ASSUME Continue(r, [req[r] EXCEPT !.todo = req[r].todo \ {d}])
          PROVE  req'[r] # Idle
      <4>1. req'[r] = [req[r] EXCEPT !.todo = req[r].todo \ {d}]
        BY <1>0, <3>1 DEF Continue, HolidayTyped
      <4>2. [req[r] EXCEPT !.todo = req[r].todo \ {d}].op = "generate"
        BY <2>2, <2>3 DEF GenerateReq
      <4> QED
        BY <4>1, <4>2 DEF Idle
    <3> QED
      BY <2>1, <3>1 DEF Proceed
  <2>13. \A e \in ManualDates : holiday'[e] = holiday[e]
    BY <2>4, <2>5 DEF ManualDates
  <2>14. \A e \in ProtectedDates :
           holiday'[e].source \in {holiday[e].source, "CALENDAR"}
    BY <2>4, <2>5 DEF ProtectedDates, ManualDates
  <2>15. req'[r] = Idle =>
           \A e \in Dates : OffInCalendar(e) => e \in ManualDates \/ SaysOff(e)'
    BY <1>0, <2>2, <2>9, <2>12 DEF SourcesStand
  <2>16. OrderKept(r)
    BY <2>13, <2>14, <2>15 DEF OrderKept, SaysOff
  <2> QED
    BY <2>11, <2>16
<1>10. CASE CloneHoliday(r)
  <2>1. PICK d \in Due(req[r].todo) :
          /\ holiday' = [holiday EXCEPT ![d] = Cloned(@, MasterHolidays[d])]
          /\ Proceed(r, req[r].todo \ {d})
    BY <1>10 DEF CloneHoliday
  <2>2. req[r].op = "clone"
    BY <1>10 DEF CloneHoliday
  <2>3. /\ req[r] \in CloneReq /\ req[r].todo \subseteq DOMAIN MasterHolidays
        /\ d \in req[r].todo /\ d \in Dates /\ req[r].todo \subseteq Dates
    BY <1>0, <2>1, <2>2, HolidayFields DEF Due, CloneReq
  <2>4. req[r].todo \cap ManualDates = {} /\ d \notin ManualDates
    BY <1>0, <2>2, <2>3 DEF SourcesStand
  <2>5. \A e \in Dates \ {d} : holiday'[e] = holiday[e]
    BY <1>0, <2>1, <2>3
  <2>6. ManualDates' \ {d} \subseteq ManualDates
    BY <2>5 DEF ManualDates, LiveHoliday
  <2>7. ASSUME Continue(r, [req[r] EXCEPT !.todo = req[r].todo \ {d}])
        PROVE  HolidayInv(r)'
    <3>1. PICK rest, c : /\ rest = req[r].todo \ {d}
                         /\ c = [req[r] EXCEPT !.todo = rest]
                         /\ Continue(r, c)
      BY <2>7
    <3>2. /\ rest \in SUBSET Dates
          /\ rest \subseteq DOMAIN MasterHolidays
      BY <2>3, <3>1
    <3>3. c.op = "clone" /\ c.todo = rest
      BY <2>2, <2>3, <3>1 DEF CloneReq
    <3>4. SourcesStand(c)'
      BY <2>4, <2>6, <3>1, <3>3 DEF SourcesStand
    <3> QED
      BY <1>0, <3>1, <3>4, OrderlyOn
  <2>8. HolidayInv(r)'
    BY <1>r, <2>1, <2>7 DEF Proceed
  <2>9. \A e \in ManualDates : holiday'[e] = holiday[e]
    BY <2>4, <2>5 DEF ManualDates
  <2> QED
    BY <2>2, <2>8, <2>9 DEF OrderKept, UpsertHoliday
<1>11. CASE HolidayAbandon(r) /\ ~UpsertHoliday(r)
  <2>1. Reply(r) /\ UNCHANGED holiday
    BY <1>11 DEF HolidayAbandon, Abandon
  <2> QED
    BY <1>0, <1>r, <1>11, <2>1, OrderKeptBy
<1> QED
  BY <1>2, <1>3, <1>4, <1>5, <1>6, <1>7, <1>8, <1>9, <1>10, <1>11
     DEF HolidayHandler

\* Whatever handlers do that are not overtaken, entries made by hand stay as
\* they are, the engine replaces no live calendar entry by a weekend, and when
\* it ends every date that is off in the calendar, however its entries are
\* ordered, has an entry that says so.
LEMMA OrderedByAnyHandler ==
  ASSUME HolidayTyped
  PROVE  SourcesKeepTheirOrder
<1> SUFFICES ASSUME NEW r \in Requests, HolidayHandler(r),
                    SourcesStand(req[r])
             PROVE  SourcesStand(req[r])' /\ OrderKept(r)
  BY DEF SourcesKeepTheirOrder, OrderKept
<1>1. HolidayInv(r)
  BY DEF HolidayInv
<1>2. HolidayInv(r)' /\ OrderKept(r)
  BY <1>1, HolidayInvStep
<1> QED
  BY <1>2 DEF HolidayInv

-----------------------------------------------------------------------------
(***************************************************************************)
(* Departments and roles: types.                                           *)
(***************************************************************************)
\* An import makes what its org has.
OrgStates ==
  {q \in OrgRequest :
     q.op = "import" => /\ q.depts \subseteq DOMAIN q.org.superior
                        /\ q.roles \subseteq Housed(q.org)}

OrgTyped == OrgTypeOK /\ req \in [Requests -> OrgStates]

LEMMA OrgFields ==
  ASSUME OrgTyped, NEW r \in Requests
  PROVE  /\ req[r].op \in {"createDepartment", "updateDepartment"} =>
              /\ req[r].dept \in Departments
              /\ req[r].above \in Departments \cup {Null}
         /\ req[r].op \in {"createRole", "updateRole"} =>
              req[r].role \in StaffRoles /\ req[r].dept \in Departments
         /\ req[r].op = "import" =>
              /\ req[r].org \in MasterOrgs \cup {SeedOrg}
              /\ req[r].depts \subseteq DOMAIN req[r].org.superior
              /\ req[r].roles \subseteq Housed(req[r].org)
BY DEF OrgTyped, OrgStates, OrgTypeOK, OrgRequest, Idle

\* A request starts, or ends: the tables are as they were or as given.
LEMMA OrgGoesOn ==
  ASSUME OrgTyped, NEW r \in Requests, NEW c \in OrgStates,
         UNCHANGED req \/ Continue(r, c),
         department' \in [Departments -> Presence],
         superior' \in [Departments -> Departments \cup {Null}],
         staffRole' \in [StaffRoles -> Presence],
         home' \in [StaffRoles -> Departments \cup {Null}]
  PROVE  OrgTyped'
BY DEF OrgTyped, OrgTypeOK, OrgStates, Continue

\* What an org says of the departments and roles it has.
LEMMA OrgPlaces ==
  ASSUME NEW org \in MasterOrgs \cup {SeedOrg}
  PROVE  /\ DOMAIN org.superior \subseteq Departments
         /\ \A d \in DOMAIN org.superior :
              Placed(org, d) \in Departments \cup {Null}
         /\ Housed(org) \subseteq StaffRoles
         /\ \A x \in Housed(org) : org.home[x] \in Departments
<1>1. org \in Orgs
  BY OrgsAssumption
<1>2. PICK S \in SUBSET Departments :
        org.superior \in [S -> Departments \cup {Null}]
  BY <1>1 DEF Orgs
<1>3. PICK T \in SUBSET StaffRoles : org.home \in [T -> Departments]
  BY <1>1 DEF Orgs
<1> QED
  BY <1>2, <1>3 DEF Placed, Housed

LEMMA OrgStarts ==
  ASSUME OrgTyped, NEW r \in Requests, UNCHANGED <<departmentRows, roleRows>>,
         \/ \E d \in Departments, above \in Departments \cup {Null} :
              CreateDepartment(r, d, above) \/ UpdateDepartment(r, d, above)
         \/ \E x \in StaffRoles, d \in Departments :
              CreateEmployeeRole(r, x, d) \/ UpdateEmployeeRole(r, x, d)
         \/ \E org \in MasterOrgs \cup {SeedOrg} : ImportOrg(r, org)
         \/ Reply(r)
  PROVE  OrgTyped'
<1>1. \E c \in OrgStates : Continue(r, c)
  <2>1. ASSUME NEW d \in Departments, NEW above \in Departments \cup {Null},
               CreateDepartment(r, d, above) \/ UpdateDepartment(r, d, above)
        PROVE  \E c \in OrgStates : Continue(r, c)
    <3>1. \A op \in {"createDepartment", "updateDepartment"} :
            [op |-> op, dept |-> d, above |-> above] \in OrgStates
      BY DEF OrgStates, OrgRequest
    <3> QED
      BY <2>1, <3>1 DEF CreateDepartment, UpdateDepartment
  <2>2. ASSUME NEW x \in StaffRoles, NEW d \in Departments,
               CreateEmployeeRole(r, x, d) \/ UpdateEmployeeRole(r, x, d)
        PROVE  \E c \in OrgStates : Continue(r, c)
    <3>1. \A op \in {"createRole", "updateRole"} :
            [op |-> op, role |-> x, dept |-> d] \in OrgStates
      BY DEF OrgStates, OrgRequest
    <3> QED
      BY <2>2, <3>1 DEF CreateEmployeeRole, UpdateEmployeeRole
  <2>3. ASSUME NEW org \in MasterOrgs \cup {SeedOrg}, ImportOrg(r, org)
        PROVE  \E c \in OrgStates : Continue(r, c)
    <3> PICK depts : depts = DOMAIN org.superior \ LiveIn(department)
      OBVIOUS
    <3> PICK roles : roles = Housed(org) \ LiveIn(staffRole)
      OBVIOUS
    <3>1. /\ Continue(r, [op |-> "import", org |-> org, depts |-> depts,
                          roles |-> roles])
      BY <2>3 DEF ImportOrg
    <3>2. /\ depts \subseteq Departments /\ roles \subseteq StaffRoles
          /\ depts \subseteq DOMAIN org.superior /\ roles \subseteq Housed(org)
      BY OrgPlaces
    <3>3. [op |-> "import", org |-> org, depts |-> depts, roles |-> roles]
            \in OrgStates
      BY <3>2 DEF OrgStates, OrgRequest
    <3> QED
      BY <3>1, <3>3
  <2>4. Idle \in OrgStates
    BY DEF OrgStates, OrgRequest, Idle
  <2> QED
    BY <2>1, <2>2, <2>3, <2>4 DEF Reply
<1> QED
  BY <1>1, OrgGoesOn DEF OrgTyped, OrgTypeOK, departmentRows, roleRows

LEMMA OrgWrites ==
  ASSUME OrgTyped, NEW r \in Requests,
         \/ InsertDepartment(r) \/ WriteDepartment(r)
         \/ InsertEmployeeRole(r) \/ WriteEmployeeRole(r)
         \/ WriteImport(r)
  PROVE  OrgTyped'
<1>0. /\ department \in [Departments -> Presence]
      /\ superior \in [Departments -> Departments \cup {Null}]
      /\ staffRole \in [StaffRoles -> Presence]
      /\ home \in [StaffRoles -> Departments \cup {Null}]
      /\ Idle \in OrgStates
  BY DEF OrgTyped, OrgTypeOK, OrgStates, OrgRequest, Idle
<1>1. CASE InsertDepartment(r) \/ WriteDepartment(r)
  <2>1. /\ req[r].dept \in Departments
        /\ req[r].above \in Departments \cup {Null}
    BY <1>1, OrgFields DEF InsertDepartment, WriteDepartment
  <2> QED
    BY <1>0, <1>1, <2>1, OrgGoesOn
       DEF InsertDepartment, WriteDepartment, Reply, Presence, roleRows
<1>2. CASE InsertEmployeeRole(r) \/ WriteEmployeeRole(r)
  <2>1. req[r].role \in StaffRoles /\ req[r].dept \in Departments
    BY <1>2, OrgFields DEF InsertEmployeeRole, WriteEmployeeRole
  <2> QED
    BY <1>0, <1>2, <2>1, OrgGoesOn
       DEF InsertEmployeeRole, WriteEmployeeRole, Reply, Presence,
           departmentRows
<1>3. CASE WriteImport(r)
  <2> PICK org : org = req[r].org
    OBVIOUS
  <2> PICK depts : depts = req[r].depts
    OBVIOUS
  <2> PICK roles : roles = req[r].roles
    OBVIOUS
  <2>1. /\ org \in MasterOrgs \cup {SeedOrg}
          /\ depts \subseteq DOMAIN org.superior /\ roles \subseteq Housed(org)
    BY <1>3, OrgFields DEF WriteImport
  <2>2. /\ department' = [d \in Departments |->
                            IF d \in depts THEN "live" ELSE department[d]]
        /\ superior' = [d \in Departments |->
                          IF d \in depts THEN Placed(org, d)
                                         ELSE superior[d]]
        /\ staffRole' = [x \in StaffRoles |->
                           IF x \in roles THEN "live" ELSE staffRole[x]]
        /\ home' = [x \in StaffRoles |->
                      IF x \in roles THEN org.home[x] ELSE home[x]]
    BY <1>3 DEF WriteImport
  <2> QED
    BY <1>0, <1>3, <2>1, <2>2, OrgGoesOn, OrgPlaces
       DEF WriteImport, Reply, Presence
<1> QED
  BY <1>1, <1>2, <1>3

LEMMA OrgTypedStep ==
  ASSUME OrgTyped, OrgNext
  PROVE  OrgTyped'
<1>0. /\ department \in [Departments -> Presence]
      /\ superior \in [Departments -> Departments \cup {Null}]
      /\ staffRole \in [StaffRoles -> Presence]
      /\ home \in [StaffRoles -> Departments \cup {Null}]
      /\ Idle \in OrgStates
  BY DEF OrgTyped, OrgTypeOK, OrgStates, OrgRequest, Idle
<1>1. ASSUME NEW r \in Requests,
             \/ \E d \in Departments : DeleteDepartment(r, d)
             \/ \E x \in StaffRoles : DeleteEmployeeRole(r, x)
      PROVE  OrgTyped'
  BY <1>0, <1>1, OrgGoesOn DEF DeleteDepartment, DeleteEmployeeRole,
     roleRows, departmentRows, Presence
<1>2. ASSUME NEW r \in Requests, OrgAbandon(r)
      PROVE  OrgTyped'
  BY <1>2, OrgStarts DEF OrgAbandon, Abandon
<1>3. ASSUME NEW r \in Requests,
             \/ \E d \in Departments, above \in Departments \cup {Null} :
                  \/ CreateDepartment(r, d, above)
                  \/ UpdateDepartment(r, d, above)
             \/ \E x \in StaffRoles, d \in Departments :
                  CreateEmployeeRole(r, x, d) \/ UpdateEmployeeRole(r, x, d)
             \/ \E org \in MasterOrgs \cup {SeedOrg} : ImportOrg(r, org)
      PROVE  OrgTyped'
  <2>1. UNCHANGED <<departmentRows, roleRows>>
    BY <1>3 DEF CreateDepartment, UpdateDepartment, CreateEmployeeRole,
       UpdateEmployeeRole, ImportOrg
  <2> QED
    BY <1>3, <2>1, OrgStarts
<1> QED
  BY <1>1, <1>2, <1>3, OrgWrites DEF OrgNext, OrgHandler

LEMMA OrgTypedInit == OrgInit => OrgTyped
BY DEF OrgInit, HandlersInit, OrgTyped, OrgTypeOK, OrgStates, OrgRequest,
   Presence, Idle

-----------------------------------------------------------------------------
(***************************************************************************)
(* Imports of an org: what OrgStands says of an import that is not         *)
(* overtaken is kept, and an import of which it holds is whole.            *)
(***************************************************************************)
OrgInv(r) == r \in Requests /\ OrgTyped /\ OrgStands(req[r])

\* What ImportsAreWhole asks of a step.
OrgWhole(r) ==
  WriteImport(r)
    /\ (department' # department \/ staffRole' # staffRole) =>
  LET org == req[r].org
      made == {d \in Departments : department'[d] # department[d]}
  IN /\ DOMAIN org.superior \subseteq LiveIn(department')
     /\ Housed(org) \subseteq LiveIn(staffRole')
     /\ \A d \in made :
          LET above == org.superior[d]
          IN above \in DOMAIN org.superior
               /\ (org.superior[above] = Null \/ above < d) =>
             superior'[d] = above
     /\ \A d \in Departments \ made : superior'[d] = superior[d]
     /\ \A x \in StaffRoles :
          staffRole'[x] # staffRole[x] =>
            home'[x] \in LiveIn(department')

LEMMA OrgWholeWrite ==
  ASSUME NEW r \in Requests, OrgInv(r), WriteImport(r)
  PROVE  OrgWhole(r)
<1> PICK org : org = req[r].org
  OBVIOUS
<1> PICK depts : depts = req[r].depts
  OBVIOUS
<1> PICK roles : roles = req[r].roles
  OBVIOUS
<1>1. /\ org \in MasterOrgs \cup {SeedOrg}
      /\ depts = DOMAIN org.superior \ LiveIn(department)
      /\ roles = Housed(org) \ LiveIn(staffRole)
  BY OrgFields DEF OrgInv, OrgStands, WriteImport
<1>2. /\ \A d \in depts : department[d] = "absent"
      /\ \A x \in roles : staffRole[x] = "absent"
      /\ department' = [d \in Departments |->
                          IF d \in depts THEN "live" ELSE department[d]]
      /\ superior' = [d \in Departments |->
                        IF d \in depts THEN Placed(org, d)
                                       ELSE superior[d]]
      /\ staffRole' = [x \in StaffRoles |->
                         IF x \in roles THEN "live" ELSE staffRole[x]]
      /\ home' = [x \in StaffRoles |->
                    IF x \in roles THEN org.home[x] ELSE home[x]]
  BY DEF WriteImport
<1>3. /\ DOMAIN org.superior \subseteq Departments
      /\ Housed(org) \subseteq StaffRoles
      /\ \A x \in Housed(org) : org.home[x] \in DOMAIN org.superior
  BY <1>1, OrgPlaces DEF Housed
<1>4. /\ DOMAIN org.superior \subseteq LiveIn(department')
      /\ Housed(org) \subseteq LiveIn(staffRole')
  BY <1>1, <1>2, <1>3 DEF LiveIn, OrgInv, OrgTyped, OrgTypeOK
<1>5. \A d \in Departments : department'[d] # department[d] <=> d \in depts
  BY <1>2
<1>6. \A d \in depts :
        LET above == org.superior[d]
        IN above \in DOMAIN org.superior
             /\ (org.superior[above] = Null \/ above < d) =>
           superior'[d] = above
  BY <1>1, <1>2, <1>3 DEF Placed
<1>7. \A d \in Departments \ depts : superior'[d] = superior[d]
  BY <1>2
<1>8. \A x \in StaffRoles : staffRole'[x] # staffRole[x] =>
                               home'[x] \in LiveIn(department')
  BY <1>1, <1>2, <1>3, <1>4
<1> QED
  BY <1>4, <1>5, <1>6, <1>7, <1>8 DEF OrgWhole

LEMMA OrgInvStep ==
  ASSUME NEW r \in Requests, OrgInv(r), OrgHandler(r)
  PROVE  OrgInv(r)' /\ OrgWhole(r)
<1>1. OrgTyped /\ OrgTyped'
  BY OrgTypedStep DEF OrgInv, OrgNext
<1>2. CASE WriteImport(r)
  <2>1. req'[r] = Idle
    BY <1>1, <1>2 DEF WriteImport, Reply, Continue, OrgTyped
  <2> QED
    BY <1>1, <1>2, <2>1, OrgWholeWrite DEF OrgInv, OrgStands, Idle
<1>3. ASSUME NEW org, ImportOrg(r, org)
      PROVE  OrgInv(r)' /\ OrgWhole(r)
  <2> PICK c : c = [op |-> "import", org |-> org,
                    depts |-> DOMAIN org.superior \ LiveIn(department),
                    roles |-> Housed(org) \ LiveIn(staffRole)]
    OBVIOUS
  <2>1. req'[r] = c /\ UNCHANGED <<department, staffRole>>
    BY <1>1, <1>3 DEF ImportOrg, Continue, OrgTyped, departmentRows, roleRows
  <2> QED
    BY <1>1, <2>1 DEF OrgInv, OrgStands, OrgWhole
<1>4. CASE OrgAbandon(r)
  <2>1. req'[r] = Idle /\ UNCHANGED <<department, staffRole>>
    BY <1>1, <1>4 DEF OrgAbandon, Abandon, Reply, Continue, OrgTyped,
       departmentRows, roleRows
  <2> QED
    BY <1>1, <2>1 DEF OrgInv, OrgStands, OrgWhole, Idle
<1>5. ASSUME req[r].op # "import", req'[r].op # "import"
      PROVE  OrgInv(r)' /\ OrgWhole(r)
  <2>1. ~WriteImport(r)
    BY <1>5 DEF WriteImport
  <2> QED
    BY <1>1, <1>5, <2>1 DEF OrgInv, OrgStands, OrgWhole
<1>6. ASSUME NEW d, NEW above,
             CreateDepartment(r, d, above) \/ UpdateDepartment(r, d, above)
      PROVE  OrgInv(r)' /\ OrgWhole(r)
  <2>1. req'[r].op \in {"createDepartment", "updateDepartment"}
          /\ req[r] = Idle
    BY <1>1, <1>6
       DEF CreateDepartment, UpdateDepartment, Continue, OrgTyped
  <2> QED
    BY <1>5, <2>1 DEF Idle
<1>7. ASSUME NEW x, NEW d,
             CreateEmployeeRole(r, x, d) \/ UpdateEmployeeRole(r, x, d)
      PROVE  OrgInv(r)' /\ OrgWhole(r)
  <2>1. req'[r].op \in {"createRole", "updateRole"} /\ req[r] = Idle
    BY <1>1, <1>7
       DEF CreateEmployeeRole, UpdateEmployeeRole, Continue, OrgTyped
  <2> QED
    BY <1>5, <2>1 DEF Idle
<1>8. ASSUME NEW d, DeleteDepartment(r, d) \/ DeleteEmployeeRole(r, d)
      PROVE  OrgInv(r)' /\ OrgWhole(r)
  BY <1>5, <1>8 DEF DeleteDepartment, DeleteEmployeeRole, Idle
<1>9. CASE \/ InsertDepartment(r) \/ WriteDepartment(r)
           \/ InsertEmployeeRole(r) \/ WriteEmployeeRole(r)
  <2>1. req'[r] = Idle /\ req[r].op # "import"
    BY <1>1, <1>9 DEF InsertDepartment, WriteDepartment, InsertEmployeeRole,
       WriteEmployeeRole, Reply, Continue, OrgTyped
  <2> QED
    BY <1>5, <2>1 DEF Idle
<1> QED
  BY <1>2, <1>3, <1>4, <1>6, <1>7, <1>8, <1>9 DEF OrgHandler

\* Whatever handlers do that are not overtaken, imports are whole.
LEMMA ImportsByAnyHandler ==
  ASSUME OrgTyped
  PROVE  ImportsAreWhole
<1> SUFFICES ASSUME NEW r \in Requests, OrgHandler(r), OrgStands(req[r])
             PROVE  OrgStands(req[r])' /\ OrgWhole(r)
  BY DEF ImportsAreWhole, OrgWhole
<1>1. OrgInv(r)
  BY DEF OrgInv
<1>2. OrgInv(r)' /\ OrgWhole(r)
  BY <1>1, OrgInvStep
<1> QED
  BY <1>2 DEF OrgInv

-----------------------------------------------------------------------------
(***************************************************************************)
(* The catalogue: types.                                                   *)
(***************************************************************************)
\* A period is being renamed only where the pool is of periods.
CatalogStates ==
  {q \in CatalogRequest : q.op = "renamePeriod" => poolTable = "Period"}

CatalogTyped == CatalogTypeOK /\ req \in [Requests -> CatalogStates]

LEMMA CatalogStarts ==
  \A q : q \in SeedReq \cup DeleteYearReq \cup CreateClassReq \cup {Idle} =>
    q \in CatalogStates
BY DEF CatalogStates, CatalogRequest, SeedReq, DeleteYearReq, CreateClassReq,
   Idle

LEMMA SeedTyped ==
  ASSUME NEW q \in SeedReq, NEW at \in {"guard", "insert"}
  PROVE  /\ [q EXCEPT !.at = at] \in SeedReq
         /\ [q EXCEPT !.at = at].kind = q.kind
         /\ [q EXCEPT !.at = at].at = at
         /\ [q EXCEPT !.at = at].op = "seed"
         /\ \A y \in Years :
              LET next == [q EXCEPT !.at = at, !.year = y]
              IN next \in SeedReq /\ next.kind = q.kind /\ next.at = at
BY DEF SeedReq

LEMMA SeedingTyped ==
  ASSUME NEW kind \in Seeded, NEW batch \in Batches, NEW rest \in Seq(Seeded)
  PROVE  /\ Seeding(kind, batch, rest) \in SeedReq
         /\ Seeding(kind, batch, rest).kind = kind
         /\ Seeding(kind, batch, rest).at = FirstStage(kind)
<1>1. FirstStage(kind) \in {"year", "purge", "guard"}
  BY DEF FirstStage, Seeded
<1> QED
  BY <1>1 DEF Seeding, SeedReq

LEMMA CatalogFields ==
  ASSUME CatalogTyped, NEW r \in Requests
  PROVE  /\ req[r].op = "seed" => req[r] \in SeedReq
         /\ req[r].op = "deleteYear" => req[r].year \in Years
         /\ req[r].op = "createClass" => req[r].class \in Classes
         /\ req[r].op = "renamePeriod" =>
              req[r] \in RenamePeriodReq /\ poolTable = "Period"
<1>1. req[r] \in CatalogRequest
        /\ (req[r].op = "renamePeriod" => poolTable = "Period")
  BY DEF CatalogTyped, CatalogStates
<1> QED
  BY <1>1 DEF CatalogRequest, SeedReq, DeleteYearReq, CreateClassReq,
     RenamePeriodReq, Idle

LEMMA CatalogGoesOn ==
  ASSUME CatalogTyped, NEW r \in Requests,
         \/ UNCHANGED req
         \/ Reply(r)
         \/ \E c \in CatalogStates : Continue(r, c),
         year' \in [Years -> Presence], active' \subseteq Years,
         class' \in [Classes -> Presence], UNCHANGED poolTable,
         pool' \in [Names -> Presence]
  PROVE  CatalogTyped'
<1>1. CatalogStates' = CatalogStates
  BY DEF CatalogStates
<1>2. req' \in [Requests -> CatalogStates]
  BY CatalogStarts DEF CatalogTyped, Reply, Continue
<1>3. req' \in [Requests -> CatalogRequest]
  BY <1>2 DEF CatalogStates
<1> QED
  BY <1>1, <1>2, <1>3 DEF CatalogTyped, CatalogTypeOK

LEMMA SeedFinishes ==
  ASSUME CatalogTyped, NEW r \in Requests, req[r].op = "seed", FinishSeed(r)
  PROVE  Reply(r) \/ \E c \in CatalogStates : Continue(r, c)
<1> SUFFICES ASSUME req[r].rest # <<>>
             PROVE  \E c \in CatalogStates : Continue(r, c)
  BY DEF FinishSeed
<1>1. req[r].rest \in Seq(Seeded) /\ req[r].batch \in Batches
  BY CatalogFields DEF SeedReq
<1>2. Head(req[r].rest) \in Seeded /\ Tail(req[r].rest) \in Seq(Seeded)
  BY <1>1
<1>3. Seeding(Head(req[r].rest), req[r].batch, Tail(req[r].rest)) \in SeedReq
  BY <1>1, <1>2, SeedingTyped
<1> QED
  BY <1>3, CatalogStarts DEF FinishSeed

LEMMA RowsTyped ==
  /\ \A keys, S : \A table \in [S -> Presence] :
       InsertNew(table, keys) \in [S -> Presence]
  /\ \A table2, old, new, S : \A table \in [S -> Presence] :
       Renames(table, table2, old, new) => table2 \in [S -> Presence]
<1>1. ASSUME NEW keys, NEW S, NEW table \in [S -> Presence]
      PROVE  InsertNew(table, keys) \in [S -> Presence]
  BY DEF InsertNew, Presence
<1>2. ASSUME NEW old, NEW new, NEW S, NEW table \in [S -> Presence],
             NEW table2, Renames(table, table2, old, new)
      PROVE  table2 \in [S -> Presence]
  BY <1>2 DEF Renames, Presence
<1> QED
  BY <1>1, <1>2

LEMMA CatalogRows ==
  ASSUME CatalogTyped, NEW r \in Requests,
         \/ \E y \in Years, isActive \in BOOLEAN :
              \/ CreateAcademicYear(r, y, isActive)
              \/ UpdateAcademicYear(r, y, isActive)
         \/ RemoveYear(r) \/ InsertClass(r)
         \/ \E c \in Classes : DeleteClass(r, c)
         \/ \E c \in Classes, name \in Names : UpdateClass(r, c, name)
         \/ \E n \in Names, name \in Names :
              \/ CreatePoolRow(r, n) \/ DeletePoolRow(r, n)
              \/ UpdatePoolRow(r, n, name)
  PROVE  CatalogTyped'
<1>0. /\ year \in [Years -> Presence] /\ active \subseteq Years
      /\ class \in [Classes -> Presence] /\ pool \in [Names -> Presence]
      /\ {"live", "deleted", "absent"} \subseteq Presence
  BY DEF CatalogTyped, CatalogTypeOK, Presence
<1>1. ASSUME NEW y \in Years, NEW isActive \in BOOLEAN,
             \/ CreateAcademicYear(r, y, isActive)
             \/ UpdateAcademicYear(r, y, isActive)
      PROVE  CatalogTyped'
  BY <1>0, <1>1, CatalogGoesOn DEF CreateAcademicYear, UpdateAcademicYear
<1>2. CASE RemoveYear(r)
  BY <1>0, <1>2, CatalogGoesOn DEF RemoveYear
<1>3. CASE InsertClass(r)
  BY <1>0, <1>3, CatalogGoesOn DEF InsertClass
<1>4. ASSUME NEW c \in Classes, DeleteClass(r, c)
      PROVE  CatalogTyped'
  BY <1>0, <1>4, CatalogGoesOn DEF DeleteClass
<1>5. ASSUME NEW c \in Classes, NEW name \in Names, UpdateClass(r, c, name)
      PROVE  CatalogTyped'
  BY <1>0, <1>5, CatalogGoesOn, RowsTyped DEF UpdateClass
<1>6. ASSUME NEW n \in Names, NEW name \in Names,
             \/ CreatePoolRow(r, n) \/ DeletePoolRow(r, n)
             \/ UpdatePoolRow(r, n, name)
      PROVE  CatalogTyped'
  BY <1>0, <1>6, CatalogGoesOn, RowsTyped
     DEF CreatePoolRow, DeletePoolRow, UpdatePoolRow
<1> QED
  BY <1>1, <1>2, <1>3, <1>4, <1>5, <1>6

LEMMA CatalogSeeds ==
  ASSUME CatalogTyped, NEW r \in Requests,
         \/ PurgePool(r)
         \/ InsertYears(r) \/ InsertClasses(r) \/ InsertPool(r)
  PROVE  CatalogTyped'
<1>0. /\ year \in [Years -> Presence] /\ active \subseteq Years
      /\ class \in [Classes -> Presence] /\ pool \in [Names -> Presence]
      /\ {"live", "deleted", "absent"} \subseteq Presence
      /\ CurrentYears \subseteq Years
  BY SeedYearsAssumption DEF CatalogTyped, CatalogTypeOK, Presence
<1>1. CASE PurgePool(r)
  <2>1. [req[r] EXCEPT !.at = "guard"] \in CatalogStates
    BY <1>1, SeedTyped, CatalogFields, CatalogStarts DEF PurgePool
  <2>2. pool' \in [Names -> Presence]
    BY <1>0, <1>1 DEF PurgePool
  <2> QED
    BY <1>0, <1>1, <2>1, <2>2, CatalogGoesOn DEF PurgePool
<1>2. CASE InsertYears(r)
  BY <1>0, <1>2, SeedFinishes, CatalogGoesOn, RowsTyped DEF InsertYears
<1>3. CASE InsertClasses(r)
  BY <1>0, <1>3, SeedFinishes, CatalogGoesOn, RowsTyped DEF InsertClasses
<1>4. CASE InsertPool(r)
  BY <1>0, <1>4, SeedFinishes, CatalogGoesOn, RowsTyped DEF InsertPool
<1> QED
  BY <1>1, <1>2, <1>3, <1>4

LEMMA CatalogReads ==
  ASSUME CatalogTyped, NEW r \in Requests,
         \/ \E y \in Years : DeleteAcademicYear(r, y)
         \/ \E c \in Classes : CreateClass(r, c)
         \/ \E batch \in Batches, kind \in Seeded :
              SeedCatalog(r, kind, batch) \/ SeedDefaultSetup(r, batch)
         \/ \E n \in Names, name \in Names : UpdatePeriod(r, n, name)
         \/ ResolveYear(r) \/ GuardSeed(r) \/ CatalogAbandon(r)
  PROVE  CatalogTyped'
<1>1. UNCHANGED catalog
  BY DEF DeleteAcademicYear, CreateClass, SeedCatalog, SeedDefaultSetup,
     UpdatePeriod, ResolveYear, GuardSeed, CatalogAbandon
<1>2. Reply(r) \/ \E c \in CatalogStates : Continue(r, c)
  <2>1. ASSUME NEW y \in Years, DeleteAcademicYear(r, y)
        PROVE  \E c \in CatalogStates : Continue(r, c)
    <3>1. [op |-> "deleteYear", year |-> y] \in CatalogStates
      BY CatalogStarts DEF DeleteYearReq
    <3> QED
      BY <2>1, <3>1 DEF DeleteAcademicYear
  <2>2. ASSUME NEW c \in Classes, CreateClass(r, c)
        PROVE  \E q \in CatalogStates : Continue(r, q)
    <3>1. [op |-> "createClass", class |-> c] \in CatalogStates
      BY CatalogStarts DEF CreateClassReq
    <3> QED
      BY <2>2, <3>1 DEF CreateClass
  <2>3. ASSUME NEW batch \in Batches, NEW kind \in Seeded,
               SeedCatalog(r, kind, batch) \/ SeedDefaultSetup(r, batch)
        PROVE  \E c \in CatalogStates : Continue(r, c)
    <3>1. /\ Seeding(kind, batch, <<>>) \in CatalogStates
          /\ Seeding("Year", batch, <<"Class", "Pool">>) \in CatalogStates
      <4>1. /\ <<>> \in Seq(Seeded) /\ <<"Class", "Pool">> \in Seq(Seeded)
            /\ "Year" \in Seeded
        BY DEF Seeded
      <4>2. /\ Seeding(kind, batch, <<>>) \in SeedReq
            /\ Seeding("Year", batch, <<"Class", "Pool">>) \in SeedReq
        BY <4>1, SeedingTyped
      <4> QED
        BY <4>2, CatalogStarts
    <3> QED
      BY <2>3, <3>1 DEF SeedCatalog, SeedDefaultSetup
  <2>4. CASE ResolveYear(r)
    <3>1. PICK y \in Live(year) :
            Continue(r, [req[r] EXCEPT !.at = "guard", !.year = y])
      BY <2>4 DEF ResolveYear
    <3>2. req[r] \in SeedReq /\ y \in Years
      BY <2>4, <3>1, CatalogFields DEF ResolveYear, Live,
         CatalogTyped, CatalogTypeOK
    <3>3. [req[r] EXCEPT !.at = "guard", !.year = y] \in CatalogStates
      BY <3>2, SeedTyped, CatalogStarts
    <3> QED
      BY <3>1, <3>3
  <2>5. CASE GuardSeed(r)
    <3>1. [req[r] EXCEPT !.at = "insert"] \in CatalogStates
      BY <2>5, SeedTyped, CatalogFields, CatalogStarts DEF GuardSeed
    <3> QED
      BY <2>5, <3>1 DEF GuardSeed
  <2>6. CASE CatalogAbandon(r)
    BY <2>6 DEF CatalogAbandon, Abandon
  <2>7. ASSUME NEW n \in Names, NEW name \in Names, UpdatePeriod(r, n, name)
        PROVE  \E c \in CatalogStates : Continue(r, c)
    <3>1. [op |-> "renamePeriod", row |-> n, name |-> name] \in CatalogStates
      BY <2>7 DEF UpdatePeriod, CatalogStates, CatalogRequest, RenamePeriodReq
    <3> QED
      BY <2>7, <3>1 DEF UpdatePeriod
  <2> QED
    BY <2>1, <2>2, <2>3, <2>4, <2>5, <2>6, <2>7
<1>3. /\ year' \in [Years -> Presence] /\ active' \subseteq Years
      /\ class' \in [Classes -> Presence] /\ UNCHANGED poolTable
      /\ pool' \in [Names -> Presence]
  BY <1>1 DEF CatalogTyped, CatalogTypeOK, catalog
<1> QED
  BY <1>2, <1>3, CatalogGoesOn

\* A period that is renamed keeps its state, and who holds its id follows.
LEMMA RenameFacts ==
  ASSUME CatalogTyped, NEW r \in Requests, RenamePeriod(r)
  PROVE  \E old \in Names, new \in Names :
           /\ poolTable = "Period" /\ pool[new] = "absent"
           /\ pool' = [pool EXCEPT ![old] = "absent", ![new] = pool[old]]
           /\ pool' \in [Names -> Presence]
           /\ req'[r] = Idle
           /\ req' \in [Requests -> CatalogStates]
           /\ UNCHANGED <<year, active, class, poolTable>>
<1>1. req[r] \in RenamePeriodReq /\ poolTable = "Period"
  BY CatalogFields DEF RenamePeriod
<1> PICK old \in Names, new \in Names :
      old = req[r].row /\ new = req[r].name
  BY <1>1 DEF RenamePeriodReq
<1>2. /\ pool[new] = "absent"
      /\ pool' = [pool EXCEPT ![old] = "absent", ![new] = pool[old]]
      /\ UNCHANGED <<year, active, class, poolTable>>
      /\ req' = [q \in Requests |->
           CASE q = r -> Idle
             [] req[q].op = "renamePeriod" /\ req[q].row = old /\ q # r ->
                  [req[q] EXCEPT !.row = new]
             [] OTHER -> req[q]]
  BY DEF RenamePeriod
<1>3. pool' \in [Names -> Presence]
  BY <1>2 DEF CatalogTyped, CatalogTypeOK, Presence
<1>4. ASSUME NEW q \in Requests
      PROVE  req'[q] \in CatalogStates
  <2>1. CASE q = r
    BY <1>2, <2>1, CatalogStarts
  <2>2. CASE q # r /\ req[q].op = "renamePeriod" /\ req[q].row = old
    <3>1. req'[q] = [req[q] EXCEPT !.row = new]
      BY <1>2, <2>2
    <3>2. req[q] \in RenamePeriodReq
      BY <2>2, CatalogFields
    <3>3. [req[q] EXCEPT !.row = new] \in RenamePeriodReq
      BY <3>2 DEF RenamePeriodReq
    <3> QED
      BY <1>1, <3>1, <3>3 DEF CatalogStates, CatalogRequest
  <2>3. CASE q # r /\ ~(req[q].op = "renamePeriod" /\ req[q].row = old)
    <3>1. req'[q] = req[q]
      BY <1>2, <2>3
    <3> QED
      BY <3>1 DEF CatalogTyped
  <2> QED
    BY <2>1, <2>2, <2>3
<1>5. req' \in [Requests -> CatalogStates]
  BY <1>2, <1>4
<1>6. req'[r] = Idle
  BY <1>2
<1> QED
  BY <1>1, <1>2, <1>3, <1>5, <1>6

LEMMA CatalogTypes ==
  ASSUME CatalogTyped, CatalogNext
  PROVE  CatalogTyped'
<1> PICK r \in Requests : CatalogHandler(r)
  BY DEF CatalogNext
<1>1. \/ \E y \in Years, isActive \in BOOLEAN :
           \/ CreateAcademicYear(r, y, isActive)
           \/ UpdateAcademicYear(r, y, isActive)
      \/ \E y \in Years : DeleteAcademicYear(r, y)
      \/ RemoveYear(r) \/ InsertClass(r)
      \/ \E c \in Classes : CreateClass(r, c) \/ DeleteClass(r, c)
      \/ \E c \in Classes, name \in Names : UpdateClass(r, c, name)
      \/ \E n \in Names, name \in Names :
           \/ CreatePoolRow(r, n) \/ DeletePoolRow(r, n)
           \/ UpdatePoolRow(r, n, name) \/ UpdatePeriod(r, n, name)
      \/ RenamePeriod(r)
      \/ \E batch \in Batches, kind \in Seeded :
           SeedCatalog(r, kind, batch) \/ SeedDefaultSetup(r, batch)
      \/ ResolveYear(r) \/ PurgePool(r) \/ GuardSeed(r) \/ InsertYears(r)
      \/ InsertClasses(r) \/ InsertPool(r) \/ CatalogAbandon(r)
  BY Zenon DEF CatalogHandler, Seeded
<1>2. CASE RenamePeriod(r)
  <2>1. /\ poolTable' = poolTable /\ pool' \in [Names -> Presence]
        /\ req' \in [Requests -> CatalogStates]
        /\ UNCHANGED <<year, active, class>>
    BY <1>2, RenameFacts
  <2>2. CatalogStates' = CatalogStates
    BY <2>1 DEF CatalogStates
  <2> QED
    BY <2>1, <2>2 DEF CatalogTyped, CatalogTypeOK, CatalogStates
<1> QED
  BY <1>1, <1>2, CatalogRows, CatalogSeeds, CatalogReads

LEMMA CatalogTypesInit == CatalogInit => CatalogTyped
BY CatalogStarts DEF CatalogInit, HandlersInit, CatalogTyped, CatalogTypeOK,
   CatalogRequest, Presence

CatalogKept ==
  /\ \A y \in Years : year[y] = "deleted" => year'[y] = "deleted"
  /\ \A c \in Classes : class[c] = "deleted" => class'[c] = "deleted"
  /\ \A n \in Names : pool[n] = "deleted" =>
       \/ pool'[n] = "deleted"
       \/ poolTable = "Section" /\ pool'[n] = "absent"
       \/ poolTable = "Period" /\ pool'[n] = "absent"
            /\ \E name \in Names : /\ pool[name] = "absent"
                                   /\ pool'[name] = "deleted"

LEMMA CatalogStep ==
  ASSUME CatalogTyped, CatalogNext
  PROVE  CatalogKept
<1> USE DEF CatalogKept
<1>0. /\ year \in [Years -> Presence] /\ class \in [Classes -> Presence]
      /\ pool \in [Names -> Presence]
  BY DEF CatalogTyped, CatalogTypeOK
<1>1. ASSUME UNCHANGED catalog
      PROVE  CatalogKept
  BY <1>1 DEF catalog
<1>2. ASSUME NEW r \in Requests, NEW y \in Years, NEW isActive \in BOOLEAN,
             \/ CreateAcademicYear(r, y, isActive)
             \/ UpdateAcademicYear(r, y, isActive)
      PROVE  CatalogKept
  BY <1>0, <1>2 DEF CreateAcademicYear, UpdateAcademicYear
<1>3. ASSUME NEW r \in Requests, RemoveYear(r)
      PROVE  CatalogKept
  BY <1>0, <1>3 DEF RemoveYear
<1>4. ASSUME NEW r \in Requests, InsertClass(r)
      PROVE  CatalogKept
  BY <1>0, <1>4 DEF InsertClass
<1>5. ASSUME NEW r \in Requests, NEW c \in Classes, NEW name \in Names,
             UpdateClass(r, c, name)
      PROVE  CatalogKept
  BY <1>0, <1>5 DEF UpdateClass, Renames
<1>6. ASSUME NEW r \in Requests, NEW n \in Names, NEW name \in Names,
             UpdatePoolRow(r, n, name)
      PROVE  CatalogKept
  BY <1>0, <1>6 DEF UpdatePoolRow, Renames
<1>7. ASSUME NEW r \in Requests,
             InsertYears(r) \/ InsertClasses(r) \/ InsertPool(r)
      PROVE  CatalogKept
  BY <1>0, <1>7 DEF InsertYears, InsertClasses, InsertPool, InsertNew
<1>8. ASSUME NEW r \in Requests, PurgePool(r)
      PROVE  CatalogKept
  BY <1>8 DEF PurgePool
<1>9. ASSUME NEW r \in Requests, NEW c \in Classes, DeleteClass(r, c)
      PROVE  CatalogKept
  BY <1>0, <1>9 DEF DeleteClass
<1>10. ASSUME NEW r \in Requests, NEW n \in Names,
              CreatePoolRow(r, n) \/ DeletePoolRow(r, n)
       PROVE  CatalogKept
  BY <1>0, <1>10 DEF CreatePoolRow, DeletePoolRow
<1>11. ASSUME NEW r \in Requests, RenamePeriod(r)
       PROVE  CatalogKept
  <2> PICK old \in Names, new \in Names :
        /\ poolTable = "Period" /\ pool[new] = "absent"
        /\ pool' = [pool EXCEPT ![old] = "absent", ![new] = pool[old]]
        /\ UNCHANGED <<year, active, class>>
    BY <1>11, RenameFacts
  <2> QED
    BY <1>0
<1>12. \E r \in Requests :
         \/ UNCHANGED catalog
         \/ \E y \in Years, isActive \in BOOLEAN :
              \/ CreateAcademicYear(r, y, isActive)
              \/ UpdateAcademicYear(r, y, isActive)
         \/ RemoveYear(r) \/ InsertClass(r) \/ PurgePool(r)
         \/ RenamePeriod(r)
         \/ \E c \in Classes, name \in Names : UpdateClass(r, c, name)
         \/ \E c \in Classes : DeleteClass(r, c)
         \/ \E n \in Names, name \in Names : UpdatePoolRow(r, n, name)
         \/ \E n \in Names : CreatePoolRow(r, n) \/ DeletePoolRow(r, n)
         \/ InsertYears(r) \/ InsertClasses(r) \/ InsertPool(r)
  BY Zenon DEF CatalogNext, CatalogHandler, DeleteAcademicYear, CreateClass,
     SeedCatalog, SeedDefaultSetup, UpdatePeriod, ResolveYear, GuardSeed,
     CatalogAbandon
<1> QED
  BY <1>1, <1>2, <1>3, <1>4, <1>5, <1>6, <1>7, <1>8, <1>9, <1>10, <1>11,
     <1>12, Zenon

-----------------------------------------------------------------------------
(***************************************************************************)
(* Seeds of the pool: what PoolStands says of a seed that is not overtaken *)
(* is kept by its steps.                                                   *)
(***************************************************************************)
CatalogInv(r) == r \in Requests /\ CatalogTyped /\ PoolStands(req[r])

LEMMA PoolSeedIsWhole ==
  ASSUME CatalogTyped, NEW r \in Requests, InsertPool(r),
         poolTable # "Subject",
         poolTable = "Section" => PoolStands(req[r])
  PROVE  \A n \in req[r].batch : pool'[n] = "live"
<1> SUFFICES ASSUME NEW n \in req[r].batch PROVE pool'[n] = "live"
  OBVIOUS
<1>1. /\ req[r] \in SeedReq /\ req[r].kind = "Pool" /\ req[r].at = "insert"
      /\ req[r].op = "seed"
  BY CatalogFields DEF InsertPool
<1>2. n \in Names /\ pool \in [Names -> Presence]
  BY <1>1, BatchesAssumption DEF SeedReq, CatalogTyped, CatalogTypeOK
<1>3. pool[n] = "absent"
  <2>1. poolTable \in {"Section", "Period"}
    BY DEF CatalogTyped, CatalogTypeOK, PoolTables
  <2>2. CASE poolTable = "Period"
    BY <2>2 DEF InsertPool
  <2>3. CASE poolTable = "Section"
    BY <1>1, <1>2, <2>3 DEF PoolStands, Presence
  <2> QED
    BY <2>1, <2>2, <2>3
<1> QED
  BY <1>2, <1>3 DEF InsertPool, InsertNew

LEMMA PurgedOn ==
  ASSUME NEW r \in Requests, CatalogTyped, CatalogTyped',
         NEW c, Continue(r, c), PoolStands(c)'
  PROVE  CatalogInv(r)'
<1>1. req'[r] = c
  BY DEF CatalogTyped, CatalogStates, Continue
<1>2. PoolStands(req[r])'
  BY <1>1 DEF PoolStands
<1> QED
  BY <1>2 DEF CatalogInv

LEMMA IdlePurged == PoolStands(Idle)'
BY DEF PoolStands, Idle

LEMMA SeedingPurged ==
  ASSUME NEW kind \in Seeded, NEW batch, NEW rest
  PROVE  PoolStands(Seeding(kind, batch, rest))'
BY DEF PoolStands, Seeding, FirstStage

LEMMA CatalogInvStep ==
  ASSUME NEW r \in Requests, CatalogInv(r), CatalogHandler(r)
  PROVE  CatalogInv(r)'
<1>0. CatalogTyped /\ CatalogTyped' /\ PoolStands(req[r])
  BY CatalogTypes DEF CatalogInv, CatalogNext
<1>1. ASSUME req[r] = Idle, UNCHANGED req
      PROVE  CatalogInv(r)'
  <2>1. PoolStands(req[r])'
    BY <1>1, IdlePurged
  <2> QED
    BY <1>0, <2>1 DEF CatalogInv
<1>2. Reply(r) => CatalogInv(r)'
  BY <1>0, PurgedOn, IdlePurged DEF Reply
<1>3. ASSUME req[r].op = "seed", FinishSeed(r)
      PROVE  CatalogInv(r)'
  <2> SUFFICES ASSUME req[r].rest # <<>>
               PROVE  CatalogInv(r)'
    BY <1>2, <1>3 DEF FinishSeed
  <2>1. req[r].rest \in Seq(Seeded)
    BY <1>0, <1>3, CatalogFields DEF SeedReq
  <2>2. Head(req[r].rest) \in Seeded
    BY <2>1
  <2> QED
    BY <1>0, <1>3, <2>2, PurgedOn, SeedingPurged DEF FinishSeed
<1>4. CASE \/ \E y \in Years, isActive \in BOOLEAN :
                \/ CreateAcademicYear(r, y, isActive)
                \/ UpdateAcademicYear(r, y, isActive)
           \/ \E c \in Classes : DeleteClass(r, c)
           \/ \E c \in Classes, name \in Names : UpdateClass(r, c, name)
           \/ \E n \in Names, name \in Names :
                \/ CreatePoolRow(r, n) \/ DeletePoolRow(r, n)
                \/ UpdatePoolRow(r, n, name)
  BY <1>1, <1>4 DEF CreateAcademicYear, UpdateAcademicYear, DeleteClass,
     UpdateClass, CreatePoolRow, DeletePoolRow, UpdatePoolRow
<1>5. CASE RemoveYear(r) \/ InsertClass(r) \/ CatalogAbandon(r)
  BY <1>2, <1>5 DEF RemoveYear, InsertClass, CatalogAbandon, Abandon
<1>14. CASE RenamePeriod(r)
  <2>1. req'[r] = Idle
    BY <1>0, <1>14, RenameFacts
  <2>2. PoolStands(req[r])'
    BY <2>1, IdlePurged
  <2> QED
    BY <1>0, <2>2 DEF CatalogInv
<1>15. ASSUME NEW n \in Names, NEW name \in Names, UpdatePeriod(r, n, name)
       PROVE  CatalogInv(r)'
  <2>1. PICK c : Continue(r, c) /\ c.op = "renamePeriod"
    BY <1>15 DEF UpdatePeriod
  <2> QED
    BY <1>0, <2>1, PurgedOn DEF PoolStands
<1>6. CASE InsertYears(r) \/ InsertClasses(r) \/ InsertPool(r)
  BY <1>3, <1>6 DEF InsertYears, InsertClasses, InsertPool
<1>7. ASSUME NEW y \in Years, DeleteAcademicYear(r, y)
      PROVE  CatalogInv(r)'
  <2>1. PICK c : Continue(r, c) /\ c.op = "deleteYear"
    BY <1>7 DEF DeleteAcademicYear
  <2> QED
    BY <1>0, <2>1, PurgedOn DEF PoolStands
<1>8. ASSUME NEW k \in Classes, CreateClass(r, k)
      PROVE  CatalogInv(r)'
  <2>1. PICK c : Continue(r, c) /\ c.op = "createClass"
    BY <1>8 DEF CreateClass
  <2> QED
    BY <1>0, <2>1, PurgedOn DEF PoolStands
<1>9. ASSUME NEW batch \in Batches, NEW kind \in Seeded,
             SeedCatalog(r, kind, batch) \/ SeedDefaultSetup(r, batch)
      PROVE  CatalogInv(r)'
  <2>1. "Year" \in Seeded
    BY DEF Seeded
  <2> QED
    BY <1>0, <1>9, <2>1, PurgedOn, SeedingPurged
       DEF SeedCatalog, SeedDefaultSetup
<1>10. CASE ResolveYear(r)
  <2>1. PICK y \in Live(year) :
          Continue(r, [req[r] EXCEPT !.at = "guard", !.year = y])
    BY <1>10 DEF ResolveYear
  <2> PICK next : next = [req[r] EXCEPT !.at = "guard", !.year = y]
    OBVIOUS
  <2>2. req[r] \in SeedReq /\ y \in Years /\ req[r].at = "year"
          /\ req[r].op = "seed"
    BY <1>0, <1>10, CatalogFields DEF ResolveYear, Live,
         CatalogTyped, CatalogTypeOK
  <2>3. next.kind = req[r].kind
    BY <2>2, SeedTyped
  <2>4. next.op = "seed" /\ UNCHANGED <<pool, poolTable>>
    BY <1>10, <2>2, SeedTyped DEF ResolveYear, catalog, SeedReq
  <2>5. PoolStands(next)'
    BY <1>0, <2>2, <2>3, <2>4 DEF PoolStands
  <2> QED
    BY <1>0, <2>1, <2>5, PurgedOn
<1>11. CASE PurgePool(r)
  <2> PICK next : next = [req[r] EXCEPT !.at = "guard"]
    OBVIOUS
  <2>1. Continue(r, next) /\ UNCHANGED poolTable /\ req[r] \in SeedReq
    BY <1>0, <1>11, CatalogFields DEF PurgePool
  <2>2. next.at = "guard"
    BY <2>1, SeedTyped
  <2>3. poolTable = "Section" => \A n \in Names : pool'[n] # "deleted"
    BY <1>11 DEF PurgePool
  <2>4. PoolStands(next)'
    BY <2>1, <2>2, <2>3 DEF PoolStands
  <2> QED
    BY <1>0, <2>1, <2>4, PurgedOn
<1>12. CASE GuardSeed(r)
  <2> PICK next : next = [req[r] EXCEPT !.at = "insert"]
    OBVIOUS
  <2>1. /\ UNCHANGED <<pool, poolTable>> /\ req[r] \in SeedReq
        /\ req[r].op = "seed" /\ req[r].at = "guard"
    BY <1>0, <1>12, CatalogFields DEF GuardSeed, catalog
  <2>2. /\ next.at = "insert" /\ next.op = "seed"
        /\ next.kind = req[r].kind
    BY <2>1, SeedTyped
  <2>3. ASSUME Continue(r, next), LiveSiblings(req[r]) = {}
        PROVE  CatalogInv(r)'
    <3>1. req[r].kind = "Pool" => \A n \in Names : pool[n] # "live"
      BY <1>0, <2>3 DEF LiveSiblings, Live, CatalogTyped, CatalogTypeOK
    <3>2. PoolStands(next)'
      BY <1>0, <2>1, <2>2, <3>1 DEF PoolStands
    <3> QED
      BY <1>0, <2>3, <3>2, PurgedOn
  <2> QED
    BY <1>2, <1>12, <2>3 DEF GuardSeed
<1>13. \/ \E y \in Years, isActive \in BOOLEAN :
            \/ CreateAcademicYear(r, y, isActive)
            \/ UpdateAcademicYear(r, y, isActive)
       \/ \E y \in Years : DeleteAcademicYear(r, y)
       \/ RemoveYear(r) \/ InsertClass(r)
       \/ \E c \in Classes : CreateClass(r, c) \/ DeleteClass(r, c)
       \/ \E c \in Classes, name \in Names : UpdateClass(r, c, name)
       \/ \E n \in Names, name \in Names :
            \/ CreatePoolRow(r, n) \/ DeletePoolRow(r, n)
            \/ UpdatePoolRow(r, n, name) \/ UpdatePeriod(r, n, name)
       \/ RenamePeriod(r)
       \/ \E batch \in Batches, kind \in Seeded :
            SeedCatalog(r, kind, batch) \/ SeedDefaultSetup(r, batch)
       \/ ResolveYear(r) \/ PurgePool(r) \/ GuardSeed(r) \/ InsertYears(r)
       \/ InsertClasses(r) \/ InsertPool(r) \/ CatalogAbandon(r)
  BY Zenon DEF CatalogHandler, Seeded
<1> QED
  BY <1>4, <1>5, <1>6, <1>7, <1>8, <1>9, <1>10, <1>11, <1>12, <1>13,
     <1>14, <1>15, Zenon

LEMMA SeedsWholeByAnyHandler ==
  ASSUME CatalogTyped
  PROVE  SeedsAreWhole
<1> SUFFICES ASSUME NEW r \in Requests, CatalogHandler(r)
             PROVE  /\ PoolStands(req[r]) => PoolStands(req[r])'
                    /\ InsertPool(r) /\ poolTable # "Subject"
                         /\ (poolTable = "Section" => PoolStands(req[r])) =>
                         \A n \in req[r].batch : pool'[n] = "live"
  BY DEF SeedsAreWhole
<1>1. PoolStands(req[r]) => CatalogInv(r)
  BY DEF CatalogInv
<1>2. CatalogInv(r) => CatalogInv(r)'
  BY CatalogInvStep
<1>3. CatalogInv(r)' => PoolStands(req[r])'
  BY DEF CatalogInv
<1> QED
  BY <1>1, <1>2, <1>3, PoolSeedIsWhole

-----------------------------------------------------------------------------
(***************************************************************************)
(* Attendance: types, for handlers in any number.                          *)
(***************************************************************************)
\* A sheet being written has a student left.
SheetStates ==
  {q \in AttendanceRequest : q.op = "mark" => q.todo # <<>>}

AttendanceTyped == AttendanceTypeOK /\ req \in [Requests -> SheetStates]

LEMMA SheetsGoOn ==
  ASSUME AttendanceTyped, NEW r \in Requests, NEW c \in SheetStates,
         UNCHANGED req \/ Continue(r, c),
         enrolled' \subseteq Pupils, session' \in {"none", "OPEN", "CLOSED"},
         record' \in [Pupils -> RecordRow], log' \in LogRow \cup {Null}
  PROVE  AttendanceTyped'
BY DEF AttendanceTyped, AttendanceTypeOK, SheetStates, Continue

LEMMA SheetStarts ==
  ASSUME AttendanceTyped, NEW r \in Requests,
         \/ \E sheet \in Sheets, status \in Marks :
              MarkAttendance(r, sheet, status)
         \/ \E row \in LogRow : SaveAttendanceLog(r, row)
         \/ ReadEnrolments(r)
         \/ AttendanceAbandon(r)
  PROVE  AttendanceTyped'
<1>0. /\ AttendanceTypeOK
      /\ enrolled \subseteq Pupils /\ session \in {"none", "OPEN", "CLOSED"}
      /\ record \in [Pupils -> RecordRow] /\ log \in LogRow \cup {Null}
      /\ req[r] \in SheetStates
  BY DEF AttendanceTyped, AttendanceTypeOK
<1>1. UNCHANGED <<enrolled, sheets>>
  BY DEF MarkAttendance, SaveAttendanceLog, ReadEnrolments, AttendanceAbandon
<1>2. \E c \in SheetStates : Continue(r, c)
  <2>1. ASSUME NEW sheet \in Sheets, NEW status \in Marks,
               MarkAttendance(r, sheet, status)
        PROVE  \E c \in SheetStates : Continue(r, c)
    <3>1. [op |-> "mark", at |-> "enrolments", todo |-> sheet,
           status |-> status, enrolled |-> {}] \in SheetStates
      BY SheetsAreSequences DEF SheetStates, AttendanceRequest, MarkReq
    <3> QED
      BY <2>1, <3>1 DEF MarkAttendance
  <2>2. ASSUME NEW row \in LogRow, SaveAttendanceLog(r, row)
        PROVE  \E c \in SheetStates : Continue(r, c)
    <3>1. [op |-> "saveLog", found |-> log # Null, row |-> row]
            \in SheetStates
      BY DEF SheetStates, AttendanceRequest, SaveLogReq
    <3> QED
      BY <2>2, <3>1 DEF SaveAttendanceLog
  <2>3. CASE ReadEnrolments(r)
    <3>1. req[r].op = "mark"
      BY <2>3 DEF ReadEnrolments
    <3>2. /\ req[r] \in MarkReq /\ req[r].todo \in Seq(Pupils)
          /\ req[r].todo # <<>> /\ req[r].status \in Marks
      BY <1>0, <3>1, MarkFields DEF SheetStates
    <3>3. [op |-> "mark", at |-> "write", todo |-> req[r].todo,
           status |-> req[r].status, enrolled |-> enrolled] \in SheetStates
      BY <1>0, <3>2 DEF SheetStates, AttendanceRequest, MarkReq
    <3>4. [req[r] EXCEPT !.at = "write", !.enrolled = enrolled] =
            [op |-> "mark", at |-> "write", todo |-> req[r].todo,
             status |-> req[r].status, enrolled |-> enrolled]
      BY <3>2, MarkUpdates
    <3> QED
      BY <2>3, <3>3, <3>4 DEF ReadEnrolments
  <2>4. CASE AttendanceAbandon(r)
    <3>1. Idle \in SheetStates
      BY DEF SheetStates, AttendanceRequest, Idle
    <3> QED
      BY <2>4, <3>1 DEF AttendanceAbandon, Abandon, Reply
  <2> QED
    BY <2>1, <2>2, <2>3, <2>4
<1> QED
  BY <1>0, <1>1, <1>2, SheetsGoOn DEF sheets

LEMMA SheetWrites ==
  ASSUME AttendanceTyped, NEW r \in Requests, WriteMark(r) \/ WriteLog(r)
  PROVE  AttendanceTyped'
<1>0. /\ AttendanceTypeOK
      /\ enrolled \subseteq Pupils /\ session \in {"none", "OPEN", "CLOSED"}
      /\ record \in [Pupils -> RecordRow] /\ log \in LogRow \cup {Null}
      /\ req[r] \in SheetStates
      /\ Idle \in SheetStates
  BY DEF AttendanceTyped, AttendanceTypeOK, SheetStates, AttendanceRequest,
     Idle
<1>1. CASE WriteLog(r)
  <2>1. req[r].row \in LogRow
    BY <1>0, <1>1 DEF WriteLog, SheetStates, AttendanceRequest, MarkReq,
       SaveLogReq, Idle
  <2>2. log' \in LogRow \cup {Null}
    BY <1>0, <1>1, <2>1 DEF WriteLog
  <2> QED
    BY <1>0, <1>1, <2>2, SheetsGoOn DEF WriteLog, Reply
<1>2. CASE WriteMark(r)
  <2> DEFINE p == Head(req[r].todo)
             rest == Tail(req[r].todo)
  <2>1. req[r].op = "mark" /\ req[r].todo # <<>>
    BY <1>0, <1>2 DEF WriteMark, SheetStates
  <2>2. /\ req[r] \in MarkReq /\ req[r].status \in Marks
        /\ req[r].enrolled \in SUBSET Pupils
        /\ req[r].at \in {"enrolments", "write"}
        /\ p \in Pupils /\ rest \in Seq(Pupils)
    BY <1>0, <2>1, MarkFields DEF MarkReq
  <2>3. UNCHANGED <<enrolled, session, log>>
    BY <1>2 DEF WriteMark
  <2>4. record' \in [Pupils -> RecordRow]
    <3>1. \A q \in Pupils : Marked(record[q], req[r].status) \in RecordRow
      BY <1>0, <2>2 DEF Marked, RecordRow, Presence
    <3>2. \/ record' = [record EXCEPT ![p] = Marked(@, req[r].status)]
          \/ UNCHANGED record
      BY <1>2 DEF WriteMark
    <3> QED
      BY <1>0, <2>2, <3>1, <3>2
  <2>5. CASE Reply(r)
    BY <1>0, <2>3, <2>4, <2>5, SheetsGoOn DEF Reply
  <2>6. CASE rest # <<>> /\ Continue(r, [req[r] EXCEPT !.todo = rest])
    <3>1. [req[r] EXCEPT !.todo = rest] =
            [op |-> "mark", at |-> req[r].at, todo |-> rest,
             status |-> req[r].status, enrolled |-> req[r].enrolled]
      BY <2>2, MarkUpdates
    <3>2. [op |-> "mark", at |-> req[r].at, todo |-> rest,
           status |-> req[r].status, enrolled |-> req[r].enrolled]
            \in SheetStates
      BY <2>2, <2>6 DEF SheetStates, AttendanceRequest, MarkReq
    <3> QED
      BY <1>0, <2>3, <2>4, <2>6, <3>1, <3>2, SheetsGoOn
  <2> QED
    BY <1>2, <2>5, <2>6 DEF WriteMark
<1> QED
  BY <1>1, <1>2

LEMMA AttendanceTypedStep ==
  ASSUME AttendanceTyped, AttendanceNext
  PROVE  AttendanceTyped'
<1>0. /\ enrolled \subseteq Pupils /\ session \in {"none", "OPEN", "CLOSED"}
      /\ record \in [Pupils -> RecordRow] /\ log \in LogRow \cup {Null}
      /\ Idle \in SheetStates
  BY DEF AttendanceTyped, AttendanceTypeOK, SheetStates, AttendanceRequest,
     Idle
\* A handler that is a single step.
<1>1. ASSUME NEW r \in Requests,
             \/ \E p \in Pupils : ChangeEnrolment(r, p)
             \/ CreateSession(r) \/ CloseSession(r)
      PROVE  AttendanceTyped'
  BY <1>0, <1>1, SheetsGoOn
  DEF ChangeEnrolment, CreateSession, CloseSession, sheets
<1>2. ASSUME NEW r \in Requests, NEW sheet \in Sheets, NEW status \in Marks,
             SaveBulkAttendance(r, sheet, status)
      PROVE  AttendanceTyped'
  <2>1. \A p \in Pupils : record'[p] \in RecordRow
    BY <1>0, <1>2 DEF SaveBulkAttendance, SoftDeleted, Created, RecordRow,
       Presence
  <2>2. record' \in [Pupils -> RecordRow]
    BY <1>2, <2>1 DEF SaveBulkAttendance
  <2>3. session' \in {"none", "OPEN", "CLOSED"}
    BY <1>0, <1>2 DEF SaveBulkAttendance
  <2> QED
    BY <1>0, <1>2, <2>2, <2>3, SheetsGoOn DEF SaveBulkAttendance
<1>3. ASSUME NEW r \in Requests, NEW lock \in BOOLEAN,
             LockAttendanceLog(r, lock)
      PROVE  AttendanceTyped'
  <2>1. log \in LogRow
    BY <1>0, <1>3 DEF LockAttendanceLog
  <2>2. log' \in LogRow
    BY <1>3, <2>1 DEF LockAttendanceLog, LogRow
  <2> QED
    BY <1>0, <1>3, <2>2, SheetsGoOn DEF LockAttendanceLog
<1>4. \E r \in Requests :
        \/ \E p \in Pupils : ChangeEnrolment(r, p)
        \/ CreateSession(r)
        \/ \E sheet \in Sheets, status \in Marks :
             \/ MarkAttendance(r, sheet, status)
             \/ SaveBulkAttendance(r, sheet, status)
        \/ ReadEnrolments(r)
        \/ WriteMark(r)
        \/ CloseSession(r)
        \/ \E row \in LogRow : SaveAttendanceLog(r, row)
        \/ WriteLog(r)
        \/ \E lock \in BOOLEAN : LockAttendanceLog(r, lock)
        \/ AttendanceAbandon(r)
  BY Zenon DEF AttendanceNext, AttendanceHandler
<1> QED
  BY <1>1, <1>2, <1>3, <1>4, SheetStarts, SheetWrites, Zenon

LEMMA AttendanceTypedInit == AttendanceInit => AttendanceTyped
BY DEF AttendanceInit, HandlersInit, AttendanceTyped, AttendanceTypeOK,
   SheetStates, AttendanceRequest, RecordRow, Presence, Idle

\* Whatever handlers do that are not overtaken, records are written in open
\* sessions, of students who are enrolled, and a locked log keeps its sheet.
LEMMA SettledByAnyHandler ==
  ASSUME AttendanceTyped
  PROVE  SettledAttendanceIsFrozen
<1> SUFFICES ASSUME NEW r \in Requests, AttendanceHandler(r),
                    RegisterStands(req[r])
             PROVE  RegisterStands(req[r])' /\ SettledKept(r)
  BY DEF SettledAttendanceIsFrozen, SettledKept
<1>1. AttendanceInv(r)
  BY DEF AttendanceInv, AttendanceTyped, SheetStates, Unsettled
<1>2. AttendanceInv(r)' /\ SettledKept(r)
  BY <1>1, AttendanceInvStep
<1> QED
  BY <1>2 DEF AttendanceInv, Unsettled

-----------------------------------------------------------------------------
(***************************************************************************)
(* The desk.  A behaviour is about one service: the invariants that are    *)
(* about req too hold where that is the service, and where it is not their *)
(* tables stay as they are.                                                *)
(***************************************************************************)
DeskInv ==
  /\ DOMAIN record = Pupils
  /\ OrgTables
  /\ PostTables
  /\ MasterTables
  /\ service = "catalog" => CatalogTyped
  /\ service = "records" => RecordsInv
  /\ service = "timetable" => TimetableInv
  /\ service # "timetable" => Rows(lesson) = {}

DeskKept ==
  /\ RecordKept /\ CatalogKept /\ OrgKept /\ PostsKept /\ MasterKept
  /\ KeepsDeleted

\* Where a group of tables is left alone, nothing of it changes.
LEMMA TablesUntouched ==
  /\ UNCHANGED record => RecordKept
  /\ UNCHANGED catalog => CatalogKept
  /\ UNCHANGED <<departmentRows, roleRows>> =>
       OrgKept /\ (OrgTables <=> OrgTables')
  /\ UNCHANGED postRows => PostsKept /\ (PostTables <=> PostTables')
  /\ UNCHANGED masterRows => MasterKept /\ (MasterTables <=> MasterTables')
  /\ UNCHANGED links => KeepsDeleted
  /\ UNCHANGED lesson => Rows(lesson)' = Rows(lesson)
<1>1. UNCHANGED record => RecordKept
  BY DEF RecordKept
<1>2. UNCHANGED catalog => CatalogKept
  BY DEF catalog, CatalogKept
<1>3. UNCHANGED <<departmentRows, roleRows>> =>
        OrgKept /\ (OrgTables <=> OrgTables')
  BY DEF departmentRows, roleRows, OrgKept, OrgTables
<1>4. UNCHANGED links => KeepsDeleted
  BY DEF links, KeepsDeleted
<1>5. UNCHANGED lesson => Rows(lesson)' = Rows(lesson)
  BY DEF Rows
<1>6. UNCHANGED postRows => PostsKept /\ (PostTables <=> PostTables')
  BY DEF postRows, PostsKept, PostTables
<1>7. UNCHANGED masterRows => MasterKept /\ (MasterTables <=> MasterTables')
  BY DEF masterRows, named, nested, MasterKept, NamesKept, CopyKept,
     MasterTables
<1> QED
  BY <1>1, <1>2, <1>3, <1>4, <1>5, <1>6, <1>7

LEMMA DeskInitInv == DeskInit => DeskInv
<1> SUFFICES ASSUME DeskInit PROVE DeskInv
  OBVIOUS
<1>1. DOMAIN record = Pupils
  BY DEF DeskInit, AttendanceInit
<1>2. CatalogTyped
  BY CatalogTypesInit DEF DeskInit
<1>3. OrgTables
  BY DEF DeskInit, OrgInit, OrgTables
<1>4. RecordsInv
  BY RecordsInitInv DEF DeskInit
<1>5. TimetableTypeOK /\ Rows(lesson) = {}
  BY DEF DeskInit, TimetableInit, HandlersInit, TimetableTypeOK,
     TimetableRequest, Rows
<1>6. TimetableInv
  BY <1>5 DEF DeskInit, TimetableInit, HandlersInit, Idle, FoundExists,
     KeysUnique, TimetableInv
<1>7. PostTables
  BY DEF DeskInit, PostsInit, PostTables
<1>8. MasterTables
  BY DEF DeskInit, MasterInit, MasterTables
<1> QED
  BY <1>1, <1>2, <1>3, <1>4, <1>5, <1>6, <1>7, <1>8 DEF DeskInv

LEMMA DeskStep ==
  ASSUME DeskInv, DeskNext
  PROVE  DeskInv' /\ DeskKept
<1> DEFINE Goal == DeskInv' /\ DeskKept
<1> SUFFICES Goal
  OBVIOUS
<1> USE DEF DeskInv, DeskKept, Only, register, sheets, orgRows,
            people_links, timetables
<1> HIDE DEF Goal
<1>1. CASE Only("attendance", AttendanceNext,
                <<office, catalog, people_links, timetables,
                  holidays, orgRows, accounts, feeRows,
                  postRows, scheduleRows, masterRows, keyVars>>)
  BY <1>1, AttendanceStep, TablesUntouched DEF Goal
<1>2. CASE Only("catalog", CatalogNext,
                <<office, register, people_links, timetables,
                  holidays, orgRows, accounts, feeRows,
                  postRows, scheduleRows, masterRows, keyVars>>)
  BY <1>2, CatalogStep, CatalogTypes, TablesUntouched DEF Goal
<1>3. CASE Only("records", RecordsNext,
                <<office, register, catalog, timetables,
                  holidays, orgRows, accounts, feeRows,
                  postRows, scheduleRows, masterRows, keyVars>>)
  <2>1. RecordsInv' /\ KeepsDeleted
    BY <1>3, RecordsStep DEF RecordsNext
  <2> QED
    BY <1>3, <2>1, TablesUntouched DEF Goal
<1>4. CASE Only("timetable", TimetableNext,
                <<office, register, catalog, people_links,
                  holidays, orgRows, accounts, feeRows,
                  postRows, scheduleRows, masterRows, keyVars>>)
  BY <1>4, TimetableStep, TablesUntouched DEF Goal
<1>5. CASE Only("organisation", OrgNext,
                <<office, register, catalog, people_links,
                  timetables, holidays, accounts, feeRows,
                  postRows, scheduleRows, masterRows, keyVars>>)
  BY <1>5, OrgStep, TablesUntouched DEF Goal
<1>6. ASSUME /\ service \notin {"attendance", "catalog", "records",
                                "timetable", "organisation", "posts",
                                "routes"}
             /\ UNCHANGED <<service, register, catalog, people_links,
                            timetables, orgRows, postRows, masterRows>>
      PROVE  Goal
  BY <1>6, TablesUntouched DEF Goal
<1>7. CASE \/ Only("transport", TransportNext,
                   <<register, catalog, people_links, timetables,
                     holidays, orgRows, accounts, feeRows,
                     postRows, scheduleRows, masterRows, keyVars>>)
           \/ Only("holidays", HolidayNext,
                   <<office, register, catalog, people_links,
                     timetables, orgRows, accounts, feeRows,
                     postRows, scheduleRows, masterRows, keyVars>>)
           \/ Only("accounts", StaffNext,
                   <<office, register, catalog, people_links,
                     timetables, holidays, orgRows, feeRows,
                     postRows, scheduleRows, masterRows, keyVars>>)
           \/ Only("fees", FeeCatalogNext,
                   <<office, register, catalog, people_links,
                     timetables, holidays, orgRows, accounts,
                     postRows, scheduleRows, masterRows, keyVars>>)
           \/ Only("schedules", SchedulesNext,
                   <<office, register, catalog, people_links,
                     timetables, holidays, orgRows, accounts,
                     feeRows, postRows, masterRows, keyVars>>)
           \/ Only("gateway", IdempotencyNext,
                   <<office, register, catalog, people_links,
                     timetables, holidays, orgRows, accounts,
                     feeRows, postRows, scheduleRows, masterRows>>)
  BY <1>6, <1>7
<1>8. CASE Only("posts", PostsNext,
                <<office, register, catalog, people_links,
                  timetables, holidays, orgRows, accounts,
                  feeRows, scheduleRows, masterRows, keyVars>>)
  BY <1>8, PostsStep, TablesUntouched DEF Goal
<1>9. CASE Only("routes", MasterNext,
                <<office, register, catalog, people_links,
                  timetables, holidays, orgRows, accounts,
                  feeRows, postRows, scheduleRows, keyVars>>)
  BY <1>9, MasterStep, TablesUntouched DEF Goal
<1> QED
  BY <1>1, <1>2, <1>3, <1>4, <1>5, <1>7, <1>8, <1>9, Zenon DEF DeskNext

LEMMA DeskInvariant ==
  DeskSpec => [](DeskInv /\ LessonsStayDeleted) /\ [][DeskKept]_deskVars
<1>1. DeskInv /\ UNCHANGED deskVars => DeskInv'
  BY DEF DeskInv, deskVars, register, sheets, people_links, timetables,
     catalog, orgRows, departmentRows, roleRows, people, links,
     CatalogTyped, CatalogTypeOK, CatalogStates, OrgTables, postRows,
     PostTables, masterRows, named, nested, MasterTables, RecordsInv, RecordsTypeOK, LinksKnown, Checked,
     KnownParents, KnownStudents, TimetableInv, TimetableTypeOK,
     FoundExists, KeysUnique, Rows
<1>2. DeskInv /\ [DeskNext]_deskVars => DeskInv' /\ [DeskKept]_deskVars
  BY <1>1, DeskStep
<1>3. DeskInv => LessonsStayDeleted
  <2> SUFFICES ASSUME DeskInv PROVE LessonsStayDeleted
    OBVIOUS
  <2>1. CASE service = "timetable"
    BY <2>1 DEF DeskInv, TimetableInv, KeysUnique, LessonsStayDeleted
  <2>2. CASE service # "timetable"
    BY <2>2 DEF DeskInv, LessonsStayDeleted
  <2> QED
    BY <2>1, <2>2
<1> QED
  BY <1>2, <1>3, DeskInitInv, PTL DEF DeskSpec

\* For any number of rows of every table and of overlapping handlers of each
\* service, no upsert, seed, import or bulk save shows a deleted row again.
THEOREM NothingRevived == DeskSpec => NothingIsRevived
<1>1. [DeskKept]_deskVars =>
        [\A p \in Pupils : record[p].state = "deleted" =>
           record'[p].state = "deleted"]_attendanceVars
  BY DEF DeskKept, RecordKept, deskVars, attendanceVars, register
<1>2. [DeskKept]_deskVars =>
        [/\ \A y \in Years : year[y] = "deleted" => year'[y] = "deleted"
         /\ \A c \in Classes : class[c] = "deleted" => class'[c] = "deleted"
         /\ \A n \in Names : pool[n] = "deleted" =>
              \/ pool'[n] = "deleted"
              \/ poolTable = "Section" /\ pool'[n] = "absent"
              \/ poolTable = "Period" /\ pool'[n] = "absent"
                   /\ \E name \in Names : /\ pool[name] = "absent"
                                          /\ pool'[name] = "deleted"
        ]_catalogVars
  BY DEF DeskKept, CatalogKept, deskVars, catalogVars
<1>3. [DeskKept]_deskVars =>
        [/\ \A pair \in Pairs :
              mapping[pair] = "deleted" => mapping'[pair] = "deleted"
         /\ \A s \in Students :
              enrolment[s] = "deleted" => enrolment'[s] = "deleted"
        ]_recordsVars
  BY DEF DeskKept, KeepsDeleted, deskVars, recordsVars, people_links
<1>4. [DeskKept]_deskVars =>
        [/\ \A d \in Departments :
              department[d] = "deleted" => department'[d] = "deleted"
         /\ \A x \in StaffRoles :
              staffRole[x] = "deleted" => staffRole'[x] = "deleted"]_orgVars
  BY DEF DeskKept, OrgKept, deskVars, orgVars, orgRows
<1>5. [DeskKept]_deskVars =>
        [\A p \in Posts :
           /\ classSection[p].state = "deleted" =>
                classSection'[p] = classSection[p]
           /\ classTeacher[p].state = "deleted" =>
                classTeacher'[p] = classTeacher[p]]_postVars
  BY DEF DeskKept, PostsKept, deskVars, postVars
<1>6. [DeskKept]_deskVars =>
        [/\ \A v \in VehicleNos :
              vehicle[v] = "deleted" => vehicle'[v] = "deleted"
         /\ \A s \in StopNames :
              stop[s] = "deleted" => stop'[s] = "deleted"
         /\ \A c \in RouteCodes :
              /\ route[c] = "deleted" => route'[c] = "deleted"
              /\ schoolCopy.routes[c] # Null =>
                   schoolCopy'.routes[c] = schoolCopy.routes[c]
         /\ \A t \in 1 .. MaxTrips :
              routeTrip[t] # Null /\ ~routeTrip[t].live =>
                routeTrip'[t] = routeTrip[t]
         /\ \A s \in 1 .. MaxStops :
              routeStop[s] # Null /\ ~routeStop[s].live =>
                routeStop'[s] = routeStop[s]]_masterVars
  BY DEF DeskKept, MasterKept, NamesKept, CopyKept, deskVars, masterVars
<1> QED
  BY <1>1, <1>2, <1>3, <1>4, <1>5, <1>6, DeskInvariant, PTL
     DEF NothingIsRevived, RecordsStayDeleted, CatalogStaysDeleted,
         LinksStayDeleted, OrgStaysDeleted, PostsStayDeleted,
         RoutesStayDeleted

-----------------------------------------------------------------------------
(***************************************************************************)
(* Nothing hangs on what was deleted.  First the catalogue: a year about   *)
(* to be deleted has no class, and one about to get classes is live.       *)
(***************************************************************************)
EmptyKept == DeletedYearIsEmpty => DeletedYearIsEmpty'

LEMMA CatalogAnswered ==
  ASSUME CatalogTyped, NEW r \in Requests
  PROVE  /\ Reply(r) => req'[r] = Idle
         /\ \A c : req' = [req EXCEPT ![r] = c] => req'[r] = c
BY DEF CatalogTyped, CatalogTypeOK, Reply, Continue

LEMMA SeedStands ==
  ASSUME NEW kind, NEW batch, NEW rest
  PROVE  YearStands(Seeding(kind, batch, rest))'
BY DEF YearStands, Seeding, FirstStage

LEMMA IdleYear == YearStands(Idle)'
BY DEF YearStands, Idle

LEMMA SeedAdvances ==
  ASSUME NEW q \in SeedReq, NEW stage
  PROVE  /\ \A y : LET next == [q EXCEPT !.at = stage, !.year = y]
                   IN next.op = "seed" /\ next.year = y
         /\ LET next == [q EXCEPT !.at = stage]
            IN next.op = "seed" /\ next.kind = q.kind /\ next.year = q.year
BY DEF SeedReq

LEMMA YearsStep ==
  ASSUME NEW r \in Requests, CatalogTyped, YearStands(req[r]),
         CatalogHandler(r)
  PROVE  YearStands(req[r])' /\ EmptyKept
<1> USE DEF EmptyKept
<1>0. DOMAIN year = Years /\ DOMAIN class = Classes
  BY DEF CatalogTyped, CatalogTypeOK
<1>1. req'[r] = Idle => YearStands(req[r])'
  BY IdleYear
<1>2. req[r] = Idle /\ UNCHANGED req => YearStands(req[r])'
  BY <1>1
<1>3. Reply(r) => YearStands(req[r])'
  BY <1>1, CatalogAnswered
<1>4. FinishSeed(r) => YearStands(req[r])'
  <2>1. ASSUME req' = [req EXCEPT ![r] = Seeding(Head(req[r].rest),
                                                 req[r].batch,
                                                 Tail(req[r].rest))]
        PROVE  YearStands(req[r])'
    BY <2>1, CatalogAnswered, SeedStands
  <2> QED
    BY <1>3, <2>1 DEF FinishSeed, Continue
<1>5. UNCHANGED <<year, class>> => EmptyKept
  BY DEF DeletedYearIsEmpty
<1>6. ASSUME NEW y \in Years, NEW isActive \in BOOLEAN,
             \/ CreateAcademicYear(r, y, isActive)
             \/ UpdateAcademicYear(r, y, isActive)
      PROVE  YearStands(req[r])' /\ EmptyKept
  BY <1>0, <1>2, <1>6 DEF CreateAcademicYear, UpdateAcademicYear,
     DeletedYearIsEmpty
<1>7. ASSUME NEW y \in Years, DeleteAcademicYear(r, y)
      PROVE  YearStands(req[r])' /\ EmptyKept
  <2>1. YearStands([op |-> "deleteYear", year |-> y])'
    BY <1>7 DEF DeleteAcademicYear, YearStands, catalog
  <2>2. req'[r] = [op |-> "deleteYear", year |-> y]
    BY <1>7, CatalogAnswered DEF DeleteAcademicYear, Continue
  <2> QED
    BY <1>5, <1>7, <2>1, <2>2 DEF DeleteAcademicYear, catalog
<1>8. CASE RemoveYear(r)
  BY <1>0, <1>3, <1>8 DEF RemoveYear, YearStands, DeletedYearIsEmpty
<1>9. ASSUME NEW c \in Classes, CreateClass(r, c)
      PROVE  YearStands(req[r])' /\ EmptyKept
  <2>1. YearStands([op |-> "createClass", class |-> c])'
    BY <1>9 DEF CreateClass, YearStands, catalog
  <2>2. req'[r] = [op |-> "createClass", class |-> c]
    BY <1>9, CatalogAnswered DEF CreateClass, Continue
  <2> QED
    BY <1>5, <1>9, <2>1, <2>2 DEF CreateClass, catalog
<1>10. CASE InsertClass(r)
  <2>1. PICK c \in Classes : /\ c = req[r].class /\ year[c[1]] = "live"
                             /\ class' = [class EXCEPT ![c] = "live"]
    BY <1>10, CatalogFields DEF InsertClass, YearStands
  <2>2. \A y \in Years : c \in ClassesOf(y) => y = c[1]
    BY DEF ClassesOf
  <2>3. UNCHANGED year
    BY <1>10 DEF InsertClass
  <2>4. EmptyKept
    BY <1>0, <2>1, <2>2, <2>3 DEF DeletedYearIsEmpty, Classes, ClassesOf
  <2> QED
    BY <1>3, <1>10, <2>4 DEF InsertClass
<1>11. ASSUME NEW c \in Classes, NEW name \in Names, UpdateClass(r, c, name)
       PROVE  YearStands(req[r])' /\ EmptyKept
  <2> SUFFICES ASSUME DeletedYearIsEmpty PROVE DeletedYearIsEmpty'
    BY <1>2, <1>11 DEF UpdateClass
  <2>1. PICK y \in Years, n \in Names : c = <<y, n>>
    BY DEF Classes
  <2>2. year[y] # "deleted"
    BY <1>11, <2>1 DEF UpdateClass, Renames, DeletedYearIsEmpty, ClassesOf
  <2>3. \A z \in Years \ {y}, m \in Names : class'[<<z, m>>] = class[<<z, m>>]
    BY <1>0, <1>11, <2>1 DEF UpdateClass, Renames, Classes
  <2>4. UNCHANGED year
    BY <1>11 DEF UpdateClass
  <2> QED
    BY <2>2, <2>3, <2>4 DEF DeletedYearIsEmpty, ClassesOf
<1>12. ASSUME NEW c \in Classes, DeleteClass(r, c)
       PROVE  YearStands(req[r])' /\ EmptyKept
  BY <1>0, <1>2, <1>12 DEF DeleteClass, DeletedYearIsEmpty, ClassesOf, Classes
<1>13. ASSUME NEW n \in Names, NEW name \in Names,
              \/ CreatePoolRow(r, n) \/ DeletePoolRow(r, n)
              \/ UpdatePoolRow(r, n, name)
       PROVE  YearStands(req[r])' /\ EmptyKept
  BY <1>2, <1>5, <1>13 DEF CreatePoolRow, DeletePoolRow, UpdatePoolRow
<1>14. ASSUME NEW n \in Names, NEW name \in Names, UpdatePeriod(r, n, name)
       PROVE  YearStands(req[r])' /\ EmptyKept
  <2>1. YearStands([op |-> "renamePeriod", row |-> n, name |-> name])'
    BY DEF YearStands
  <2>2. req'[r] = [op |-> "renamePeriod", row |-> n, name |-> name]
    BY <1>14, CatalogAnswered DEF UpdatePeriod, Continue
  <2> QED
    BY <1>5, <1>14, <2>1, <2>2 DEF UpdatePeriod, catalog
<1>15. CASE RenamePeriod(r)
  <2>1. req'[r] = Idle /\ UNCHANGED <<year, class>>
    BY <1>15 DEF RenamePeriod
  <2> QED
    BY <1>1, <1>5, <2>1
<1>16. ASSUME NEW batch \in Batches, NEW kind \in Seeded,
              SeedCatalog(r, kind, batch) \/ SeedDefaultSetup(r, batch)
       PROVE  YearStands(req[r])' /\ EmptyKept
  BY <1>5, <1>16, CatalogAnswered, SeedStands
     DEF SeedCatalog, SeedDefaultSetup, Continue, catalog
<1>17. CASE ResolveYear(r)
  <2>1. PICK y \in Live(year) :
          req' = [req EXCEPT ![r] = [req[r] EXCEPT !.at = "guard", !.year = y]]
    BY <1>17 DEF ResolveYear, Continue
  <2> PICK next : next = [req[r] EXCEPT !.at = "guard", !.year = y]
    OBVIOUS
  <2>2. next.op = "seed" /\ next.year = y
    BY <1>17, CatalogFields, SeedAdvances DEF ResolveYear
  <2>3. UNCHANGED <<year, class>> /\ year[y] = "live"
    BY <1>17 DEF ResolveYear, catalog, Live
  <2>4. YearStands(next)'
    BY <2>2, <2>3 DEF YearStands
  <2>5. req'[r] = next
    BY <2>1, CatalogAnswered
  <2> QED
    BY <1>5, <2>3, <2>4, <2>5
<1>18. CASE PurgePool(r)
  <2> PICK next : next = [req[r] EXCEPT !.at = "guard"]
    OBVIOUS
  <2>1. /\ req'[r] = next /\ UNCHANGED <<year, class>>
        /\ req[r].op = "seed" /\ req[r].at = "purge"
    BY <1>18, CatalogAnswered DEF PurgePool, Continue
  <2>2. /\ next.op = "seed" /\ next.kind = req[r].kind
        /\ next.year = req[r].year
    BY <2>1, CatalogFields, SeedAdvances
  <2>3. YearStands(next)'
    BY <2>1, <2>2 DEF YearStands
  <2> QED
    BY <1>5, <2>1, <2>3
<1>19. CASE GuardSeed(r)
  <2> PICK next : next = [req[r] EXCEPT !.at = "insert"]
    OBVIOUS
  <2>1. /\ Reply(r) \/ req'[r] = next
        /\ UNCHANGED <<year, class>>
        /\ req[r].op = "seed" /\ req[r].at = "guard"
    BY <1>19, CatalogAnswered DEF GuardSeed, Continue, catalog
  <2>2. /\ next.op = "seed" /\ next.kind = req[r].kind
        /\ next.year = req[r].year
    BY <2>1, CatalogFields, SeedAdvances
  <2>3. YearStands(next)'
    BY <2>1, <2>2 DEF YearStands
  <2> QED
    BY <1>3, <1>5, <2>1, <2>3
<1>20. CASE InsertYears(r)
  <2>1. EmptyKept
    BY <1>0, <1>20 DEF InsertYears, InsertNew, DeletedYearIsEmpty
  <2> QED
    BY <1>4, <1>20, <2>1 DEF InsertYears
<1>21. CASE InsertClasses(r)
  <2>1. year[req[r].year] = "live" /\ UNCHANGED year
    BY <1>21 DEF InsertClasses, YearStands
  <2>2. EmptyKept
    BY <1>0, <1>21, <2>1 DEF InsertClasses, InsertNew, DeletedYearIsEmpty,
       ClassesOf, Classes
  <2> QED
    BY <1>4, <1>21, <2>2 DEF InsertClasses
<1>22. CASE InsertPool(r)
  BY <1>4, <1>5, <1>22 DEF InsertPool
<1>23. CASE CatalogAbandon(r)
  BY <1>3, <1>5, <1>23, CatalogAnswered DEF CatalogAbandon, Abandon, catalog
<1>24. \/ \E y \in Years, isActive \in BOOLEAN :
            \/ CreateAcademicYear(r, y, isActive)
            \/ UpdateAcademicYear(r, y, isActive)
       \/ \E y \in Years : DeleteAcademicYear(r, y)
       \/ RemoveYear(r) \/ InsertClass(r) \/ RenamePeriod(r)
       \/ \E c \in Classes : CreateClass(r, c) \/ DeleteClass(r, c)
       \/ \E c \in Classes, name \in Names : UpdateClass(r, c, name)
       \/ \E n \in Names, name \in Names :
            \/ CreatePoolRow(r, n) \/ DeletePoolRow(r, n)
            \/ UpdatePoolRow(r, n, name)
       \/ \E n \in Names, name \in Names : UpdatePeriod(r, n, name)
       \/ \E batch \in Batches, kind \in Seeded :
            SeedCatalog(r, kind, batch) \/ SeedDefaultSetup(r, batch)
       \/ ResolveYear(r) \/ PurgePool(r) \/ GuardSeed(r) \/ InsertYears(r)
       \/ InsertClasses(r) \/ InsertPool(r) \/ CatalogAbandon(r)
  BY Zenon DEF CatalogHandler, Seeded
<1> QED
  BY <1>6, <1>7, <1>8, <1>9, <1>10, <1>11, <1>12, <1>13, <1>14, <1>15,
     <1>16, <1>17, <1>18, <1>19, <1>20, <1>21, <1>22, <1>23, <1>24, Zenon

\* Whatever handlers do that are not overtaken, a deleted year has no class.
LEMMA YearsByAnyHandler ==
  ASSUME CatalogTyped
  PROVE  YearsStayEmpty
<1> SUFFICES ASSUME NEW r \in Requests, CatalogHandler(r), YearStands(req[r])
             PROVE  YearStands(req[r])' /\ EmptyKept
  BY DEF YearsStayEmpty, EmptyKept
<1> QED
  BY YearsStep

-----------------------------------------------------------------------------
(***************************************************************************)
(* Fees: types, for handlers in any number.                                *)
(***************************************************************************)
CopyReq ==
  [op : {"copyFees"}, master : Catalogues,
   seen : [Categories -> CategoryRow \cup {Null}],
   copied : Seq(Categories), fees : SUBSET Nat]

LEMMA PlaceOfSeq ==
  ASSUME NEW S, NEW list \in Seq(S), NEW i \in 1 .. Len(list)
  PROVE  list[i] \in S
OBVIOUS

\* Where a copy stands.
LEMMA CopyingFacts ==
  ASSUME NEW q \in CopyReq, Len(q.copied) < Len(q.master.items)
  PROVE  /\ Item(q).name \in Labels
         /\ LocalParent(q) \in Categories \cup {Null}
<1>1. q.master \in Catalogue /\ q.copied \in Seq(Categories)
  BY CataloguesAssumption DEF CopyReq
<1> DEFINE i == Len(q.copied) + 1
<1>2. i \in DOMAIN q.master.items /\ i \in Nat /\ i # 0
  BY <1>1 DEF Catalogue
<1>6. /\ q.master.items \in Seq([name : Labels, parent : Nat])
      /\ i \in 1 .. Len(q.master.items)
  BY <1>1, <1>2 DEF Catalogue
<1>3. /\ Item(q) = q.master.items[i]
      /\ Item(q) \in [name : Labels, parent : Nat]
  <2>1. Item(q) = q.master.items[i]
    BY DEF Item
  <2>2. q.master.items[i] \in [name : Labels, parent : Nat]
    BY <1>6, PlaceOfSeq
  <2> QED
    BY <2>1, <2>2
<1>4. Item(q).parent \in 0 .. i - 1
  BY <1>2, <1>3, CataloguesAssumption DEF CopyReq
<1>5. Item(q).parent # 0 => Item(q).parent \in DOMAIN q.copied
  BY <1>1, <1>4
<1> QED
  BY <1>1, <1>3, <1>5 DEF LocalParent

LEMMA CopyFields ==
  ASSUME NEW q \in CopyReq
  PROVE  /\ \A copied \in Seq(Categories) :
              LET c == [q EXCEPT !.copied = copied]
              IN /\ c \in CopyReq /\ c.op = "copyFees" /\ c.copied = copied
                 /\ c.seen = q.seen /\ c.fees = q.fees
                 /\ c.master = q.master
         /\ \A fees \in SUBSET Nat :
              LET c == [q EXCEPT !.fees = fees]
              IN /\ c \in CopyReq /\ c.op = "copyFees" /\ c.fees = fees
                 /\ c.seen = q.seen /\ c.copied = q.copied
                 /\ c.master = q.master
BY DEF CopyReq

\* A category about to be deleted has been made, and the structures a copy
\* has to make are some of the master's.
FeeStates ==
  {q \in FeeCatalogRequest :
     /\ q.op = "deleteCategory" => category[q.id] # Null
     /\ q.op = "copyFees" => q.fees \subseteq q.master.fees}

FeesTyped == FeeCatalogTypeOK /\ req \in [Requests -> FeeStates]

LEMMA FeeFields ==
  ASSUME NEW q \in FeeCatalogRequest
  PROVE  /\ q.op \in {"deleteCategory", "createFee"} => q.id \in Categories
         /\ q.op = "moveFee" => q.from \in Categories /\ q.to \in Categories
         /\ q.op = "seedFees" =>
              q \in [op : {"seedFees"}, todo : SUBSET Categories]
         /\ q.op = "copyFees" => q \in CopyReq
BY DEF FeeCatalogRequest, CopyReq, Idle

LEMMA FeesGoOn ==
  ASSUME FeesTyped, NEW r \in Requests, NEW c \in FeeStates,
         UNCHANGED req \/ Continue(r, c),
         category' \in [Categories -> CategoryRow \cup {Null}],
         \A k \in Categories : category[k] # Null => category'[k] # Null,
         fee' \in [Categories -> Presence]
  PROVE  FeesTyped'
<1>1. FeeStates \subseteq FeeStates'
  <2>1. \A q \in FeeCatalogRequest :
          q.op = "deleteCategory" => q.id \in Categories
    BY FeeFields
  <2> QED
    BY <2>1 DEF FeeStates
<1>2. req' \in [Requests -> FeeStates] /\ \A q \in FeeStates : q \in FeeCatalogRequest
  BY DEF FeesTyped, Continue, FeeStates
<1> QED
  BY <1>1, <1>2 DEF FeesTyped, FeeCatalogTypeOK

\* Rows that are written: a new one, one renamed and one deleted.
LEMMA CategoryWritten ==
  ASSUME category \in [Categories -> CategoryRow \cup {Null}],
         NEW k \in Categories, NEW row \in CategoryRow,
         category' = [category EXCEPT ![k] = row]
  PROVE  /\ category' \in [Categories -> CategoryRow \cup {Null}]
         /\ \A j \in Categories : category[j] # Null => category'[j] # Null
BY NoCategoryAssumption

LEMMA NewCategoryTypes ==
  ASSUME category \in [Categories -> CategoryRow \cup {Null}],
         NEW k \in Categories, NEW above \in Categories \cup {Null},
         NEW name \in Labels, NewCategory(k, above, name)
  PROVE  /\ category' \in [Categories -> CategoryRow \cup {Null}]
         /\ \A j \in Categories : category[j] # Null => category'[j] # Null
<1> DEFINE row == [name |-> name, parent |-> above, live |-> TRUE]
<1>1. row \in CategoryRow
  BY DEF CategoryRow
<1>2. category' = [category EXCEPT ![k] = row]
  BY DEF NewCategory
<1> HIDE DEF row
<1> QED
  BY <1>1, <1>2, CategoryWritten

LEMMA FeeStarts ==
  ASSUME FeesTyped, NEW r \in Requests,
         \/ \E k \in Categories : DeleteFeeCategory(r, k) \/ CreateStructure(r, k)
         \/ \E from \in Categories, to \in Categories :
              MoveStructure(r, from, to)
         \/ SeedStructures(r)
         \/ \E m \in Catalogues : GenerateFromMaster(r, m)
  PROVE  \E c \in FeeStates : Continue(r, c)
<1>1. ASSUME NEW k \in Categories,
             DeleteFeeCategory(r, k) \/ CreateStructure(r, k)
      PROVE  \E c \in FeeStates : Continue(r, c)
  <2>1. category[k] # Null
    BY <1>1 DEF DeleteFeeCategory, CreateStructure, LiveCategories, Made
  <2>2. \A op \in {"deleteCategory", "createFee"} :
          [op |-> op, id |-> k] \in FeeStates
    BY <2>1 DEF FeeStates, FeeCatalogRequest
  <2> QED
    BY <1>1, <2>2 DEF DeleteFeeCategory, CreateStructure
<1>2. ASSUME NEW from \in Categories, NEW to \in Categories,
             MoveStructure(r, from, to)
      PROVE  \E c \in FeeStates : Continue(r, c)
  <2>1. [op |-> "moveFee", from |-> from, to |-> to] \in FeeStates
    BY DEF FeeStates, FeeCatalogRequest
  <2> QED
    BY <1>2, <2>1 DEF MoveStructure
<1>3. CASE SeedStructures(r)
  <2>1. Leaves \subseteq Categories
    BY DEF Leaves, LiveCategories, Made
  <2>2. [op |-> "seedFees", todo |-> Leaves] \in FeeStates
    BY <2>1 DEF FeeStates, FeeCatalogRequest
  <2> QED
    BY <1>3, <2>2 DEF SeedStructures
<1>4. ASSUME NEW m \in Catalogues, GenerateFromMaster(r, m)
      PROVE  \E c \in FeeStates : Continue(r, c)
  <2>1. m.fees \in SUBSET Nat /\ category \in [Categories -> CategoryRow \cup {Null}]
    BY CataloguesAssumption DEF Catalogue, FeesTyped, FeeCatalogTypeOK
  <2>2. [op |-> "copyFees", master |-> m, seen |-> category,
         copied |-> <<>>, fees |-> m.fees] \in FeeStates
    BY <2>1 DEF FeeStates, FeeCatalogRequest
  <2> QED
    BY <1>4, <2>2 DEF GenerateFromMaster
<1> QED
  BY <1>1, <1>2, <1>3, <1>4

\* A copy that has found or made the next category.
LEMMA CopyGoesOn ==
  ASSUME NEW q \in FeeStates, q.op = "copyFees", NEW k \in Categories
  PROVE  [q EXCEPT !.copied = Append(@, k)] \in FeeStates
<1>1. PICK next : next = [q EXCEPT !.copied = Append(@, k)]
  OBVIOUS
<1>2. q \in CopyReq /\ q.fees \subseteq q.master.fees
  BY FeeFields DEF FeeStates
<1>3. Append(q.copied, k) \in Seq(Categories)
  BY <1>2 DEF CopyReq
<1>4. /\ next \in CopyReq /\ next.op = "copyFees"
      /\ next.fees = q.fees /\ next.master = q.master
  BY <1>1, <1>2, <1>3, CopyFields
<1> QED
  BY <1>1, <1>2, <1>4 DEF FeeStates, FeeCatalogRequest, CopyReq

LEMMA FeesTypedStep ==
  ASSUME FeesTyped, FeeCatalogNext
  PROVE  FeesTyped'
<1>0. /\ category \in [Categories -> CategoryRow \cup {Null}]
      /\ fee \in [Categories -> Presence]
      /\ \A r \in Requests : req[r] \in FeeStates
      /\ \A q \in FeeStates : q \in FeeCatalogRequest
      /\ Idle \in FeeStates
  BY DEF FeesTyped, FeeCatalogTypeOK, FeeStates, FeeCatalogRequest, Idle
\* A request that starts, goes on or ends without a write.
<1>1. ASSUME NEW r \in Requests, NEW c \in FeeStates, Continue(r, c),
             UNCHANGED feeRows
      PROVE  FeesTyped'
  BY <1>0, <1>1, FeesGoOn DEF feeRows
\* A structure is written.
<1>2. ASSUME NEW r \in Requests, NEW c \in FeeStates,
             UNCHANGED req \/ Continue(r, c),
             UNCHANGED category, fee' \in [Categories -> Presence]
      PROVE  FeesTyped'
  BY <1>0, <1>2, FeesGoOn
<1>3. ASSUME NEW r \in Requests, NEW k \in Categories,
             NEW above \in Categories \cup {Null}, NEW name \in Labels,
             CreateFeeCategory(r, k, above, name)
      PROVE  FeesTyped'
  BY <1>0, <1>3, FeesGoOn, NewCategoryTypes DEF CreateFeeCategory
<1>4. ASSUME NEW r \in Requests, NEW k \in Categories, NEW name \in Labels,
             UpdateFeeCategory(r, k, name)
      PROVE  FeesTyped'
  <2>1. /\ category[k] \in CategoryRow
        /\ category' = [category EXCEPT ![k].name = name]
        /\ UNCHANGED <<fee, req>>
    BY <1>0, <1>4 DEF UpdateFeeCategory, LiveCategories, Made
  <2>2. PICK row : row = [category[k] EXCEPT !.name = name]
    OBVIOUS
  <2>3. row \in CategoryRow
    BY <2>1, <2>2 DEF CategoryRow
  <2>4. category' = [category EXCEPT ![k] = row]
    BY <2>1, <2>2
  <2> QED
    BY <1>0, <2>1, <2>3, <2>4, CategoryWritten, FeesGoOn
<1>5. ASSUME NEW r \in Requests, SoftDeleteCategory(r)
      PROVE  FeesTyped'
  <2>1. PICK k \in Categories : k = req[r].id /\ category[k] # Null
    BY <1>0, <1>5, FeeFields DEF SoftDeleteCategory, FeeStates
  <2>2. PICK row : row = [category[k] EXCEPT !.live = FALSE]
    OBVIOUS
  <2>3. /\ category' = [category EXCEPT ![k] = row]
        /\ UNCHANGED fee /\ Continue(r, Idle)
    BY <1>5, <2>1, <2>2 DEF SoftDeleteCategory, Reply
  <2>4. row \in CategoryRow
    BY <1>0, <2>1, <2>2 DEF CategoryRow
  <2> QED
    BY <1>0, <2>3, <2>4, CategoryWritten, FeesGoOn
<1>6. ASSUME NEW r \in Requests,
             \/ InsertStructure(r) \/ WriteMove(r)
             \/ \E k \in Categories : DeleteStructure(r, k)
      PROVE  FeesTyped'
  BY <1>0, <1>2, <1>6, FeeFields
  DEF InsertStructure, WriteMove, DeleteStructure, Reply, Presence
<1>7. ASSUME NEW r \in Requests, NEW k \in Categories, SeedStructure(r, k)
      PROVE  FeesTyped'
  <2>1. PICK c : c = [req[r] EXCEPT !.todo = @ \ {k}]
    OBVIOUS
  <2>2. req[r] \in [op : {"seedFees"}, todo : SUBSET Categories]
    BY <1>0, <1>7, FeeFields DEF SeedStructure
  <2>3. c \in [op : {"seedFees"}, todo : SUBSET Categories]
    BY <2>1, <2>2
  <2>4. c \in FeeStates
    BY <2>3 DEF FeeStates, FeeCatalogRequest
  <2>5. Continue(r, c) /\ UNCHANGED category /\ fee' \in [Categories -> Presence]
    BY <1>0, <1>7, <2>1 DEF SeedStructure, Presence
  <2> QED
    BY <1>2, <2>4, <2>5
<1>8. ASSUME NEW r \in Requests, SkipCategory(r)
      PROVE  FeesTyped'
  <2>1. PICK k \in Categories :
          Continue(r, [req[r] EXCEPT !.copied = Append(@, k)])
    BY <1>8 DEF SkipCategory, Found
  <2>2. req[r].op = "copyFees" /\ UNCHANGED feeRows
    BY <1>8 DEF SkipCategory, Copying
  <2> QED
    BY <1>0, <1>1, <2>1, <2>2, CopyGoesOn
<1>9. ASSUME NEW r \in Requests, NEW k \in Categories, CopyCategory(r, k)
      PROVE  FeesTyped'
  <2>1. PICK q : q = req[r]
    OBVIOUS
  <2>2. PICK c : c = [q EXCEPT !.copied = Append(@, k)]
    OBVIOUS
  <2>3. /\ q \in FeeStates /\ q.op = "copyFees"
        /\ Len(q.copied) < Len(q.master.items)
        /\ NewCategory(k, LocalParent(q), Item(q).name)
        /\ Continue(r, c) /\ UNCHANGED fee
    BY <1>0, <1>9, <2>1, <2>2 DEF CopyCategory, Copying
  <2>4. c \in FeeStates
    BY <2>2, <2>3, CopyGoesOn
  <2>5. Item(q).name \in Labels /\ LocalParent(q) \in Categories \cup {Null}
    BY <1>0, <2>3, FeeFields, CopyingFacts
  <2> QED
    BY <1>0, <2>3, <2>4, <2>5, NewCategoryTypes, FeesGoOn
<1>10. ASSUME NEW r \in Requests, CopyStructure(r)
       PROVE  FeesTyped'
  <2>1. PICK q : q = req[r]
    OBVIOUS
  <2>2. PICK i \in q.fees :
          /\ fee' = [fee EXCEPT ![q.copied[i]] = "live"]
          /\ Continue(r, [q EXCEPT !.fees = @ \ {i}])
    BY <1>10, <2>1 DEF CopyStructure
  <2>3. PICK c : c = [q EXCEPT !.fees = @ \ {i}]
    OBVIOUS
  <2>4. /\ q \in CopyReq /\ q.fees \subseteq q.master.fees
        /\ q.op = "copyFees" /\ UNCHANGED category
    BY <1>0, <1>10, <2>1, FeeFields DEF CopyStructure, FeeStates
  <2>5. /\ c.op = "copyFees" /\ c.fees = q.fees \ {i} /\ c.master = q.master
        /\ c \in CopyReq
    BY <2>3, <2>4 DEF CopyReq
  <2>6. c \in FeeStates
    BY <2>4, <2>5 DEF FeeStates, FeeCatalogRequest, CopyReq
  <2>7. fee' \in [Categories -> Presence]
    BY <1>0, <2>2 DEF Presence
  <2> QED
    BY <1>2, <2>2, <2>3, <2>4, <2>6, <2>7
<1>11. ASSUME NEW r \in Requests,
              SeedStructuresDone(r) \/ GenerateDone(r) \/ FeeCatalogAbandon(r)
       PROVE  FeesTyped'
  BY <1>0, <1>1, <1>11
  DEF SeedStructuresDone, GenerateDone, FeeCatalogAbandon, Abandon, Reply
<1>12. ASSUME NEW r \in Requests,
              \/ \E k \in Categories :
                   DeleteFeeCategory(r, k) \/ CreateStructure(r, k)
              \/ \E from \in Categories, to \in Categories :
                   MoveStructure(r, from, to)
              \/ SeedStructures(r)
              \/ \E m \in Catalogues : GenerateFromMaster(r, m)
       PROVE  FeesTyped'
  <2>1. UNCHANGED feeRows
    BY <1>12 DEF DeleteFeeCategory, CreateStructure, MoveStructure,
       SeedStructures, GenerateFromMaster
  <2>2. \E c \in FeeStates : Continue(r, c)
    BY <1>12, FeeStarts
  <2> QED
    BY <1>1, <2>1, <2>2
<1>13. \E r \in Requests :
         \/ \E k \in Categories, above \in Categories \cup {Null},
               name \in Labels : CreateFeeCategory(r, k, above, name)
         \/ \E k \in Categories, name \in Labels :
              UpdateFeeCategory(r, k, name)
         \/ \E k \in Categories :
              \/ DeleteFeeCategory(r, k) \/ CreateStructure(r, k)
              \/ DeleteStructure(r, k) \/ SeedStructure(r, k)
              \/ CopyCategory(r, k)
         \/ \E from \in Categories, to \in Categories :
              MoveStructure(r, from, to)
         \/ \E m \in Catalogues : GenerateFromMaster(r, m)
         \/ SoftDeleteCategory(r) \/ InsertStructure(r) \/ WriteMove(r)
         \/ SeedStructures(r) \/ SkipCategory(r) \/ CopyStructure(r)
         \/ SeedStructuresDone(r) \/ GenerateDone(r) \/ FeeCatalogAbandon(r)
  BY Zenon DEF FeeCatalogNext, FeeCatalogHandler
<1> QED
  BY <1>3, <1>4, <1>5, <1>6, <1>7, <1>8, <1>9, <1>10, <1>11, <1>12, <1>13,
     Zenon

LEMMA FeesTypedInit == FeeCatalogInit => FeesTyped
BY DEF FeeCatalogInit, HandlersInit, FeesTyped, FeeCatalogTypeOK, FeeStates,
   FeeCatalogRequest, Presence, Idle


-----------------------------------------------------------------------------
(***************************************************************************)
(* The fees: a category about to be deleted has no structure, and those    *)
(* that structures are to be assigned to are live, also the ones a copy    *)
(* has found or made.                                                      *)
(***************************************************************************)
FeeHeld(q) ==
  /\ q.op = "deleteCategory" => q.id \in Made /\ fee[q.id] # "live"
  /\ q.op = "createFee" => q.id \in LiveCategories
  /\ q.op = "moveFee" => q.from \in Categories /\ q.to \in LiveCategories
  /\ q.op = "seedFees" => /\ DOMAIN q = {"op", "todo"}
                          /\ q.todo \subseteq LiveCategories
  /\ q.op = "copyFees" =>
       /\ q \in CopyReq
       /\ q.fees \subseteq q.master.fees
       /\ \A i \in DOMAIN q.copied : q.copied[i] \in LiveCategories
       /\ \A k \in Categories :
            q.seen[k] # Null /\ q.seen[k].live => k \in LiveCategories

CategoriesKept == FeesHaveCategories => FeesHaveCategories'

FeeTables ==
  /\ category \in [Categories -> CategoryRow \cup {Null}]
  /\ DOMAIN fee = Categories

LEMMA FeeAnswered ==
  ASSUME FeesTyped, NEW r \in Requests, NEW c,
         req' = [req EXCEPT ![r] = c], FeeHeld(c)'
  PROVE  FeeHeld(req[r])'
<1>1. req'[r] = c
  BY DEF FeesTyped
<1> QED
  BY <1>1

LEMMA IdleHeldFee == FeeHeld(Idle) /\ FeeHeld(Idle)'
BY DEF FeeHeld, Idle

\* What other requests rely on does not end when categories or structures are
\* added.
LEMMA FeeHeldOn ==
  ASSUME NEW q, FeeHeld(q), LiveCategories \subseteq LiveCategories',
         q.op # "deleteCategory"
  PROVE  FeeHeld(q)'
BY DEF FeeHeld

LEMMA NewCategoryStep ==
  ASSUME FeeTables, NEW k \in Categories, NEW above \in Categories \cup {Null},
         NEW name \in Labels, NewCategory(k, above, name), UNCHANGED fee
  PROVE  /\ CategoriesKept /\ k \in LiveCategories'
         /\ LiveCategories \subseteq LiveCategories'
<1> DEFINE row == [name |-> name, parent |-> above, live |-> TRUE]
<1>1. row \in CategoryRow /\ row.live
  BY DEF CategoryRow
<1> HIDE DEF row
<1>2. row # Null
  BY <1>1, NoCategoryAssumption
<1>3. /\ category' = [category EXCEPT ![k] = row]
      /\ category[k] = Null
  BY DEF NewCategory, Made, row
<1>4. /\ k \in LiveCategories'
      /\ LiveCategories \subseteq LiveCategories'
  BY <1>1, <1>2, <1>3 DEF FeeTables, LiveCategories, Made
<1> QED
  BY <1>1, <1>3, <1>4 DEF CategoriesKept, FeesHaveCategories

LEMMA CopyAdvances ==
  ASSUME NEW q, FeeHeld(q), q.op = "copyFees", NEW k \in LiveCategories
  PROVE  FeeHeld([q EXCEPT !.copied = Append(@, k)])
<1>1. PICK next : next = [q EXCEPT !.copied = Append(@, k)]
  OBVIOUS
<1>2. /\ q \in CopyReq /\ q.copied \in Seq(Categories)
      /\ k \in Categories
  BY DEF FeeHeld, CopyReq, LiveCategories, Made
<1>3. /\ next.op = "copyFees" /\ next.copied = Append(q.copied, k)
      /\ next.seen = q.seen /\ next.fees = q.fees /\ next.master = q.master
      /\ next \in CopyReq
  <2>1. Append(q.copied, k) \in Seq(Categories)
    BY <1>2
  <2> QED
    BY <1>1, <1>2, <2>1, CopyFields
<1>4. \A i \in DOMAIN next.copied : next.copied[i] \in LiveCategories
  BY <1>2, <1>3 DEF FeeHeld
<1> QED
  BY <1>1, <1>3, <1>4 DEF FeeHeld

LEMMA FeesStep ==
  ASSUME NEW r \in Requests, FeesTyped, FeeHeld(req[r]),
         FeeCatalogHandler(r)
  PROVE  FeeHeld(req[r])' /\ CategoriesKept
<1>0. FeeHeld(req[r]) /\ FeeTables
  BY DEF FeesTyped, FeeCatalogTypeOK, FeeTables
<1>1. ASSUME req[r] = Idle, UNCHANGED req
      PROVE  FeeHeld(req[r])'
  BY <1>1, IdleHeldFee
<1>2. Reply(r) => FeeHeld(req[r])'
  BY FeeAnswered, IdleHeldFee DEF Reply, Continue
\* A request that starts, or goes on without a write.
<1>3. ASSUME NEW c, Continue(r, c), UNCHANGED feeRows, FeeHeld(c)
      PROVE  FeeHeld(req[r])' /\ CategoriesKept
  <2>1. FeeHeld(c)' /\ CategoriesKept
    BY <1>3 DEF FeeHeld, CategoriesKept, FeesHaveCategories, LiveCategories, Made,
       feeRows
  <2> QED
    BY <1>3, <2>1, FeeAnswered DEF Continue
\* A structure that is written for a live category.
<1>4. ASSUME NEW k \in LiveCategories, UNCHANGED category,
             DOMAIN fee' = Categories,
             \A j \in Categories \ {k} : fee'[j] = "live" => fee[j] = "live"
      PROVE  CategoriesKept
  BY <1>4 DEF CategoriesKept, FeesHaveCategories, LiveCategories, Made
<1>5. ASSUME NEW k \in Categories, NEW above \in Categories \cup {Null},
             NEW name \in Labels, CreateFeeCategory(r, k, above, name)
      PROVE  FeeHeld(req[r])' /\ CategoriesKept
  BY <1>0, <1>1, <1>5, NewCategoryStep DEF CreateFeeCategory
<1>6. ASSUME NEW k \in Categories, NEW name \in Labels,
             UpdateFeeCategory(r, k, name)
      PROVE  FeeHeld(req[r])' /\ CategoriesKept
  <2>1. /\ category[k] \in CategoryRow /\ category[k].live
        /\ category' = [category EXCEPT ![k].name = name]
        /\ UNCHANGED fee
    BY <1>0, <1>6 DEF UpdateFeeCategory, LiveCategories, Made, FeeTables
  <2>2. PICK row : row = [category[k] EXCEPT !.name = name]
    OBVIOUS
  <2>3. row \in CategoryRow /\ row.live
    BY <2>1, <2>2 DEF CategoryRow
  <2>4. row # Null
    BY <2>3, NoCategoryAssumption
  <2>5. category' = [category EXCEPT ![k] = row]
    BY <2>1, <2>2
  <2>6. LiveCategories \subseteq LiveCategories'
    BY <2>3, <2>4, <2>5 DEF LiveCategories, Made, FeeTables
  <2>7. CategoriesKept
    BY <2>1, <2>3, <2>5, <2>6 DEF CategoriesKept, FeesHaveCategories
  <2> QED
    BY <1>1, <1>6, <2>7 DEF UpdateFeeCategory
<1>7. ASSUME NEW k \in Categories, DeleteFeeCategory(r, k)
      PROVE  FeeHeld(req[r])' /\ CategoriesKept
  BY <1>3, <1>7 DEF DeleteFeeCategory, FeeHeld, LiveCategories
<1>8. CASE SoftDeleteCategory(r)
  <2>1. PICK k \in Made : k = req[r].id /\ fee[k] # "live"
    BY <1>0, <1>8 DEF SoftDeleteCategory, FeeHeld
  <2>2. PICK row : row = [category[k] EXCEPT !.live = FALSE]
    OBVIOUS
  <2>3. /\ category' = [category EXCEPT ![k] = row]
        /\ UNCHANGED fee
    BY <1>8, <2>1, <2>2 DEF SoftDeleteCategory
  <2>4. row \in CategoryRow
    BY <1>0, <2>1, <2>2 DEF FeeTables, CategoryRow, Made
  <2>5. CategoriesKept
    BY <2>1, <2>3, <2>4 DEF CategoriesKept, FeesHaveCategories, LiveCategories,
       Made
  <2> QED
    BY <1>2, <1>8, <2>5 DEF SoftDeleteCategory
<1>9. ASSUME NEW k \in Categories, CreateStructure(r, k)
      PROVE  FeeHeld(req[r])' /\ CategoriesKept
  BY <1>3, <1>9 DEF CreateStructure, FeeHeld
<1>10. CASE InsertStructure(r)
  <2>1. PICK k \in LiveCategories : k = req[r].id
    BY <1>0, <1>10 DEF InsertStructure, FeeHeld
  <2> QED
    BY <1>0, <1>2, <1>4, <1>10, <2>1 DEF InsertStructure, FeeTables
<1>11. ASSUME NEW from \in Categories, NEW to \in Categories,
              MoveStructure(r, from, to)
       PROVE  FeeHeld(req[r])' /\ CategoriesKept
  BY <1>3, <1>11 DEF MoveStructure, FeeHeld
<1>12. CASE WriteMove(r)
  <2>1. PICK k \in LiveCategories : k = req[r].to
    BY <1>0, <1>12 DEF WriteMove, FeeHeld
  <2> QED
    BY <1>0, <1>2, <1>4, <1>12, <2>1 DEF WriteMove, FeeTables
<1>13. ASSUME NEW k \in Categories, DeleteStructure(r, k)
       PROVE  FeeHeld(req[r])' /\ CategoriesKept
  BY <1>1, <1>13 DEF DeleteStructure, CategoriesKept, FeesHaveCategories,
     LiveCategories, Made
<1>14. CASE SeedStructures(r)
  <2>1. PICK c : /\ c = [op |-> "seedFees", todo |-> Leaves]
                 /\ Continue(r, c) /\ UNCHANGED feeRows
    BY <1>14 DEF SeedStructures
  <2>2. FeeHeld(c)
    BY <2>1 DEF FeeHeld, Leaves
  <2> QED
    BY <1>3, <2>1, <2>2
<1>15. ASSUME NEW k \in Categories, SeedStructure(r, k)
       PROVE  FeeHeld(req[r])' /\ CategoriesKept
  <2>1. /\ k \in LiveCategories /\ req[r].op = "seedFees"
        /\ DOMAIN req[r] = {"op", "todo"}
        /\ req[r].todo \subseteq LiveCategories
    BY <1>0, <1>15 DEF SeedStructure, FeeHeld
  <2>2. PICK c : c = [req[r] EXCEPT !.todo = @ \ {k}]
    OBVIOUS
  <2>3. /\ c.op = "seedFees" /\ c.todo = req[r].todo \ {k}
        /\ DOMAIN c = {"op", "todo"}
    BY <2>1, <2>2
  <2>4. FeeHeld(c)
    BY <2>1, <2>3 DEF FeeHeld
  <2>5. /\ req' = [req EXCEPT ![r] = c] /\ UNCHANGED category
        /\ fee' = [fee EXCEPT ![k] = "live"]
    BY <1>15, <2>2 DEF SeedStructure, Continue
  <2>6. FeeHeld(c)'
    BY <2>3, <2>4, <2>5, FeeHeldOn DEF LiveCategories, Made
  <2>7. CategoriesKept
    BY <1>0, <1>4, <2>1, <2>5 DEF FeeTables
  <2> QED
    BY <2>5, <2>6, <2>7, FeeAnswered
<1>16. ASSUME NEW m \in Catalogues, GenerateFromMaster(r, m)
       PROVE  FeeHeld(req[r])' /\ CategoriesKept
  <2>1. PICK c : /\ c = [op |-> "copyFees", master |-> m, seen |-> category,
                         copied |-> <<>>, fees |-> m.fees]
                 /\ Continue(r, c) /\ UNCHANGED feeRows
    BY <1>16 DEF GenerateFromMaster
  <2>2. m.fees \in SUBSET Nat
    BY CataloguesAssumption DEF Catalogue
  <2>3. c \in CopyReq
    BY <1>0, <2>1, <2>2 DEF CopyReq, FeeTables
  <2>4. FeeHeld(c)
    BY <2>1, <2>3 DEF FeeHeld, LiveCategories, Made
  <2> QED
    BY <1>3, <2>1, <2>4
<1>17. CASE SkipCategory(r)
  <2>1. PICK k \in Found(req[r]) :
          Continue(r, [req[r] EXCEPT !.copied = Append(@, k)])
    BY <1>17 DEF SkipCategory
  <2>2. k \in LiveCategories /\ req[r].op = "copyFees" /\ UNCHANGED feeRows
    BY <1>0, <1>17, <2>1 DEF SkipCategory, Copying, Found, FeeHeld
  <2>3. PICK c : c = [req[r] EXCEPT !.copied = Append(@, k)]
    OBVIOUS
  <2>4. FeeHeld(c)
    BY <1>0, <2>2, <2>3, CopyAdvances
  <2> QED
    BY <1>3, <2>1, <2>2, <2>3, <2>4
<1>18. ASSUME NEW k \in Categories, CopyCategory(r, k)
       PROVE  FeeHeld(req[r])' /\ CategoriesKept
  <2>1. PICK q : q = req[r]
    OBVIOUS
  <2>2. PICK c : c = [q EXCEPT !.copied = Append(@, k)]
    OBVIOUS
  <2>3. /\ FeeHeld(q) /\ q.op = "copyFees"
        /\ Len(q.copied) < Len(q.master.items)
        /\ NewCategory(k, LocalParent(q), Item(q).name)
        /\ req' = [req EXCEPT ![r] = c] /\ UNCHANGED fee
    BY <1>0, <1>18, <2>1, <2>2 DEF CopyCategory, Copying, Continue
  <2>4. /\ CategoriesKept /\ k \in LiveCategories'
        /\ LiveCategories \subseteq LiveCategories'
    <3>1. q \in CopyReq
      BY <2>3 DEF FeeHeld
    <3> QED
      BY <1>0, <2>3, <3>1, CopyingFacts, NewCategoryStep
  <2>5. FeeHeld(q)'
    BY <2>3, <2>4, FeeHeldOn
  <2>6. q \in CopyReq /\ q.copied \in Seq(Categories)
    BY <2>3 DEF FeeHeld, CopyReq
  <2>7. /\ c.op = "copyFees" /\ c.copied = Append(q.copied, k)
        /\ c.seen = q.seen /\ c.fees = q.fees /\ c.master = q.master
        /\ c \in CopyReq
    <3>1. Append(q.copied, k) \in Seq(Categories)
      BY <2>6
    <3> QED
      BY <2>2, <2>6, <3>1, CopyFields
  <2>8. \A i \in DOMAIN c.copied : c.copied[i] \in LiveCategories'
    BY <2>3, <2>4, <2>5, <2>6, <2>7 DEF FeeHeld
  <2>9. FeeHeld(c)'
    BY <2>3, <2>5, <2>7, <2>8 DEF FeeHeld
  <2> QED
    BY <2>3, <2>4, <2>9, FeeAnswered
<1>19. CASE CopyStructure(r)
  <2>1. PICK q : q = req[r]
    OBVIOUS
  <2>2. PICK i \in q.fees :
          /\ fee' = [fee EXCEPT ![q.copied[i]] = "live"]
          /\ Continue(r, [q EXCEPT !.fees = @ \ {i}])
    BY <1>19, <2>1 DEF CopyStructure
  <2>3. PICK c : c = [q EXCEPT !.fees = @ \ {i}]
    OBVIOUS
  <2>4. /\ FeeHeld(q) /\ q.op = "copyFees" /\ UNCHANGED category
        /\ ~(Len(q.copied) < Len(q.master.items))
        /\ req' = [req EXCEPT ![r] = c]
    BY <1>0, <1>19, <2>1, <2>2, <2>3
       DEF CopyStructure, Copying, Continue
  <2>5. /\ q \in CopyReq /\ q.copied \in Seq(Categories)
        /\ q.master \in Catalogue /\ i \in DOMAIN q.master.items
    BY <2>4, CataloguesAssumption DEF FeeHeld, CopyReq
  <2>6. i \in DOMAIN q.copied
    BY <2>4, <2>5 DEF Catalogue
  <2>7. PICK k \in LiveCategories : k = q.copied[i]
    BY <2>4, <2>6 DEF FeeHeld
  <2>8. CategoriesKept
    BY <1>0, <1>4, <2>2, <2>4, <2>7 DEF FeeTables
  <2>9. /\ c.op = "copyFees" /\ c.copied = q.copied
        /\ c.seen = q.seen /\ c.fees = q.fees \ {i} /\ c.master = q.master
        /\ c \in CopyReq
    BY <2>3, <2>5 DEF CopyReq
  <2>10. FeeHeld(c)
    BY <2>4, <2>9 DEF FeeHeld
  <2>11. FeeHeld(c)'
    BY <2>4, <2>9, <2>10, FeeHeldOn DEF LiveCategories, Made
  <2> QED
    BY <2>4, <2>8, <2>11, FeeAnswered
<1>20. CASE SeedStructuresDone(r) \/ GenerateDone(r) \/ FeeCatalogAbandon(r)
  <2>1. Continue(r, Idle) /\ UNCHANGED feeRows
    BY <1>20 DEF SeedStructuresDone, GenerateDone, FeeCatalogAbandon, Abandon,
       Reply
  <2> QED
    BY <1>3, <2>1, IdleHeldFee
<1>21. \/ \E k \in Categories, above \in Categories \cup {Null},
             name \in Labels : CreateFeeCategory(r, k, above, name)
       \/ \E k \in Categories, name \in Labels : UpdateFeeCategory(r, k, name)
       \/ \E k \in Categories :
            \/ DeleteFeeCategory(r, k) \/ CreateStructure(r, k)
            \/ DeleteStructure(r, k) \/ SeedStructure(r, k)
            \/ CopyCategory(r, k)
       \/ \E from \in Categories, to \in Categories :
            MoveStructure(r, from, to)
       \/ \E m \in Catalogues : GenerateFromMaster(r, m)
       \/ SoftDeleteCategory(r) \/ InsertStructure(r) \/ WriteMove(r)
       \/ SeedStructures(r) \/ SkipCategory(r) \/ CopyStructure(r)
       \/ SeedStructuresDone(r) \/ GenerateDone(r) \/ FeeCatalogAbandon(r)
  BY Zenon DEF FeeCatalogHandler
<1> QED
  BY <1>5, <1>6, <1>7, <1>8, <1>9, <1>10, <1>11, <1>12, <1>13, <1>14, <1>15,
     <1>16, <1>17, <1>18, <1>19, <1>20, <1>21, Zenon

LEMMA CategoriesHeld ==
  ASSUME FeesTyped, NEW r \in Requests
  PROVE  FeeHeld(req[r]) <=> CategoriesStand(req[r])
<1>1. req[r] \in FeeCatalogRequest /\ req[r] \in FeeStates
  BY DEF FeesTyped, FeeCatalogTypeOK
<1> QED
  BY <1>1, FeeFields
     DEF FeeHeld, CategoriesStand, FeeStates, WasLive, Made, LiveCategories

\* Whatever handlers do that are not overtaken, a live structure is of a live
\* category.
LEMMA FeesByAnyHandler ==
  ASSUME FeesTyped
  PROVE  FeesKeepCategories
<1> SUFFICES ASSUME NEW r \in Requests, FeeCatalogHandler(r),
                    CategoriesStand(req[r])
             PROVE  CategoriesStand(req[r])' /\ CategoriesKept
  BY DEF FeesKeepCategories, CategoriesKept
<1>1. FeeHeld(req[r])' /\ CategoriesKept
  BY CategoriesHeld, FeesStep
<1>2. FeesTyped'
  BY FeesTypedStep DEF FeeCatalogNext
<1>3. CategoriesStand(req[r])'
  BY <1>1 DEF FeeHeld, CategoriesStand, WasLive
<1> QED
  BY <1>1, <1>3

-----------------------------------------------------------------------------
(***************************************************************************)
(* Routes: types, for handlers in any number.                              *)
(***************************************************************************)
RowsWith(D) == [line : RouteCodes, data : D, live : BOOLEAN]

LEMMA ListedLegs ==
  ASSUME NEW codes, NEW list
  PROVE  /\ \A leg \in Listed(codes, list) :
              /\ leg = <<leg[1], leg[2]>> /\ leg[1] \in codes
              /\ leg[2] \in DOMAIN SeedPlan.routes[leg[1]][list]
         /\ \A c \in codes : \A i \in DOMAIN SeedPlan.routes[c][list] :
              <<c, i>> \in Listed(codes, list)
<1>1. ASSUME NEW leg \in Listed(codes, list)
      PROVE  /\ leg = <<leg[1], leg[2]>> /\ leg[1] \in codes
             /\ leg[2] \in DOMAIN SeedPlan.routes[leg[1]][list]
  <2>1. PICK c \in codes : leg \in {c} \X (DOMAIN SeedPlan.routes[c][list])
    BY <1>1 DEF Listed
  <2>2. leg = <<leg[1], leg[2]>> /\ leg[1] = c
    BY <2>1
  <2> QED
    BY <2>1, <2>2
<1>2. ASSUME NEW c \in codes, NEW i \in DOMAIN SeedPlan.routes[c][list]
      PROVE  <<c, i>> \in Listed(codes, list)
  <2>1. <<c, i>> \in {c} \X (DOMAIN SeedPlan.routes[c][list])
    BY <1>2
  <2> QED
    BY <2>1 DEF Listed
<1> QED
  BY <1>1, <1>2

\* A new table differs from the old one by the rows given.
LEMMA AddedRows ==
  ASSUME NEW table, NEW rows, NEW x \in DOMAIN table
  PROVE  \/ Added(table, rows)[x] = table[x]
         \/ \E k \in DOMAIN rows :
              Added(table, rows)[x] =
                [line |-> rows[k].line, data |-> rows[k].data, live |-> TRUE]
<1> DEFINE id == CHOOSE f \in [DOMAIN rows -> Unmade(table)] :
                   \A j, k \in DOMAIN rows : f[j] = f[k] => j = k
           New(y) == \E k \in DOMAIN rows : id[k] = y
           K(y) == CHOOSE k \in DOMAIN rows : id[k] = y
<1>1. Added(table, rows) =
        [y \in DOMAIN table |->
           IF table[y] = Null /\ New(y)
           THEN [line |-> rows[K(y)].line, data |-> rows[K(y)].data,
                 live |-> TRUE]
           ELSE table[y]]
  BY DEF Added
<1>2. New(x) => K(x) \in DOMAIN rows
  OBVIOUS
<1> HIDE DEF New, K
<1> QED
  BY <1>1, <1>2

LEMMA AddedTyped ==
  ASSUME NEW S, NEW D, NEW table \in [S -> {Null} \cup RowsWith(D)], NEW rows,
         \A k \in DOMAIN rows : rows[k].line \in RouteCodes /\ rows[k].data \in D
  PROVE  Added(table, rows) \in [S -> {Null} \cup RowsWith(D)]
<1>1. ASSUME NEW x \in S
      PROVE  Added(table, rows)[x] \in {Null} \cup RowsWith(D)
  <2>1. \A k \in DOMAIN rows :
          [line |-> rows[k].line, data |-> rows[k].data, live |-> TRUE]
            \in RowsWith(D)
    BY DEF RowsWith
  <2>2. x \in DOMAIN table /\ table[x] \in {Null} \cup RowsWith(D)
    BY <1>1
  <2>3. \/ Added(table, rows)[x] = table[x]
        \/ \E k \in DOMAIN rows :
             Added(table, rows)[x] =
               [line |-> rows[k].line, data |-> rows[k].data, live |-> TRUE]
    BY <2>2, AddedRows
  <2> QED
    BY <2>1, <2>2, <2>3
<1>2. /\ DOMAIN Added(table, rows) = S
      /\ Added(table, rows) = [x \in S |-> Added(table, rows)[x]]
  BY DEF Added
<1> QED
  BY <1>1, <1>2

LEMMA SavedTyped ==
  ASSUME NEW S, NEW D, NEW table \in [S -> {Null} \cup RowsWith(D)],
         Null \notin RowsWith(D), NEW c \in RouteCodes, NEW form,
         NEW n \in 0 .. Len(form), Len(form) \in Nat,
         \A i \in 1 .. Len(form) : form[i].data \in D
  PROVE  Saved(table, c, form, n) \in [S -> {Null} \cup RowsWith(D)]
<1> DEFINE own == Own(table, c)
           Sent(x, m) == {i \in 1 .. m : form[i].id = x}
           new == {i \in 1 .. n : form[i].id \notin own}
           edited == [x \in DOMAIN table |->
                        CASE x \in own /\ Sent(x, Len(form)) = {} ->
                               [table[x] EXCEPT !.live = FALSE]
                          [] x \in own /\ Sent(x, n) # {} ->
                               [table[x] EXCEPT !.data =
                                  form[CHOOSE i \in Sent(x, n) : TRUE].data]
                          [] OTHER -> table[x]]
           rows == [i \in new |-> [line |-> c, data |-> form[i].data]]
<1>1. Saved(table, c, form, n) = Added(edited, rows)
  BY DEF Saved
<1>2. ASSUME NEW x \in S
      PROVE  edited[x] \in {Null} \cup RowsWith(D)
  <2>0. Sent(x, n) \subseteq Sent(x, Len(form))
    OBVIOUS
  <2>1. CASE x \in own /\ Sent(x, Len(form)) = {}
    <3>1. table[x] \in RowsWith(D)
      BY <1>2, <2>1 DEF Own
    <3>2. [table[x] EXCEPT !.live = FALSE] \in RowsWith(D)
      BY <3>1 DEF RowsWith
    <3>3. edited[x] = [table[x] EXCEPT !.live = FALSE]
      BY <1>2, <2>0, <2>1
    <3> QED
      BY <3>2, <3>3
  <2>2. CASE x \in own /\ Sent(x, Len(form)) # {} /\ Sent(x, n) # {}
    <3> PICK i \in 1 .. n : i = CHOOSE j \in Sent(x, n) : TRUE
      BY <2>2
    <3>1. table[x] \in RowsWith(D) /\ form[i].data \in D
      BY <1>2, <2>2 DEF Own
    <3>2. [table[x] EXCEPT !.data = form[i].data] \in RowsWith(D)
      BY <3>1 DEF RowsWith
    <3>3. edited[x] = [table[x] EXCEPT !.data = form[i].data]
      BY <1>2, <2>2
    <3> QED
      BY <3>2, <3>3
  <2>3. CASE /\ ~(x \in own /\ Sent(x, Len(form)) = {})
             /\ ~(x \in own /\ Sent(x, n) # {})
    BY <1>2, <2>3
  <2> QED
    BY <2>1, <2>2, <2>3
<1>3. edited \in [S -> {Null} \cup RowsWith(D)]
  BY <1>2
<1>4. \A k \in DOMAIN rows : rows[k].line \in RouteCodes /\ rows[k].data \in D
  OBVIOUS
<1> HIDE DEF edited, rows
<1> QED
  BY <1>1, <1>3, <1>4, AddedTyped

LEMMA ClearedTyped ==
  ASSUME NEW S, NEW D, NEW table \in [S -> {Null} \cup RowsWith(D)], NEW c
  PROVE  Cleared(table, c) \in [S -> {Null} \cup RowsWith(D)]
<1>1. ASSUME NEW x \in S, x \in Own(table, c)
      PROVE  [table[x] EXCEPT !.live = FALSE] \in RowsWith(D)
  <2>1. table[x] \in RowsWith(D)
    BY <1>1 DEF Own
  <2> QED
    BY <2>1 DEF RowsWith
<1> QED
  BY <1>1 DEF Cleared

LEMMA ShownTyped ==
  ASSUME NEW S, NEW D, NEW table \in [S -> {Null} \cup RowsWith(D)], NEW c
  PROVE  Shown(table, c) \subseteq D
<1>1. \A x \in Own(table, c) : table[x] \in RowsWith(D)
  BY DEF Own
<1> QED
  BY <1>1 DEF Shown, RowsWith

\* What a form has.
LEMMA FormFields ==
  /\ \A form \in TripForms :
       /\ Len(Items(form)) \in Nat /\ DOMAIN Items(form) = 1 .. Len(Items(form))
       /\ \A i \in 1 .. Len(Items(form)) : form[i].data \in TripData
  /\ \A form \in StopForms :
       /\ Len(Items(form)) \in Nat /\ DOMAIN Items(form) = 1 .. Len(Items(form))
       /\ \A i \in 1 .. Len(Items(form)) : form[i].data \in StopData
<1> DEFINE T == [id : (1 .. MaxTrips) \cup {Null}, data : TripData]
           P == [id : (1 .. MaxStops) \cup {Null}, data : StopData]
<1>1. /\ \A form \in TripForms : form # Null => form \in Seq(T)
      /\ \A form \in StopForms : form # Null => form \in Seq(P)
  BY FormsAssumption
<1>2. ASSUME NEW S, NEW form, form # Null => form \in Seq(S)
      PROVE  /\ Len(Items(form)) \in Nat
             /\ DOMAIN Items(form) = 1 .. Len(Items(form))
             /\ \A i \in 1 .. Len(Items(form)) : form[i] \in S
  <2>1. CASE form = Null
    BY <2>1 DEF Items
  <2>2. CASE form # Null
    BY <1>2, <2>2 DEF Items
  <2> QED
    BY <2>1, <2>2
<1>3. /\ \A t \in T : t.data \in TripData
      /\ \A p \in P : p.data \in StopData
  OBVIOUS
<1> HIDE DEF T, P
<1> QED
  BY <1>1, <1>2, <1>3

\* A seed has work that its plan lists.
RouteStates ==
  {q \in MasterRequest :
     q.op = "seedTransport" =>
       /\ q.routes \subseteq DOMAIN SeedPlan.routes
       /\ q.legs \subseteq Listed(DOMAIN SeedPlan.routes, "stops")}

RoutesTyped == MasterTypeOK /\ req \in [Requests -> RouteStates]

LEMMA MasterFields ==
  ASSUME NEW q \in RouteStates
  PROVE  /\ q.op = "saveRoute" =>
              /\ q.route \in RouteCodes /\ q.trips \in TripForms
              /\ q.stops \in StopForms
         /\ q.op = "seedTransport" =>
              /\ q.routes \subseteq DOMAIN SeedPlan.routes
              /\ q.legs \subseteq Listed(DOMAIN SeedPlan.routes, "stops")
         /\ q.op = "cloneTransport" =>
              /\ q.vehicles \subseteq VehicleNos /\ q.stops \subseteq StopNames
              /\ q.routes \in Copied
BY DEF RouteStates, MasterRequest, Idle

LEMMA RoutesGoOn ==
  ASSUME RoutesTyped, NEW r \in Requests, NEW c \in RouteStates,
         UNCHANGED req \/ Continue(r, c),
         vehicle' \in [VehicleNos -> Presence],
         stop' \in [StopNames -> Presence],
         route' \in [RouteCodes -> Presence],
         routeTrip' \in [1 .. MaxTrips -> {Null} \cup RowsWith(TripData)],
         routeStop' \in [1 .. MaxStops -> {Null} \cup RowsWith(StopData)],
         schoolCopy' \in [vehicles : SUBSET VehicleNos,
                          stops : SUBSET StopNames, routes : Copied]
  PROVE  RoutesTyped'
<1>1. req' \in [Requests -> RouteStates]
  BY DEF RoutesTyped, Continue
<1>2. req' \in [Requests -> MasterRequest]
  BY <1>1 DEF RouteStates
<1>3. TripRow = RowsWith(TripData) /\ StopRow = RowsWith(StopData)
  BY DEF TripRow, StopRow, RowsWith
<1> QED
  BY <1>1, <1>2, <1>3 DEF RoutesTyped, MasterTypeOK, RouteStates

LEMMA MasterTablesTyped ==
  ASSUME RoutesTyped
  PROVE  /\ vehicle \in [VehicleNos -> Presence]
         /\ stop \in [StopNames -> Presence]
         /\ route \in [RouteCodes -> Presence]
         /\ routeTrip \in [1 .. MaxTrips -> {Null} \cup RowsWith(TripData)]
         /\ routeStop \in [1 .. MaxStops -> {Null} \cup RowsWith(StopData)]
         /\ schoolCopy \in [vehicles : SUBSET VehicleNos,
                            stops : SUBSET StopNames, routes : Copied]
         /\ \A r \in Requests : req[r] \in RouteStates
         /\ Idle \in RouteStates
         /\ Null \notin RowsWith(TripData) \cup RowsWith(StopData)
<1>1. TripRow = RowsWith(TripData) /\ StopRow = RowsWith(StopData)
  BY DEF TripRow, StopRow, RowsWith
<1> QED
  BY <1>1, NoTripAssumption
     DEF RoutesTyped, MasterTypeOK, RouteStates, MasterRequest, Idle

\* The rows of a seed.
LEMMA PlanRows ==
  /\ \A leg \in Listed(DOMAIN SeedPlan.routes, "trips") :
       /\ leg[1] \in RouteCodes
       /\ SeedPlan.routes[leg[1]].trips[leg[2]] \in VehicleNos
  /\ \A leg \in Listed(DOMAIN SeedPlan.routes, "stops") :
       /\ leg[1] \in DOMAIN SeedPlan.routes /\ leg[1] \in RouteCodes
       /\ leg[2] \in Nat \ {0} /\ leg \in RouteCodes \X Nat
       /\ SeedPlan.routes[leg[1]].stops[leg[2]] \in StopNames
<1>1. ASSUME NEW leg \in Listed(DOMAIN SeedPlan.routes, "trips")
      PROVE  /\ leg[1] \in RouteCodes
             /\ SeedPlan.routes[leg[1]].trips[leg[2]] \in VehicleNos
  <2>1. PICK c \in DOMAIN SeedPlan.routes : c = leg[1]
    BY <1>1, ListedLegs
  <2>2. PICK list \in Seq(SeedPlan.vehicles) : list = SeedPlan.routes[c].trips
    BY <2>1, SeedPlanAssumption
  <2>3. leg[2] \in 1 .. Len(list)
    BY <1>1, <2>1, <2>2, ListedLegs
  <2>4. list[leg[2]] \in SeedPlan.vehicles
    BY <2>2, <2>3, PlaceOfSeq
  <2> QED
    BY <2>1, <2>2, <2>4, SeedPlanAssumption
<1>2. ASSUME NEW leg \in Listed(DOMAIN SeedPlan.routes, "stops")
      PROVE  /\ leg[1] \in DOMAIN SeedPlan.routes /\ leg[1] \in RouteCodes
             /\ leg[2] \in Nat \ {0} /\ leg \in RouteCodes \X Nat
             /\ SeedPlan.routes[leg[1]].stops[leg[2]] \in StopNames
  <2>1. PICK c \in DOMAIN SeedPlan.routes : c = leg[1]
    BY <1>2, ListedLegs
  <2>2. PICK list \in Seq(SeedPlan.stops) : list = SeedPlan.routes[c].stops
    BY <2>1, SeedPlanAssumption
  <2>3. leg[2] \in 1 .. Len(list)
    BY <1>2, <2>1, <2>2, ListedLegs
  <2>4. list[leg[2]] \in SeedPlan.stops
    BY <2>2, <2>3, PlaceOfSeq
  <2>5. /\ leg[2] \in Nat \ {0}
        /\ leg = <<leg[1], leg[2]>>
    BY <1>2, <2>2, <2>3, ListedLegs
  <2>6. leg[1] \in RouteCodes
    BY <2>1, SeedPlanAssumption
  <2>7. leg \in RouteCodes \X Nat
    BY <2>5, <2>6
  <2> QED
    BY <2>1, <2>2, <2>4, <2>5, <2>6, <2>7, SeedPlanAssumption
<1> QED
  BY <1>1, <1>2

\* Requests that start, or end without a write.
LEMMA RouteStarts ==
  ASSUME RoutesTyped, NEW r \in Requests,
         \/ \E c \in RouteCodes, trips \in TripForms, stops \in StopForms :
              SaveTripsAndStops(r, c, trips, stops)
         \/ SeedTransport(r) \/ CloneTransport(r) \/ MasterAbandon(r)
  PROVE  RoutesTyped'
<1>1. UNCHANGED masterRows
  BY DEF SaveTripsAndStops, SeedTransport, CloneTransport, MasterAbandon
<1>2. \E q \in RouteStates : Continue(r, q)
  <2>1. ASSUME NEW c \in RouteCodes, NEW trips \in TripForms,
               NEW stops \in StopForms, SaveTripsAndStops(r, c, trips, stops)
        PROVE  \E q \in RouteStates : Continue(r, q)
    <3>1. [op |-> "saveRoute", route |-> c, trips |-> trips,
           stops |-> stops] \in RouteStates
      BY DEF RouteStates, MasterRequest
    <3> QED
      BY <2>1, <3>1 DEF SaveTripsAndStops
  <2>2. CASE SeedTransport(r)
    <3> DEFINE legs == {leg \in Listed(DOMAIN SeedPlan.routes, "stops") :
                          ~Served(routeStop, leg)}
               vehicles == SeedPlan.vehicles \ LiveIn(vehicle)
               stops == SeedPlan.stops \ LiveIn(stop)
               codes == DOMAIN SeedPlan.routes \ LiveIn(route)
    <3>1. /\ legs \subseteq Listed(DOMAIN SeedPlan.routes, "stops")
          /\ legs \subseteq RouteCodes \X Nat
          /\ vehicles \subseteq VehicleNos /\ stops \subseteq StopNames
          /\ codes \subseteq DOMAIN SeedPlan.routes
          /\ codes \subseteq RouteCodes
      BY PlanRows, SeedPlanAssumption
    <3>2. Continue(r, [op |-> "seedTransport", vehicles |-> vehicles,
                       stops |-> stops, routes |-> codes, legs |-> legs])
      BY <2>2 DEF SeedTransport
    <3> HIDE DEF legs, vehicles, stops, codes
    <3>3. [op |-> "seedTransport", vehicles |-> vehicles,
           stops |-> stops, routes |-> codes, legs |-> legs] \in RouteStates
      BY <3>1 DEF RouteStates, MasterRequest
    <3> QED
      BY <3>2, <3>3
  <2>3. CASE CloneTransport(r)
    <3> DEFINE shown == [c \in RouteCodes |->
                           IF route[c] # "live" THEN Null
                           ELSE [trips |-> Shown(routeTrip, c),
                                 stops |-> Shown(routeStop, c)]]
    <3>1. \A c \in RouteCodes : /\ Shown(routeTrip, c) \subseteq TripData
                                /\ Shown(routeStop, c) \subseteq StopData
      BY MasterTablesTyped, ShownTyped
    <3>2. shown \in Copied
      BY <3>1 DEF Copied, RouteData
    <3>3. LiveIn(vehicle) \subseteq VehicleNos /\ LiveIn(stop) \subseteq StopNames
      BY MasterTablesTyped DEF LiveIn
    <3>4. Continue(r, [op |-> "cloneTransport", vehicles |-> LiveIn(vehicle),
                       stops |-> LiveIn(stop), routes |-> shown])
      BY <2>3 DEF CloneTransport
    <3> HIDE DEF shown
    <3>5. [op |-> "cloneTransport", vehicles |-> LiveIn(vehicle),
           stops |-> LiveIn(stop), routes |-> shown] \in RouteStates
      BY <3>2, <3>3 DEF RouteStates, MasterRequest
    <3> QED
      BY <3>4, <3>5
  <2>4. CASE MasterAbandon(r)
    BY <2>4, MasterTablesTyped DEF MasterAbandon, Abandon, Reply
  <2> QED
    BY <2>1, <2>2, <2>3, <2>4
<1> QED
  BY <1>1, <1>2, MasterTablesTyped, RoutesGoOn DEF masterRows, named, nested

LEMMA RouteWrites ==
  ASSUME RoutesTyped, NEW r \in Requests, WriteRoute(r)
  PROVE  RoutesTyped'
<1> DEFINE c == req[r].route
           trips == req[r].trips
           stops == req[r].stops
<1>1. c \in RouteCodes /\ trips \in TripForms /\ stops \in StopForms
  BY MasterTablesTyped, MasterFields DEF WriteRoute
<1>2. /\ routeTrip' = IF trips = Null THEN routeTrip
                      ELSE Saved(routeTrip, c, trips, Len(trips))
      /\ routeStop' = IF stops = Null THEN routeStop
                      ELSE Saved(routeStop, c, stops, Len(stops))
      /\ Continue(r, Idle) /\ UNCHANGED <<named, schoolCopy>>
  BY DEF WriteRoute, Reply
<1> HIDE DEF c, trips, stops
<1>3. routeTrip' \in [1 .. MaxTrips -> {Null} \cup RowsWith(TripData)]
  <2>1. trips # Null =>
          /\ Len(trips) \in Nat /\ Len(trips) \in 0 .. Len(trips)
          /\ \A i \in 1 .. Len(trips) : trips[i].data \in TripData
    BY <1>1, FormFields DEF Items
  <2> QED
    BY <1>1, <1>2, <2>1, SavedTyped, MasterTablesTyped
<1>4. routeStop' \in [1 .. MaxStops -> {Null} \cup RowsWith(StopData)]
  <2>1. stops # Null =>
          /\ Len(stops) \in Nat /\ Len(stops) \in 0 .. Len(stops)
          /\ \A i \in 1 .. Len(stops) : stops[i].data \in StopData
    BY <1>1, FormFields DEF Items
  <2> QED
    BY <1>1, <1>2, <2>1, SavedTyped, MasterTablesTyped
<1> QED
  BY <1>2, <1>3, <1>4, MasterTablesTyped, RoutesGoOn DEF named

LEMMA RouteMade ==
  ASSUME RoutesTyped, NEW r \in Requests, NEW c \in RouteCodes,
         NEW trips \in TripForms, NEW stops \in StopForms,
         CreateRoute(r, c, trips, stops)
  PROVE  RoutesTyped'
<1> DEFINE RowsOf(form) == [i \in DOMAIN Items(form) |->
                              [line |-> c, data |-> form[i].data]]
<1>1. /\ route' = [route EXCEPT ![c] = "live"]
      /\ routeTrip' = Added(routeTrip, RowsOf(trips))
      /\ routeStop' = Added(routeStop, RowsOf(stops))
      /\ UNCHANGED <<vehicle, stop, schoolCopy, req>>
  BY DEF CreateRoute
<1>2. /\ \A k \in DOMAIN RowsOf(trips) :
           RowsOf(trips)[k].line \in RouteCodes /\ RowsOf(trips)[k].data \in TripData
      /\ \A k \in DOMAIN RowsOf(stops) :
           RowsOf(stops)[k].line \in RouteCodes /\ RowsOf(stops)[k].data \in StopData
  BY FormFields
<1> HIDE DEF RowsOf
<1>3. /\ routeTrip' \in [1 .. MaxTrips -> {Null} \cup RowsWith(TripData)]
      /\ routeStop' \in [1 .. MaxStops -> {Null} \cup RowsWith(StopData)]
  BY <1>1, <1>2, MasterTablesTyped, AddedTyped
<1>4. route' \in [RouteCodes -> Presence]
  BY <1>1, MasterTablesTyped DEF Presence
<1> QED
  BY <1>1, <1>3, <1>4, MasterTablesTyped, RoutesGoOn

LEMMA RoutesSeeded ==
  ASSUME RoutesTyped, NEW r \in Requests, WriteTransportSeed(r)
  PROVE  RoutesTyped'
<1> DEFINE plan == SeedPlan.routes
           trips == Listed(req[r].routes, "trips")
           tripRows == [leg \in trips |->
                          [line |-> leg[1],
                           data |-> plan[leg[1]].trips[leg[2]]]]
           stopRows == [leg \in req[r].legs |->
                          [line |-> leg[1],
                           data |-> <<plan[leg[1]].stops[leg[2]], leg[2]>>]]
<1>1. /\ req[r].routes \subseteq DOMAIN plan
      /\ req[r].legs \subseteq Listed(DOMAIN plan, "stops")
  BY MasterTablesTyped, MasterFields DEF WriteTransportSeed
<1>2. /\ vehicle' = [v \in VehicleNos |->
                       IF v \in req[r].vehicles THEN "live" ELSE vehicle[v]]
      /\ stop' = [s \in StopNames |->
                    IF s \in req[r].stops THEN "live" ELSE stop[s]]
      /\ route' = [c \in RouteCodes |->
                     IF c \in req[r].routes THEN "live" ELSE route[c]]
      /\ routeTrip' = Added(routeTrip, tripRows)
      /\ routeStop' = Added(routeStop, stopRows)
      /\ Continue(r, Idle) /\ UNCHANGED schoolCopy
  BY DEF WriteTransportSeed, Reply
<1>3. \A k \in DOMAIN tripRows :
        tripRows[k].line \in RouteCodes /\ tripRows[k].data \in TripData
  <2>1. trips \subseteq Listed(DOMAIN plan, "trips")
    BY <1>1 DEF Listed
  <2> QED
    BY <2>1, PlanRows DEF TripData
<1>4. \A k \in DOMAIN stopRows :
        stopRows[k].line \in RouteCodes /\ stopRows[k].data \in StopData
  BY <1>1, PlanRows DEF StopData
<1> HIDE DEF tripRows, stopRows
<1>5. /\ routeTrip' \in [1 .. MaxTrips -> {Null} \cup RowsWith(TripData)]
      /\ routeStop' \in [1 .. MaxStops -> {Null} \cup RowsWith(StopData)]
  BY <1>2, <1>3, <1>4, MasterTablesTyped, AddedTyped
<1>6. /\ vehicle' \in [VehicleNos -> Presence]
      /\ stop' \in [StopNames -> Presence]
      /\ route' \in [RouteCodes -> Presence]
  BY <1>2, MasterTablesTyped DEF Presence
<1> QED
  BY <1>2, <1>5, <1>6, MasterTablesTyped, RoutesGoOn

LEMMA RoutesCopied ==
  ASSUME RoutesTyped, NEW r \in Requests, WriteClone(r)
  PROVE  RoutesTyped'
<1> DEFINE seen == req[r]
<1>1. /\ seen.vehicles \subseteq VehicleNos /\ seen.stops \subseteq StopNames
      /\ seen.routes \in Copied
  BY MasterTablesTyped, MasterFields DEF WriteClone
<1>2. /\ schoolCopy' =
           [vehicles |-> schoolCopy.vehicles \cup seen.vehicles,
            stops |-> schoolCopy.stops \cup seen.stops,
            routes |-> [c \in RouteCodes |->
                          IF /\ seen.routes[c] # Null
                             /\ schoolCopy.routes[c] = Null
                          THEN Mapped(seen, c) ELSE schoolCopy.routes[c]]]
      /\ Continue(r, Idle) /\ UNCHANGED <<named, nested>>
  BY DEF WriteClone, Reply
<1> HIDE DEF seen
<1>3. \A c \in RouteCodes : seen.routes[c] # Null => Mapped(seen, c) \in RouteData
  <2> SUFFICES ASSUME NEW c \in RouteCodes, seen.routes[c] # Null
               PROVE  Mapped(seen, c) \in RouteData
    OBVIOUS
  <2>1. seen.routes[c] \in RouteData
    BY <1>1 DEF Copied
  <2>2. /\ {IF v \in seen.vehicles THEN v ELSE Null : v \in seen.routes[c].trips}
             \subseteq TripData
        /\ {d \in seen.routes[c].stops : d[1] \in seen.stops}
             \subseteq StopData
    BY <1>1, <2>1 DEF RouteData, TripData
  <2> QED
    BY <2>2 DEF Mapped, RouteData
<1>4. schoolCopy \in [vehicles : SUBSET VehicleNos, stops : SUBSET StopNames,
                      routes : Copied]
  BY MasterTablesTyped
<1>5. [c \in RouteCodes |->
         IF /\ seen.routes[c] # Null /\ schoolCopy.routes[c] = Null
         THEN Mapped(seen, c) ELSE schoolCopy.routes[c]] \in Copied
  BY <1>3, <1>4 DEF Copied
<1>6. schoolCopy' \in [vehicles : SUBSET VehicleNos, stops : SUBSET StopNames,
                       routes : Copied]
  BY <1>1, <1>2, <1>4, <1>5
<1> QED
  BY <1>2, <1>6, MasterTablesTyped, RoutesGoOn DEF named, nested

LEMMA RoutesTypedStep ==
  ASSUME RoutesTyped, MasterNext
  PROVE  RoutesTyped'
<1>1. ASSUME NEW r \in Requests,
             \/ \E v \in VehicleNos : CreateVehicle(r, v) \/ DeleteVehicle(r, v)
             \/ \E s \in StopNames : CreateStop(r, s) \/ DeleteStop(r, s)
      PROVE  RoutesTyped'
  BY <1>1, MasterTablesTyped, RoutesGoOn
  DEF CreateVehicle, DeleteVehicle, CreateStop, DeleteStop, nested, Presence
<1>2. ASSUME NEW r \in Requests, NEW c \in RouteCodes, DeleteRoute(r, c)
      PROVE  RoutesTyped'
  <2>1. /\ routeTrip' \in [1 .. MaxTrips -> {Null} \cup RowsWith(TripData)]
        /\ routeStop' \in [1 .. MaxStops -> {Null} \cup RowsWith(StopData)]
    BY <1>2, MasterTablesTyped, ClearedTyped DEF DeleteRoute
  <2> QED
    BY <1>2, <2>1, MasterTablesTyped, RoutesGoOn DEF DeleteRoute, Presence
<1>3. \E r \in Requests :
        \/ \E v \in VehicleNos : CreateVehicle(r, v) \/ DeleteVehicle(r, v)
        \/ \E s \in StopNames : CreateStop(r, s) \/ DeleteStop(r, s)
        \/ \E c \in RouteCodes, trips \in TripForms, stops \in StopForms :
             \/ CreateRoute(r, c, trips, stops)
             \/ SaveTripsAndStops(r, c, trips, stops)
        \/ \E c \in RouteCodes : DeleteRoute(r, c)
        \/ WriteRoute(r) \/ SeedTransport(r) \/ WriteTransportSeed(r)
        \/ CloneTransport(r) \/ WriteClone(r) \/ MasterAbandon(r)
  BY Zenon DEF MasterNext, MasterHandler
<1> QED
  BY <1>1, <1>2, <1>3, RouteStarts, RouteWrites, RouteMade, RoutesSeeded,
     RoutesCopied, Zenon

LEMMA RoutesTypedInit == MasterInit => RoutesTyped
BY DEF MasterInit, HandlersInit, RoutesTyped, MasterTypeOK, RouteStates,
   MasterRequest, Copied, Presence, Idle

-----------------------------------------------------------------------------
(***************************************************************************)
(* The routes: one about to be saved is live, and so will those be that a  *)
(* seed gives trips and stops to.                                          *)
(***************************************************************************)
Shaped(table) ==
  \A x \in DOMAIN table :
    table[x] # Null => DOMAIN table[x] = {"line", "data", "live"}

\* The live rows of a table are of these routes.
ClearOf(table, lines) ==
  /\ Shaped(table)
  /\ \A x \in DOMAIN table :
       table[x] # Null /\ table[x].live => table[x].line \in lines

RouteHeld(q) ==
  /\ q.op = "saveRoute" => q.route \in LiveIn(route)
  /\ q.op = "seedTransport" =>
       /\ q.routes \subseteq DOMAIN SeedPlan.routes
       /\ DOMAIN SeedPlan.routes \ q.routes \subseteq LiveIn(route)
       /\ \A leg \in q.legs : leg[1] \in DOMAIN SeedPlan.routes

RoutesClear ==
  /\ ClearOf(routeTrip, LiveIn(route))
  /\ ClearOf(routeStop, LiveIn(route))

LEMMA AddedClear ==
  ASSUME NEW table, NEW rows, NEW lines, ClearOf(table, lines),
         \A k \in DOMAIN rows : rows[k].line \in lines
  PROVE  ClearOf(Added(table, rows), lines)
<1>1. ASSUME NEW x \in DOMAIN Added(table, rows)
      PROVE  \/ x \in DOMAIN table /\ Added(table, rows)[x] = table[x]
             \/ \E k \in DOMAIN rows :
                  Added(table, rows)[x] =
                    [line |-> rows[k].line, data |-> rows[k].data,
                     live |-> TRUE]
  <2> DEFINE id == CHOOSE f \in [DOMAIN rows -> Unmade(table)] :
                     \A j, k \in DOMAIN rows : f[j] = f[k] => j = k
             New(y) == \E k \in DOMAIN rows : id[k] = y
             K(y) == CHOOSE k \in DOMAIN rows : id[k] = y
  <2>1. Added(table, rows) =
          [y \in DOMAIN table |->
             IF table[y] = Null /\ New(y)
             THEN [line |-> rows[K(y)].line, data |-> rows[K(y)].data,
                   live |-> TRUE]
             ELSE table[y]]
    BY DEF Added
  <2>2. New(x) => K(x) \in DOMAIN rows
    OBVIOUS
  <2> HIDE DEF New, K
  <2> QED
    BY <1>1, <2>1, <2>2
<1> QED
  BY <1>1 DEF ClearOf, Shaped

LEMMA SavedClear ==
  ASSUME NEW table, NEW c, NEW form, NEW n, n = Len(form), NEW lines,
         ClearOf(table, lines), c \in lines
  PROVE  ClearOf(Saved(table, c, form, n), lines)
<1> DEFINE own == Own(table, c)
           Sent(x, m) == {i \in 1 .. m : form[i].id = x}
           new == {i \in 1 .. n : form[i].id \notin own}
           edited == [x \in DOMAIN table |->
                        CASE x \in own /\ Sent(x, Len(form)) = {} ->
                               [table[x] EXCEPT !.live = FALSE]
                          [] x \in own /\ Sent(x, n) # {} ->
                               [table[x] EXCEPT !.data =
                                  form[CHOOSE i \in Sent(x, n) : TRUE].data]
                          [] OTHER -> table[x]]
           rows == [i \in new |-> [line |-> c, data |-> form[i].data]]
<1>1. Saved(table, c, form, n) = Added(edited, rows)
  BY DEF Saved
<1>2. ASSUME NEW x \in DOMAIN table
      PROVE  \/ edited[x] = table[x]
             \/ x \in own /\ edited[x] = [table[x] EXCEPT !.live = FALSE]
             \/ x \in own /\ \E d : edited[x] = [table[x] EXCEPT !.data = d]
  <2> PICK d : d = form[CHOOSE i \in Sent(x, n) : TRUE].data
    OBVIOUS
  <2>1. CASE x \in own /\ Sent(x, Len(form)) = {}
    BY <1>2, <2>1
  <2>2. CASE x \in own /\ Sent(x, Len(form)) # {} /\ Sent(x, n) # {}
    <3>1. edited[x] = [table[x] EXCEPT !.data = d]
      BY <1>2, <2>2
    <3> QED
      BY <2>2, <3>1
  <2>3. CASE /\ ~(x \in own /\ Sent(x, Len(form)) = {})
             /\ ~(x \in own /\ Sent(x, n) # {})
    BY <1>2, <2>3
  <2> QED
    BY <2>1, <2>2, <2>3
<1>3. DOMAIN edited = DOMAIN table
  OBVIOUS
<1> HIDE DEF edited, own, new
<1>4. \A k \in DOMAIN rows : rows[k].line \in lines
  <2>1. DOMAIN rows = new
    OBVIOUS
  <2>2. \A k \in new : rows[k] = [line |-> c, data |-> form[k].data]
    OBVIOUS
  <2> HIDE DEF rows
  <2> QED
    BY <2>1, <2>2
<1> HIDE DEF rows
<1>5. ASSUME NEW x \in DOMAIN table, edited[x] # Null
      PROVE  /\ DOMAIN edited[x] = {"line", "data", "live"}
             /\ edited[x].live => edited[x].line \in lines
  <2>1. CASE edited[x] = table[x]
    BY <1>5, <2>1 DEF ClearOf, Shaped
  <2>2. CASE x \in own /\ edited[x] # table[x]
    <3>1. /\ DOMAIN table[x] = {"line", "data", "live"}
          /\ table[x].line = c
      BY <2>2, <1>2 DEF ClearOf, Shaped, Own, own
    <3>2. DOMAIN edited[x] = DOMAIN table[x] /\ edited[x].line = table[x].line
      BY <1>2, <2>2, <3>1
    <3> QED
      BY <3>1, <3>2
  <2> QED
    BY <1>2, <2>1, <2>2
<1>6. ClearOf(edited, lines)
  BY <1>3, <1>5 DEF ClearOf, Shaped
<1> QED
  BY <1>1, <1>4, <1>6, AddedClear

LEMMA ClearedClear ==
  ASSUME NEW table, NEW c, NEW lines, ClearOf(table, lines)
  PROVE  ClearOf(Cleared(table, c), lines \ {c})
<1>1. ASSUME NEW x \in DOMAIN table, Cleared(table, c)[x] # Null
      PROVE  /\ DOMAIN Cleared(table, c)[x] = {"line", "data", "live"}
             /\ Cleared(table, c)[x].live =>
                  Cleared(table, c)[x].line \in lines \ {c}
  <2>1. CASE x \in Own(table, c)
    <3>1. /\ DOMAIN table[x] = {"line", "data", "live"}
          /\ Cleared(table, c)[x] = [table[x] EXCEPT !.live = FALSE]
      BY <2>1 DEF Cleared, Own, ClearOf, Shaped
    <3> QED
      BY <3>1
  <2>2. CASE x \notin Own(table, c)
    BY <1>1, <2>2 DEF Cleared, Own, ClearOf, Shaped
  <2> QED
    BY <2>1, <2>2
<1>2. DOMAIN Cleared(table, c) = DOMAIN table
  BY DEF Cleared
<1> QED
  BY <1>1, <1>2 DEF ClearOf, Shaped

LEMMA ClearGrows ==
  ASSUME NEW table, NEW lines, NEW more, ClearOf(table, lines),
         lines \subseteq more
  PROVE  ClearOf(table, more)
BY DEF ClearOf

ClearKept == RoutesClear => RoutesClear'

LEMMA RouteAnswered ==
  ASSUME RoutesTyped, NEW r \in Requests, NEW c,
         req' = [req EXCEPT ![r] = c], RouteHeld(c)'
  PROVE  RouteHeld(req[r])'
<1>1. req'[r] = c
  BY DEF RoutesTyped
<1> QED
  BY <1>1

LEMMA IdleHeldRoute == RouteHeld(Idle) /\ RouteHeld(Idle)'
BY DEF RouteHeld, Idle

LEMMA RoutesStep ==
  ASSUME NEW r \in Requests, RoutesTyped, RouteHeld(req[r]),
         MasterHandler(r)
  PROVE  RouteHeld(req[r])' /\ ClearKept
<1>0. RouteHeld(req[r]) /\ DOMAIN route = RouteCodes
  BY DEF RoutesTyped, MasterTypeOK
<1>1. ASSUME req[r] = Idle, UNCHANGED req
      PROVE  RouteHeld(req[r])'
  BY <1>1, IdleHeldRoute
<1>2. Reply(r) => RouteHeld(req[r])'
  BY RouteAnswered, IdleHeldRoute DEF Reply, Continue
<1>3. UNCHANGED <<route, nested>> => ClearKept
  BY DEF ClearKept, RoutesClear, nested, LiveIn
\* A request that starts, or goes on without a write.
<1>4. ASSUME NEW c, Continue(r, c), UNCHANGED masterRows, RouteHeld(c)
      PROVE  RouteHeld(req[r])' /\ ClearKept
  <2>1. RouteHeld(c)' /\ UNCHANGED <<route, nested>>
    BY <1>4 DEF RouteHeld, LiveIn, masterRows, named
  <2> QED
    BY <1>3, <1>4, <2>1, RouteAnswered DEF Continue
<1>5. ASSUME NEW v \in VehicleNos, CreateVehicle(r, v) \/ DeleteVehicle(r, v)
      PROVE  RouteHeld(req[r])' /\ ClearKept
  BY <1>1, <1>3, <1>5 DEF CreateVehicle, DeleteVehicle
<1>6. ASSUME NEW s \in StopNames, CreateStop(r, s) \/ DeleteStop(r, s)
      PROVE  RouteHeld(req[r])' /\ ClearKept
  BY <1>1, <1>3, <1>6 DEF CreateStop, DeleteStop
<1>7. ASSUME NEW c \in RouteCodes, NEW trips \in TripForms,
             NEW stops \in StopForms, CreateRoute(r, c, trips, stops)
      PROVE  RouteHeld(req[r])' /\ ClearKept
  <2> DEFINE RowsOf(form) == [i \in DOMAIN Items(form) |->
                                [line |-> c, data |-> form[i].data]]
  <2>1. /\ req[r] = Idle /\ UNCHANGED req
        /\ route' = [route EXCEPT ![c] = "live"]
        /\ routeTrip' = Added(routeTrip, RowsOf(trips))
        /\ routeStop' = Added(routeStop, RowsOf(stops))
    BY <1>7 DEF CreateRoute
  <2>2. /\ \A k \in DOMAIN RowsOf(trips) : RowsOf(trips)[k].line = c
        /\ \A k \in DOMAIN RowsOf(stops) : RowsOf(stops)[k].line = c
    OBVIOUS
  <2> HIDE DEF RowsOf
  <2>3. LiveIn(route) \subseteq LiveIn(route)' /\ c \in LiveIn(route)'
    BY <1>0, <2>1 DEF LiveIn
  <2>4. ASSUME RoutesClear
        PROVE  RoutesClear'
    <3>1. /\ ClearOf(routeTrip, LiveIn(route)')
          /\ ClearOf(routeStop, LiveIn(route)')
      BY <2>3, <2>4, ClearGrows DEF RoutesClear
    <3> QED
      BY <2>1, <2>2, <2>3, <3>1, AddedClear DEF RoutesClear
  <2> QED
    BY <1>1, <2>1, <2>4 DEF ClearKept
<1>8. ASSUME NEW c \in RouteCodes, NEW trips \in TripForms,
             NEW stops \in StopForms, SaveTripsAndStops(r, c, trips, stops)
      PROVE  RouteHeld(req[r])' /\ ClearKept
  <2>1. PICK q : /\ q = [op |-> "saveRoute", route |-> c, trips |-> trips,
                         stops |-> stops]
                 /\ Continue(r, q) /\ UNCHANGED masterRows
                 /\ route[c] = "live"
    BY <1>8 DEF SaveTripsAndStops
  <2>2. RouteHeld(q)
    BY <1>0, <2>1 DEF RouteHeld, LiveIn
  <2> QED
    BY <1>4, <2>1, <2>2
<1>9. CASE WriteRoute(r)
  <2>1. PICK c : c = req[r].route /\ c \in LiveIn(route)
    BY <1>0, <1>9 DEF WriteRoute, RouteHeld
  <2>2. /\ UNCHANGED route
        /\ \/ UNCHANGED routeTrip
           \/ \E form, n : /\ n = Len(form)
                           /\ routeTrip' = Saved(routeTrip, c, form, n)
        /\ \/ UNCHANGED routeStop
           \/ \E form, n : /\ n = Len(form)
                           /\ routeStop' = Saved(routeStop, c, form, n)
    BY <1>9, <2>1 DEF WriteRoute, named
  <2>3. ClearKept
    BY <2>1, <2>2, SavedClear DEF ClearKept, RoutesClear, LiveIn
  <2> QED
    BY <1>2, <1>9, <2>3 DEF WriteRoute
<1>10. ASSUME NEW c \in RouteCodes, DeleteRoute(r, c)
       PROVE  RouteHeld(req[r])' /\ ClearKept
  <2>1. LiveIn(route)' = LiveIn(route) \ {c}
    BY <1>0, <1>10 DEF DeleteRoute, LiveIn
  <2>2. RoutesClear => /\ ClearOf(routeTrip', LiveIn(route) \ {c})
                       /\ ClearOf(routeStop', LiveIn(route) \ {c})
    BY <1>10, ClearedClear DEF DeleteRoute, RoutesClear
  <2>3. ClearKept
    BY <2>1, <2>2 DEF ClearKept, RoutesClear
  <2> QED
    BY <1>1, <1>10, <2>3 DEF DeleteRoute
<1>11. CASE SeedTransport(r)
  <2>1. PICK q : /\ q = [op |-> "seedTransport",
                         vehicles |-> SeedPlan.vehicles \ LiveIn(vehicle),
                         stops |-> SeedPlan.stops \ LiveIn(stop),
                         routes |-> DOMAIN SeedPlan.routes \ LiveIn(route),
                         legs |-> {leg \in Listed(DOMAIN SeedPlan.routes,
                                                  "stops") :
                                     ~Served(routeStop, leg)}]
                 /\ Continue(r, q) /\ UNCHANGED masterRows
    BY <1>11 DEF SeedTransport
  <2>2. RouteHeld(q)
    BY <2>1, ListedLegs DEF RouteHeld
  <2> QED
    BY <1>4, <2>1, <2>2
<1>12. CASE WriteTransportSeed(r)
  <2> DEFINE plan == SeedPlan.routes
             trips == Listed(req[r].routes, "trips")
             tripRows == [leg \in trips |->
                            [line |-> leg[1],
                             data |-> plan[leg[1]].trips[leg[2]]]]
             stopRows == [leg \in req[r].legs |->
                            [line |-> leg[1],
                             data |-> <<plan[leg[1]].stops[leg[2]], leg[2]>>]]
  <2>1. /\ route' = [c \in RouteCodes |->
                       IF c \in req[r].routes THEN "live" ELSE route[c]]
        /\ routeTrip' = Added(routeTrip, tripRows)
        /\ routeStop' = Added(routeStop, stopRows)
    BY <1>12 DEF WriteTransportSeed
  <2>2. /\ req[r].routes \subseteq DOMAIN plan
        /\ DOMAIN plan \ req[r].routes \subseteq LiveIn(route)
        /\ \A leg \in req[r].legs : leg[1] \in DOMAIN plan
    BY <1>0, <1>12 DEF WriteTransportSeed, RouteHeld
  <2>3. /\ LiveIn(route) \subseteq LiveIn(route)'
        /\ DOMAIN plan \subseteq LiveIn(route)'
    BY <1>0, <2>1, <2>2, SeedPlanAssumption DEF LiveIn
  <2>4. /\ \A k \in DOMAIN tripRows : tripRows[k].line \in LiveIn(route)'
        /\ \A k \in DOMAIN stopRows : stopRows[k].line \in LiveIn(route)'
    BY <2>2, <2>3, ListedLegs
  <2> HIDE DEF tripRows, stopRows
  <2>5. ASSUME RoutesClear
        PROVE  RoutesClear'
    <3>1. /\ ClearOf(routeTrip, LiveIn(route)')
          /\ ClearOf(routeStop, LiveIn(route)')
      BY <2>3, <2>5, ClearGrows DEF RoutesClear
    <3> QED
      BY <2>1, <2>4, <3>1, AddedClear DEF RoutesClear
  <2> QED
    BY <1>2, <1>12, <2>5 DEF WriteTransportSeed, ClearKept
<1>13. CASE CloneTransport(r)
  <2>1. PICK q : q.op = "cloneTransport" /\ Continue(r, q)
                 /\ UNCHANGED masterRows
    BY <1>13 DEF CloneTransport
  <2>2. RouteHeld(q)
    BY <2>1 DEF RouteHeld
  <2> QED
    BY <1>4, <2>1, <2>2
<1>14. CASE WriteClone(r)
  BY <1>2, <1>3, <1>14 DEF WriteClone, named
<1>15. CASE MasterAbandon(r)
  BY <1>2, <1>3, <1>15 DEF MasterAbandon, Abandon, masterRows, named
<1>16. \/ \E v \in VehicleNos : CreateVehicle(r, v) \/ DeleteVehicle(r, v)
       \/ \E s \in StopNames : CreateStop(r, s) \/ DeleteStop(r, s)
       \/ \E c \in RouteCodes, trips \in TripForms, stops \in StopForms :
            \/ CreateRoute(r, c, trips, stops)
            \/ SaveTripsAndStops(r, c, trips, stops)
       \/ \E c \in RouteCodes : DeleteRoute(r, c)
       \/ WriteRoute(r) \/ SeedTransport(r) \/ WriteTransportSeed(r)
       \/ CloneTransport(r) \/ WriteClone(r) \/ MasterAbandon(r)
  BY Zenon DEF MasterHandler
<1> QED
  BY <1>5, <1>6, <1>7, <1>8, <1>9, <1>10, <1>11, <1>12, <1>13, <1>14, <1>15,
     <1>16, Zenon

LEMMA RoutesHeldBy ==
  ASSUME RoutesTyped, NEW r \in Requests
  PROVE  RoutesStand(req[r]) => RouteHeld(req[r])
<1>1. req[r] \in RouteStates /\ req[r] \in MasterRequest
  BY DEF RoutesTyped, MasterTypeOK
<1>2. req[r].op = "saveRoute" => req[r].route \in RouteCodes
  BY <1>1 DEF MasterRequest, Idle
<1>3. req[r].op = "seedTransport" =>
        /\ req[r].routes \subseteq DOMAIN SeedPlan.routes
        /\ \A leg \in req[r].legs : leg[1] \in DOMAIN SeedPlan.routes
  BY <1>1, ListedLegs DEF RouteStates
<1>4. DOMAIN route = RouteCodes
  BY DEF RoutesTyped, MasterTypeOK
<1> QED
  BY <1>2, <1>3, <1>4 DEF RoutesStand, RouteHeld, LiveIn

LEMMA TablesShaped ==
  ASSUME RoutesTyped
  PROVE  RoutesClear <=> RoutesAreClear
<1>1. /\ \A x \in DOMAIN routeTrip :
           routeTrip[x] # Null => routeTrip[x] \in TripRow
      /\ \A x \in DOMAIN routeStop :
           routeStop[x] # Null => routeStop[x] \in StopRow
  BY DEF RoutesTyped, MasterTypeOK
<1>2. Shaped(routeTrip) /\ Shaped(routeStop)
  BY <1>1 DEF Shaped, TripRow, StopRow
<1> QED
  BY <1>2 DEF RoutesClear, ClearOf, RoutesAreClear

\* Whatever handlers do that are not overtaken, a trip or a stop that is shown
\* is of a route that is shown.
LEMMA RoutesByAnyHandler ==
  ASSUME RoutesTyped
  PROVE  RoutesStayClear
<1> SUFFICES ASSUME NEW r \in Requests, MasterHandler(r),
                    RoutesStand(req[r])
             PROVE  /\ RoutesStand(req[r])'
                    /\ RoutesAreClear => RoutesAreClear'
  BY DEF RoutesStayClear
<1>1. RouteHeld(req[r])' /\ ClearKept
  BY RoutesHeldBy, RoutesStep
<1>2. RoutesTyped'
  BY RoutesTypedStep DEF MasterNext
<1>3. RoutesStand(req[r])'
  BY <1>1 DEF RouteHeld, RoutesStand, LiveIn
<1>4. RoutesClear' => RoutesAreClear'
  BY DEF RoutesClear, ClearOf, RoutesAreClear
<1> QED
  BY <1>1, <1>3, <1>4, TablesShaped DEF ClearKept

-----------------------------------------------------------------------------
(***************************************************************************)
(* Posts and schedules: types, for handlers in any number.                 *)
(***************************************************************************)
LEMMA PostsGoOn ==
  ASSUME PostsTypeOK, NEW r \in Requests, NEW c \in {Idle} \cup PostReq,
         UNCHANGED req \/ Continue(r, c),
         gone' \in [posts : SUBSET Posts, staff : SUBSET Staff,
                    courses : SUBSET Courses],
         classSection' \in [Posts -> SectionRow],
         classTeacher' \in [Posts -> TeacherRow],
         teaches' \subseteq Staff \X Courses
  PROVE  PostsTypeOK'
BY SlotType DEF PostsTypeOK

LEMMA PostsTypes ==
  ASSUME PostsTypeOK, PostsNext
  PROVE  PostsTypeOK'
<1>0. /\ gone \in [posts : SUBSET Posts, staff : SUBSET Staff,
                   courses : SUBSET Courses]
      /\ classSection \in [Posts -> SectionRow]
      /\ classTeacher \in [Posts -> TeacherRow]
      /\ teaches \subseteq Staff \X Courses
      /\ Idle \in {Idle} \cup PostReq
  BY DEF PostsTypeOK
\* A request that starts, or is given up.
<1>1. ASSUME NEW r \in Requests, NEW c \in {Idle} \cup PostReq,
             Continue(r, c), UNCHANGED postRows
      PROVE  PostsTypeOK'
  BY <1>0, <1>1, PostsGoOn DEF postRows
<1>2. ASSUME NEW r \in Requests,
             \/ \E p \in Posts : ClosePost(r, p)
             \/ \E s \in Staff : DeleteTeacher(r, s)
             \/ \E c \in Courses : DeleteSubject(r, c)
      PROVE  PostsTypeOK'
  <2>1. /\ gone' \in [posts : SUBSET Posts, staff : SUBSET Staff,
                      courses : SUBSET Courses]
        /\ UNCHANGED <<classSection, classTeacher, teaches, req>>
    BY <1>0, <1>2 DEF ClosePost, DeleteTeacher, DeleteSubject
  <2> QED
    BY <1>0, <2>1, PostsGoOn
<1>3. ASSUME NEW r \in Requests, NEW p \in Posts, NEW t \in Titles,
             CreateClassSection(r, p, t)
      PROVE  PostsTypeOK'
  BY <1>1, <1>3 DEF CreateClassSection, PostReq
<1>4. ASSUME NEW r \in Requests, NEW p \in Posts, NEW s \in Staff,
             AssignClassTeacher(r, p, s) \/ UpdateClassTeacher(r, p, s)
      PROVE  PostsTypeOK'
  BY <1>1, <1>4 DEF AssignClassTeacher, UpdateClassTeacher, PostReq
<1>5. ASSUME NEW r \in Requests, NEW s \in Staff,
             NEW subjects \in SUBSET Courses,
             \/ AssignTeacherSubjects(r, s, subjects)
             \/ UpdateTeacher(r, s, subjects)
      PROVE  PostsTypeOK'
  BY <1>1, <1>5 DEF AssignTeacherSubjects, UpdateTeacher, PostReq
<1>6. ASSUME NEW r \in Requests, PostsAbandon(r)
      PROVE  PostsTypeOK'
  BY <1>0, <1>1, <1>6 DEF PostsAbandon, Abandon, Reply
\* A section that is named, or deleted.
<1>7. ASSUME NEW r \in Requests, NEW p \in Posts,
             \/ \E t \in Titles : UpdateClassSection(r, p, t)
             \/ DeleteClassSection(r, p)
      PROVE  PostsTypeOK'
  <2>1. /\ classSection' \in [Posts -> SectionRow]
        /\ UNCHANGED <<gone, classTeacher, teaches, req>>
    BY <1>0, <1>7 DEF UpdateClassSection, DeleteClassSection, LiveAt,
       SectionRow, NoRow
  <2> QED
    BY <1>0, <2>1, PostsGoOn
<1>8. ASSUME NEW r \in Requests, InsertClassSection(r)
      PROVE  PostsTypeOK'
  <2>1. classSection' \in [Posts -> SectionRow]
    BY <1>0, <1>8, PostsFields DEF InsertClassSection, SectionRow
  <2> QED
    BY <1>0, <1>8, <2>1, PostsGoOn DEF InsertClassSection, Reply
\* A teacher who is appointed, or whose appointment ends.
<1>9. ASSUME NEW r \in Requests, NEW p \in Posts, DeleteClassTeacher(r, p)
      PROVE  PostsTypeOK'
  <2>1. classTeacher' \in [Posts -> TeacherRow]
    BY <1>0, <1>9 DEF DeleteClassTeacher, LiveAt, TeacherRow, NoRow
  <2> QED
    BY <1>0, <1>9, <2>1, PostsGoOn DEF DeleteClassTeacher
<1>10. ASSUME NEW r \in Requests, InsertClassTeacher(r) \/ WriteClassTeacher(r)
       PROVE  PostsTypeOK'
  <2>1. req[r].post \in Posts /\ req[r].teacher \in Staff
    BY <1>10, PostsFields DEF InsertClassTeacher, WriteClassTeacher
  <2>2. classTeacher' \in [Posts -> TeacherRow]
    BY <1>0, <1>10, <2>1 DEF InsertClassTeacher, WriteClassTeacher, LiveAt,
       TeacherRow, NoRow
  <2> QED
    BY <1>0, <1>10, <2>2, PostsGoOn
       DEF InsertClassTeacher, WriteClassTeacher, Reply
\* Subjects that are linked, or no more.
<1>11. ASSUME NEW r \in Requests, NEW s \in Staff, NEW c \in Courses,
              RemoveTeacherSubject(r, s, c)
       PROVE  PostsTypeOK'
  <2>1. teaches' \subseteq Staff \X Courses
    BY <1>0, <1>11 DEF RemoveTeacherSubject
  <2> QED
    BY <1>0, <1>11, <2>1, PostsGoOn DEF RemoveTeacherSubject
<1>12. ASSUME NEW r \in Requests, ReplaceSubjects(r)
       PROVE  PostsTypeOK'
  <2>1. teaches' \subseteq Staff \X Courses
    BY <1>0, <1>12, PostsFields DEF ReplaceSubjects
  <2> QED
    BY <1>0, <1>12, <2>1, PostsGoOn DEF ReplaceSubjects, Reply
<1>13. ASSUME NEW r \in Requests, NEW c \in Courses, LinkSubject(r, c)
       PROVE  PostsTypeOK'
  <2>1. req[r].op = "link" /\ req[r].teacher \in Staff
        /\ req[r].todo \subseteq Courses
    BY <1>13, PostsFields DEF LinkSubject
  <2>2. /\ teaches' \subseteq Staff \X Courses
        /\ UNCHANGED <<gone, classSection, classTeacher>>
    BY <1>0, <1>13, <2>1 DEF LinkSubject
  <2>3. [req[r] EXCEPT !.todo = @ \ {c}] \in PostReq
    BY <2>1, PostsFields
  <2>4. \E state \in {Idle} \cup PostReq : Continue(r, state)
    BY <1>13, <2>3 DEF LinkSubject, Reply
  <2> QED
    BY <1>0, <2>2, <2>4, PostsGoOn
<1> QED
  BY <1>2, <1>3, <1>4, <1>5, <1>6, <1>7, <1>8, <1>9, <1>10, <1>11, <1>12,
     <1>13, Zenon DEF PostsNext, PostsHandler

LEMMA PostsTypesInit == PostsInit => PostsTypeOK
BY DEF PostsInit, HandlersInit, PostsTypeOK, Idle, SectionRow, TeacherRow

\* A schedule that is being written by its id has been made, and none is
\* ever unmade.
ScheduleStates ==
  {q \in {Idle} \cup ScheduleReq :
     q.op \in {"rename", "remove"} => schedule[q.id] # Unscheduled}

SchedulesTyped ==
  SchedulesTypeOK /\ req \in [Requests -> ScheduleStates]

LEMMA ScheduleFields ==
  ASSUME NEW q \in {Idle} \cup ScheduleReq
  PROVE  /\ q.op \in {"rename", "remove"} => q.id \in Schedules
         /\ q.op = "rename" => q.name \in Terms
         /\ q.op = "fill" => q.names \subseteq Terms
BY DEF ScheduleReq, Idle

LEMMA SchedulesGoOn ==
  ASSUME SchedulesTyped, NEW r \in Requests, NEW c \in ScheduleStates,
         UNCHANGED req \/ Continue(r, c), yearOpen' \in BOOLEAN,
         schedule' \in [Schedules -> {Unscheduled} \cup ScheduleRow],
         \A i \in Schedules :
           schedule[i] # Unscheduled => schedule'[i] # Unscheduled
  PROVE  SchedulesTyped'
<1>1. ScheduleStates \subseteq ScheduleStates'
  BY ScheduleFields DEF ScheduleStates
<1>2. /\ req' \in [Requests -> ScheduleStates]
      /\ \A q \in ScheduleStates : q \in {Idle} \cup ScheduleReq
  BY DEF SchedulesTyped, Continue, ScheduleStates
<1> QED
  BY <1>1, <1>2 DEF SchedulesTyped, SchedulesTypeOK

LEMMA ScheduleWritten ==
  ASSUME schedule \in [Schedules -> {Unscheduled} \cup ScheduleRow],
         NEW i \in Schedules, NEW row \in ScheduleRow,
         schedule' = [schedule EXCEPT ![i] = row]
  PROVE  /\ schedule' \in [Schedules -> {Unscheduled} \cup ScheduleRow]
         /\ \A j \in Schedules :
              schedule[j] # Unscheduled => schedule'[j] # Unscheduled
<1>1. row # Unscheduled
  BY DEF ScheduleRow, Unscheduled
<1> QED
  BY <1>1

LEMMA SchedulesTypes ==
  ASSUME SchedulesTyped, SchedulesNext
  PROVE  SchedulesTyped'
<1>0. /\ yearOpen \in BOOLEAN
      /\ schedule \in [Schedules -> {Unscheduled} \cup ScheduleRow]
      /\ \A r \in Requests : req[r] \in ScheduleStates
      /\ \A q \in ScheduleStates : q \in {Idle} \cup ScheduleReq
      /\ Idle \in ScheduleStates
  BY DEF SchedulesTyped, SchedulesTypeOK, ScheduleStates, Idle
<1>1. ASSUME NEW r \in Requests, NEW c \in ScheduleStates, Continue(r, c),
             UNCHANGED scheduleRows
      PROVE  SchedulesTyped'
  BY <1>0, <1>1, SchedulesGoOn DEF scheduleRows
<1>2. ASSUME NEW r \in Requests, DropYear(r)
      PROVE  SchedulesTyped'
  BY <1>0, <1>2, SchedulesGoOn DEF DropYear
<1>3. ASSUME NEW r \in Requests, NEW i \in Schedules, NEW name \in Terms,
             CreateExamSchedule(r, i, name)
      PROVE  SchedulesTyped'
  <2>1. [state |-> "live", name |-> name] \in ScheduleRow
    BY DEF ScheduleRow
  <2> QED
    BY <1>0, <1>3, <2>1, ScheduleWritten, SchedulesGoOn DEF CreateExamSchedule
<1>4. ASSUME NEW r \in Requests, NEW i \in Schedules,
             \/ \E name \in Terms : UpdateExamSchedule(r, i, name)
             \/ DeleteExamSchedule(r, i)
      PROVE  SchedulesTyped'
  <2>1. schedule[i] # Unscheduled /\ UNCHANGED scheduleRows
    <3>1. schedule[i].state = "live" /\ UNCHANGED scheduleRows
      BY <1>4 DEF UpdateExamSchedule, DeleteExamSchedule
    <3> QED
      BY <3>1 DEF Unscheduled
  <2>2. /\ \A name \in Terms :
             [op |-> "rename", id |-> i, name |-> name] \in ScheduleStates
        /\ [op |-> "remove", id |-> i] \in ScheduleStates
    BY <2>1 DEF ScheduleStates, ScheduleReq
  <2> QED
    BY <1>1, <1>4, <2>1, <2>2 DEF UpdateExamSchedule, DeleteExamSchedule
<1>5. ASSUME NEW r \in Requests, WriteSchedule(r) \/ RemoveSchedule(r)
      PROVE  SchedulesTyped'
  <2>1. PICK i \in Schedules : i = req[r].id /\ schedule[i] # Unscheduled
    BY <1>0, <1>5, ScheduleFields
       DEF WriteSchedule, RemoveSchedule, ScheduleStates
  <2>2. schedule[i] \in ScheduleRow /\ schedule[i].name \in Terms
    BY <1>0, <2>1 DEF ScheduleRow
  <2>3. PICK row \in ScheduleRow : schedule' = [schedule EXCEPT ![i] = row]
    <3>1. CASE WriteSchedule(r)
      <4>1. req[r].name \in Terms
        BY <1>0, <3>1, ScheduleFields DEF WriteSchedule
      <4>2. [schedule[i] EXCEPT !.name = req[r].name] \in ScheduleRow
        BY <2>2, <4>1 DEF ScheduleRow
      <4> QED
        BY <2>1, <3>1, <4>2 DEF WriteSchedule
    <3>2. CASE RemoveSchedule(r)
      <4>1. [schedule[i] EXCEPT !.state = "deleted"] \in ScheduleRow
        BY <2>2 DEF ScheduleRow
      <4> QED
        BY <2>1, <3>2, <4>1 DEF RemoveSchedule
    <3> QED
      BY <1>5, <3>1, <3>2
  <2>4. UNCHANGED yearOpen /\ Continue(r, Idle)
    BY <1>5 DEF WriteSchedule, RemoveSchedule, Reply
  <2> QED
    BY <1>0, <2>3, <2>4, ScheduleWritten, SchedulesGoOn
<1>6. ASSUME NEW r \in Requests, GenerateSchedules(r)
      PROVE  SchedulesTyped'
  <2>1. [op |-> "fill", names |-> MasterTerms \ NamesOf("live")]
          \in ScheduleStates
    BY MasterTermsAssumption DEF ScheduleStates, ScheduleReq
  <2> QED
    BY <1>1, <1>6, <2>1 DEF GenerateSchedules
<1>7. ASSUME NEW r \in Requests, InsertSchedules(r)
      PROVE  SchedulesTyped'
  <2>1. req[r].names \subseteq Terms
    BY <1>0, <1>7, ScheduleFields DEF InsertSchedules
  <2>2. PICK row \in [req[r].names -> Unused] :
          schedule' = [i \in Schedules |->
            IF \E n \in DOMAIN row : row[n] = i
            THEN [state |-> "live",
                  name |-> CHOOSE n \in DOMAIN row : row[n] = i]
            ELSE schedule[i]]
    BY <1>7 DEF InsertSchedules
  <2>3. \A i \in Schedules :
          /\ schedule'[i] \in {Unscheduled} \cup ScheduleRow
          /\ schedule[i] # Unscheduled => schedule'[i] # Unscheduled
    <3> SUFFICES ASSUME NEW i \in Schedules
                 PROVE  /\ schedule'[i] \in {Unscheduled} \cup ScheduleRow
                        /\ schedule[i] # Unscheduled =>
                             schedule'[i] # Unscheduled
      OBVIOUS
    <3>1. CASE \E n \in DOMAIN row : row[n] = i
      <4>1. PICK n \in DOMAIN row :
              schedule'[i] = [state |-> "live", name |-> n]
        BY <2>2, <3>1
      <4>2. schedule'[i] \in ScheduleRow
        BY <2>1, <2>2, <4>1 DEF ScheduleRow
      <4> QED
        BY <4>2 DEF ScheduleRow, Unscheduled
    <3>2. CASE ~ \E n \in DOMAIN row : row[n] = i
      BY <1>0, <2>2, <3>2
    <3> QED
      BY <3>1, <3>2
  <2>4. schedule' \in [Schedules -> {Unscheduled} \cup ScheduleRow]
    BY <2>2, <2>3
  <2> QED
    BY <1>0, <1>7, <2>3, <2>4, SchedulesGoOn DEF InsertSchedules, Reply
<1>8. ASSUME NEW r \in Requests, ScheduleAbandon(r)
      PROVE  SchedulesTyped'
  BY <1>0, <1>1, <1>8 DEF ScheduleAbandon, Abandon, Reply
<1> QED
  BY <1>2, <1>3, <1>4, <1>5, <1>6, <1>7, <1>8, Zenon DEF SchedulesNext, SchedulesHandler

LEMMA SchedulesTypesInit == SchedulesInit => SchedulesTyped
BY DEF SchedulesInit, HandlersInit, SchedulesTyped, SchedulesTypeOK,
   ScheduleStates, Idle

-----------------------------------------------------------------------------
(***************************************************************************)
(* Types of the office: whichever service a behaviour is about, its tables *)
(* and its handlers keep their types.                                      *)
(***************************************************************************)
DeskTypedInv ==
  /\ service = "transport" => TransportTyped
  /\ service = "attendance" => AttendanceTyped
  /\ service = "catalog" => CatalogTyped
  /\ service = "records" => RecordsInv
  /\ service = "timetable" => TimetableInv
  /\ service = "holidays" => HolidayTyped
  /\ service = "organisation" => OrgTyped
  /\ service = "accounts" => StaffTyped
  /\ service = "fees" => FeesTyped
  /\ service = "posts" => PostsTypeOK
  /\ service = "schedules" => SchedulesTyped
  /\ service = "routes" => RoutesTyped
  /\ service = "gateway" => IdempotencyTypeOK

LEMMA DeskTypedInit == DeskInit => DeskTypedInv
BY TransportTypedInit, AttendanceTypedInit, CatalogTypesInit, RecordsInitInv,
   HolidayTypedInit, OrgTypedInit, StaffTypedInit, FeesTypedInit,
   PostsTypesInit, SchedulesTypesInit, RoutesTypedInit, TypeInit,
   DeskInitInv, Zenon
DEF DeskInit, DeskTypedInv, DeskInv

\* Where nothing of a service changes it stays typed.
LEMMA TypesUntouched ==
  ASSUME UNCHANGED deskVars, DeskTypedInv
  PROVE  DeskTypedInv'
<1>1. /\ UNCHANGED transportVars /\ UNCHANGED attendanceVars
      /\ UNCHANGED catalogVars /\ UNCHANGED recordsVars
      /\ UNCHANGED timetableVars /\ UNCHANGED holidayVars
      /\ UNCHANGED orgVars /\ UNCHANGED staffVars
      /\ UNCHANGED feeCatalogVars /\ UNCHANGED postVars
      /\ UNCHANGED scheduleVars /\ UNCHANGED masterVars
      /\ UNCHANGED idempotencyVars /\ UNCHANGED service
  BY DEF deskVars, office, register, people_links, holidays, orgRows,
     transportVars, attendanceVars, catalogVars, recordsVars, timetableVars,
     holidayVars, orgVars, staffVars, feeCatalogVars, postVars, scheduleVars,
     masterVars, idempotencyVars
<1>2. TransportTyped => TransportTyped'
  BY <1>1 DEF transportVars, fleet, TransportTyped, TransportTypeOK, InOrder,
     Existing
<1>3. AttendanceTyped => AttendanceTyped'
  BY <1>1 DEF attendanceVars, sheets, AttendanceTyped, AttendanceTypeOK
<1>4. CatalogTyped => CatalogTyped'
  BY <1>1 DEF catalogVars, catalog, CatalogTyped, CatalogTypeOK, CatalogStates
<1>5. RecordsInv => RecordsInv'
  BY <1>1, RecordsInvStep
<1>6. TimetableInv => TimetableInv'
  BY <1>1 DEF timetableVars, timetables, TimetableInv, TimetableTypeOK,
     FoundExists, KeysUnique, Rows
<1>7. HolidayTyped => HolidayTyped'
  BY <1>1 DEF holidayVars, policies, HolidayTyped, HolidayTypeOK
<1>8. OrgTyped => OrgTyped'
  BY <1>1 DEF orgVars, departmentRows, roleRows, OrgTyped, OrgTypeOK
<1>9. StaffTyped => StaffTyped'
  BY <1>1 DEF staffVars, accounts, StaffTyped, StaffTypeOK, LooksUp, Hired
<1>10. FeesTyped => FeesTyped'
  BY <1>1 DEF feeCatalogVars, feeRows, FeesTyped, FeeCatalogTypeOK, FeeStates
<1>11. PostsTypeOK => PostsTypeOK'
  BY <1>1 DEF postVars, postRows, PostsTypeOK
<1>12. SchedulesTyped => SchedulesTyped'
  BY <1>1 DEF scheduleVars, scheduleRows, SchedulesTyped, SchedulesTypeOK,
     ScheduleStates
<1>13. RoutesTyped => RoutesTyped'
  BY <1>1 DEF masterVars, masterRows, named, nested, RoutesTyped, MasterTypeOK
<1>14. IdempotencyTypeOK => IdempotencyTypeOK'
  BY <1>1, TypeStep
<1>15. service' = service
  BY <1>1
<1> QED
  BY <1>2, <1>3, <1>4, <1>5, <1>6, <1>7, <1>8, <1>9, <1>10, <1>11, <1>12,
     <1>13, <1>14, <1>15 DEF DeskTypedInv

LEMMA DeskTypedStep ==
  ASSUME DeskTypedInv, DeskNext
  PROVE  DeskTypedInv'
<1>1. \/ service = "transport" /\ TransportNext
      \/ service = "attendance" /\ AttendanceNext
      \/ service = "catalog" /\ CatalogNext
      \/ service = "records" /\ RecordsNext
      \/ service = "timetable" /\ TimetableNext
      \/ service = "holidays" /\ HolidayNext
      \/ service = "organisation" /\ OrgNext
      \/ service = "accounts" /\ StaffNext
      \/ service = "fees" /\ FeeCatalogNext
      \/ service = "posts" /\ PostsNext
      \/ service = "schedules" /\ SchedulesNext
      \/ service = "routes" /\ MasterNext
      \/ service = "gateway" /\ IdempotencyNext
  BY DEF DeskNext, Only
<1>2. service' = service
  BY DEF DeskNext, Only
<1>3. CASE service = "transport" /\ TransportNext
  BY <1>2, <1>3, TransportTypedStep DEF DeskTypedInv
<1>4. CASE service = "attendance" /\ AttendanceNext
  BY <1>2, <1>4, AttendanceTypedStep DEF DeskTypedInv
<1>5. CASE service = "catalog" /\ CatalogNext
  BY <1>2, <1>5, CatalogTypes DEF DeskTypedInv
<1>6. CASE service = "records" /\ RecordsNext
  BY <1>2, <1>6, RecordsInvStep DEF DeskTypedInv
<1>7. CASE service = "timetable" /\ TimetableNext
  BY <1>2, <1>7, TimetableStep DEF DeskTypedInv
<1>8. CASE service = "holidays" /\ HolidayNext
  BY <1>2, <1>8, HolidayTypes DEF DeskTypedInv
<1>9. CASE service = "organisation" /\ OrgNext
  BY <1>2, <1>9, OrgTypedStep DEF DeskTypedInv
<1>10. CASE service = "accounts" /\ StaffNext
  BY <1>2, <1>10, StaffTypedStep DEF DeskTypedInv
<1>11. CASE service = "fees" /\ FeeCatalogNext
  BY <1>2, <1>11, FeesTypedStep DEF DeskTypedInv
<1>12. CASE service = "posts" /\ PostsNext
  BY <1>2, <1>12, PostsTypes DEF DeskTypedInv
<1>13. CASE service = "schedules" /\ SchedulesNext
  BY <1>2, <1>13, SchedulesTypes DEF DeskTypedInv
<1>14. CASE service = "routes" /\ MasterNext
  BY <1>2, <1>14, RoutesTypedStep DEF DeskTypedInv
<1>15. CASE service = "gateway" /\ IdempotencyNext
  BY <1>2, <1>15, TypeStep DEF DeskTypedInv
<1> QED
  BY <1>1, <1>3, <1>4, <1>5, <1>6, <1>7, <1>8, <1>9, <1>10, <1>11, <1>12,
     <1>13, <1>14, <1>15, Zenon

LEMMA DeskAlwaysTyped == DeskSpec => []DeskTypedInv
<1>1. DeskTypedInv /\ [DeskNext]_deskVars => DeskTypedInv'
  BY DeskTypedStep, TypesUntouched
<1> QED
  BY <1>1, DeskTypedInit, PTL DEF DeskSpec

\* For any number of rows of every table and of handlers that overlap in any
\* order, every service of the office and the gateway's memory of keys keep
\* their tables and the local variables of their handlers typed.
THEOREM DeskTyped == DeskSpec => []DeskTypeOK
<1>1. DeskTypedInv => DeskTypeOK
  BY Zenon DEF DeskTypedInv, DeskTypeOK, TransportTyped, AttendanceTyped,
     RecordsInv,
     TimetableInv, HolidayTyped, OrgTyped, StaffTyped, FeesTyped,
     SchedulesTyped, RoutesTyped, CatalogTyped
<1> QED
  BY <1>1, DeskAlwaysTyped, PTL

-----------------------------------------------------------------------------
(***************************************************************************)
(* The schedules: a generation that is not overtaken has the names that no *)
(* live schedule has, for a year that is there.                            *)
(***************************************************************************)
SchedulesInv(r) == r \in Requests /\ SchedulesTyped /\ MissingStands(req[r])

\* What SchedulesAreWhole asks of a step.
SchedulesWhole(r) ==
  InsertSchedules(r) =>
    /\ yearOpen
    /\ \A name \in MasterTerms : \E i \in Schedules :
         schedule'[i] = [state |-> "live", name |-> name]
    /\ \A i \in Schedules \ Unused : schedule'[i] = schedule[i]

LEMMA InvSchedulesWhole ==
  ASSUME NEW r, SchedulesInv(r)
  PROVE  SchedulesWhole(r)
<1> SUFFICES ASSUME InsertSchedules(r)
             PROVE  /\ yearOpen
                    /\ \A name \in MasterTerms : \E i \in Schedules :
                         schedule'[i] = [state |-> "live", name |-> name]
                    /\ \A i \in Schedules \ Unused : schedule'[i] = schedule[i]
  BY DEF SchedulesWhole
<1>0. schedule \in [Schedules -> {Unscheduled} \cup ScheduleRow]
  BY DEF SchedulesInv, SchedulesTyped, SchedulesTypeOK
<1>1. yearOpen /\ req[r].names = MasterTerms \ NamesOf("live")
  BY DEF SchedulesInv, MissingStands, InsertSchedules
<1> PICK names : names = req[r].names
  OBVIOUS
<1>2. PICK row \in [names -> Unused] :
        /\ \A n, m \in DOMAIN row : row[n] = row[m] => n = m
        /\ schedule' = [i \in Schedules |->
             IF \E n \in DOMAIN row : row[n] = i
             THEN [state |-> "live",
                   name |-> CHOOSE n \in DOMAIN row : row[n] = i]
             ELSE schedule[i]]
  BY DEF InsertSchedules
<1>3. \A i \in Schedules \ Unused : schedule'[i] = schedule[i]
  BY <1>2
<1>4. ASSUME NEW name \in MasterTerms
      PROVE  \E i \in Schedules :
               schedule'[i] = [state |-> "live", name |-> name]
  <2>1. CASE name \in NamesOf("live")
    <3>1. PICK i \in Schedules :
            schedule[i].state = "live" /\ schedule[i].name = name
      BY <2>1 DEF NamesOf
    <3>2. i \notin Unused
      BY <3>1 DEF Unused, Unscheduled
    <3>3. schedule[i] \in ScheduleRow
      BY <1>0, <3>2 DEF Unused
    <3>4. schedule[i] = [state |-> "live", name |-> name]
      BY <3>1, <3>3 DEF ScheduleRow
    <3> QED
      BY <1>3, <3>2, <3>4
  <2>2. CASE name \in names
    <3>1. row[name] \in Schedules /\ name \in DOMAIN row
      BY <1>2, <2>2 DEF Unused
    <3>2. (CHOOSE n \in DOMAIN row : row[n] = row[name]) = name
      BY <1>2, <3>1
    <3> QED
      BY <1>2, <3>1, <3>2
  <2> QED
    BY <1>1, <2>1, <2>2
<1> QED
  BY <1>1, <1>3, <1>4

LEMMA SchedulesInvStep ==
  ASSUME NEW r \in Requests, SchedulesInv(r), SchedulesHandler(r)
  PROVE  SchedulesInv(r)'
<1>1. SchedulesTyped'
  BY SchedulesTypes DEF SchedulesInv, SchedulesNext
<1>2. MissingStands(req[r])'
  <2>1. CASE GenerateSchedules(r)
    <3>1. PICK c : /\ c = [op |-> "fill",
                           names |-> MasterTerms \ NamesOf("live")]
                   /\ Continue(r, c) /\ UNCHANGED scheduleRows /\ yearOpen
      BY <2>1 DEF GenerateSchedules
    <3>2. req'[r] = c
      BY <3>1 DEF SchedulesInv, SchedulesTyped, SchedulesTypeOK, Continue
    <3> QED
      BY <3>1, <3>2 DEF MissingStands, scheduleRows, NamesOf
  <2>2. CASE /\ req[r] = Idle /\ UNCHANGED req
    BY <2>2 DEF MissingStands, Idle
  <2>3. CASE \E c : Continue(r, c) /\ c.op # "fill"
    <3>1. PICK c : Continue(r, c) /\ c.op # "fill"
      BY <2>3
    <3>2. req'[r] = c
      BY <3>1 DEF SchedulesInv, SchedulesTyped, SchedulesTypeOK, Continue
    <3> QED
      BY <3>1, <3>2 DEF MissingStands
  <2>4. Reply(r) => \E c : Continue(r, c) /\ c.op # "fill"
    <3>1. Idle.op # "fill"
      BY DEF Idle
    <3> QED
      BY <3>1 DEF Reply
  <2>5. ASSUME NEW i \in Schedules, NEW name \in Terms,
               \/ CreateExamSchedule(r, i, name)
               \/ UpdateExamSchedule(r, i, name)
        PROVE  MissingStands(req[r])'
    <3>1. [op |-> "rename", id |-> i, name |-> name].op # "fill"
      OBVIOUS
    <3>2. CASE CreateExamSchedule(r, i, name)
      BY <2>2, <3>2 DEF CreateExamSchedule
    <3>3. CASE UpdateExamSchedule(r, i, name)
      BY <2>3, <3>1, <3>3 DEF UpdateExamSchedule
    <3> QED
      BY <2>5, <3>2, <3>3
  <2>6. ASSUME NEW i \in Schedules, DeleteExamSchedule(r, i)
        PROVE  MissingStands(req[r])'
    <3>1. [op |-> "remove", id |-> i].op # "fill"
      OBVIOUS
    <3> QED
      BY <2>3, <2>6, <3>1 DEF DeleteExamSchedule
  <2>7. CASE DropYear(r)
    BY <2>2, <2>7 DEF DropYear
  <2>8. CASE \/ WriteSchedule(r) \/ RemoveSchedule(r) \/ InsertSchedules(r)
             \/ ScheduleAbandon(r)
    BY <2>3, <2>4, <2>8 DEF WriteSchedule, RemoveSchedule, InsertSchedules,
       ScheduleAbandon, Abandon
  <2> QED
    BY <2>1, <2>5, <2>6, <2>7, <2>8, Zenon DEF SchedulesHandler
<1> QED
  BY <1>1, <1>2 DEF SchedulesInv

\* Whatever handlers do that are not overtaken, generations are whole.
LEMMA SchedulesByAnyHandler ==
  ASSUME SchedulesTyped
  PROVE  SchedulesAreWhole
<1> SUFFICES ASSUME NEW r \in Requests, SchedulesHandler(r),
                    MissingStands(req[r])
             PROVE  MissingStands(req[r])' /\ SchedulesWhole(r)
  BY DEF SchedulesAreWhole, SchedulesWhole
<1>1. SchedulesInv(r)
  BY DEF SchedulesInv
<1>2. SchedulesInv(r)' /\ SchedulesWhole(r)
  BY <1>1, InvSchedulesWhole, SchedulesInvStep
<1> QED
  BY <1>2 DEF SchedulesInv

-----------------------------------------------------------------------------
(***************************************************************************)
(* The copy of the fees: what one that is not overtaken has copied is in   *)
(* place, and what is live is what it saw at the start and what it made.   *)
(***************************************************************************)
FeesInv(r) == r \in Requests /\ FeesTyped /\ CopyStands(req[r])

\* What CopiesAreWhole asks of a step.
NeverRepeats(r) == req[r].op = "copyFees" => NothingIsRepeated

\* The items of the master, each with a parent before it.
LEMMA MasterItems ==
  ASSUME NEW q \in CopyReq
  PROVE  /\ q.copied \in Seq(Categories)
         /\ q.master.items \in Seq([name : Labels, parent : Nat])
         /\ DOMAIN q.master.items = 1 .. Len(q.master.items)
         /\ DOMAIN q.copied = 1 .. Len(q.copied)
         /\ Len(q.copied) \in Nat /\ Len(q.master.items) \in Nat
         /\ q.master.fees \subseteq DOMAIN q.master.items
         /\ \A i \in 1 .. Len(q.master.items) :
              /\ q.master.items[i] \in [name : Labels, parent : Nat]
              /\ q.master.items[i].parent \in 0 .. i - 1
              /\ \A j \in 1 .. Len(q.master.items) :
                   i # j => q.master.items[i] # q.master.items[j]
<1>1. /\ q.copied \in Seq(Categories)
      /\ q.master.items \in Seq([name : Labels, parent : Nat])
      /\ q.master.fees \subseteq DOMAIN q.master.items
      /\ \A i \in DOMAIN q.master.items :
           /\ q.master.items[i].parent \in 0 .. i - 1
           /\ \A j \in DOMAIN q.master.items \ {i} :
                q.master.items[i] # q.master.items[j]
  BY CataloguesAssumption DEF CopyReq, Catalogue
<1>2. /\ DOMAIN q.master.items = 1 .. Len(q.master.items)
      /\ DOMAIN q.copied = 1 .. Len(q.copied)
      /\ Len(q.copied) \in Nat /\ Len(q.master.items) \in Nat
  BY <1>1
<1>3. \A i \in 1 .. Len(q.master.items) :
        q.master.items[i] \in [name : Labels, parent : Nat]
  BY <1>1, PlaceOfSeq
<1> QED
  BY <1>1, <1>2, <1>3

\* No earlier item has the name and the local parent of the next one.
LEMMA NoSecond ==
  ASSUME NEW q \in CopyReq, CopyStands(q),
         Len(q.copied) < Len(q.master.items), NEW j \in DOMAIN q.copied
  PROVE  <<category[q.copied[j]].parent, category[q.copied[j]].name>> #
           <<LocalParent(q), Item(q).name>>
<1> DEFINE i == Len(q.copied) + 1
           items == q.master.items
<1>0. q.op = "copyFees"
  BY DEF CopyReq
<1>1. /\ i \in 1 .. Len(items) /\ j \in 1 .. Len(items) /\ i # j
      /\ DOMAIN q.copied = 1 .. i - 1 /\ j \in 1 .. i - 1 /\ i \in Nat
      /\ \A k \in DOMAIN q.copied : q.copied[k] \in Categories
  BY MasterItems
<1>2. /\ items[i] \in [name : Labels, parent : Nat]
      /\ items[j] \in [name : Labels, parent : Nat]
      /\ items[i] # items[j]
      /\ items[i].parent \in 0 .. i - 1 /\ items[j].parent \in 0 .. j - 1
  BY <1>1, MasterItems
<1>3. /\ Item(q) = items[i]
      /\ LocalParent(q) = IF items[i].parent = 0 THEN Null
                          ELSE q.copied[items[i].parent]
  BY DEF Item, LocalParent
<1>4. /\ category[q.copied[j]].name = items[j].name
      /\ category[q.copied[j]].parent =
           IF items[j].parent = 0 THEN Null ELSE q.copied[items[j].parent]
  BY <1>0 DEF CopyStands, ParentOf
<1> HIDE DEF items, i
<1>5. SUFFICES ASSUME items[i].name = items[j].name,
                      LocalParent(q) = category[q.copied[j]].parent
               PROVE  FALSE
  BY <1>3, <1>4
<1>6. items[i].parent # items[j].parent
  BY <1>2, <1>5
<1>7. /\ items[i].parent # 0 => items[i].parent \in DOMAIN q.copied
      /\ items[j].parent # 0 => items[j].parent \in DOMAIN q.copied
  BY <1>1, <1>2
<1>8. \A k, l \in DOMAIN q.copied : k # l => q.copied[k] # q.copied[l]
  BY <1>0 DEF CopyStands
<1>9. \A k \in DOMAIN q.copied : q.copied[k] # Null
  BY <1>1, NoCategoryAssumption
<1> QED
  BY <1>3, <1>4, <1>5, <1>6, <1>7, <1>8, <1>9

\* The next item has got its category, found or made.
LEMMA NextInPlace ==
  ASSUME NEW q \in CopyReq, CopyStands(q),
         Len(q.copied) < Len(q.master.items), NEW k \in Categories,
         NEW c, c = [q EXCEPT !.copied = Append(@, k)],
         \A j \in DOMAIN q.copied : q.copied[j] # k,
         k \in LiveCategories',
         category'[k].name = Item(q).name,
         category'[k].parent = LocalParent(q),
         \A j \in LiveCategories :
           j \in LiveCategories' /\ category'[j] = category[j],
         LiveCategories' \subseteq LiveCategories \cup {k},
         UNCHANGED fee
  PROVE  CopyStands(c)'
<1> DEFINE n == Len(q.copied) + 1
<1>1. /\ q.op = "copyFees"
      /\ c.op = "copyFees" /\ c.copied = Append(q.copied, k)
      /\ c.seen = q.seen /\ c.fees = q.fees /\ c.master = q.master
  <2>1. Append(q.copied, k) \in Seq(Categories)
    BY MasterItems
  <2> QED
    BY <2>1, CopyFields DEF CopyReq
<1>2. /\ n \in 1 .. Len(q.master.items)
      /\ DOMAIN q.copied = 1 .. n - 1 /\ DOMAIN c.copied = 1 .. n
      /\ Len(c.copied) = n /\ n \in Nat
      /\ c.copied[n] = k
      /\ \A j \in 1 .. n - 1 : c.copied[j] = q.copied[j]
  BY <1>1, MasterItems
<1>3. /\ Item(q) = q.master.items[n]
      /\ \A i \in 1 .. n : q.master.items[i].parent \in 0 .. i - 1
  <2>1. \A i \in 1 .. n : i \in 1 .. Len(q.master.items)
    BY <1>2, MasterItems
  <2>2. Item(q) = q.master.items[n]
    BY DEF Item
  <2> HIDE DEF n
  <2> QED
    BY <2>1, <2>2, MasterItems
<1>4. /\ LocalParent(q) = ParentOf(c, n)
      /\ \A i \in 1 .. n - 1 : ParentOf(q, i) = ParentOf(c, i)
  <2>1. \A i \in 1 .. n : q.master.items[i].parent # 0 =>
          /\ q.master.items[i].parent \in 1 .. n - 1
          /\ c.copied[q.master.items[i].parent] =
               q.copied[q.master.items[i].parent]
    BY <1>2, <1>3
  <2>2. n \in 1 .. n /\ \A i \in 1 .. n - 1 : i \in 1 .. n
    BY <1>2
  <2> HIDE DEF n
  <2> QED
    BY <1>1, <1>3, <2>1, <2>2 DEF LocalParent, ParentOf
<1> HIDE DEF n
<1>5. ASSUME NEW i \in DOMAIN c.copied
      PROVE  /\ c.copied[i] \in LiveCategories'
             /\ category'[c.copied[i]].name = c.master.items[i].name
             /\ category'[c.copied[i]].parent = ParentOf(c, i)
             /\ \A j \in DOMAIN c.copied \ {i} : c.copied[j] # c.copied[i]
  <2>1. CASE i = n
    <3>1. \A j \in DOMAIN c.copied \ {i} : c.copied[j] # k
      BY <1>2, <2>1
    <3> QED
      BY <1>1, <1>2, <1>3, <1>4, <2>1, <3>1
  <2>2. CASE i \in 1 .. n - 1
    <3>1. /\ q.copied[i] \in LiveCategories /\ c.copied[i] = q.copied[i]
          /\ category[q.copied[i]].name = q.master.items[i].name
          /\ category[q.copied[i]].parent = ParentOf(c, i)
          /\ \A j \in DOMAIN q.copied \ {i} : q.copied[j] # q.copied[i]
          /\ q.copied[i] # k
      BY <1>1, <1>2, <1>4, <2>2 DEF CopyStands
    <3>2. \A j \in DOMAIN c.copied \ {i} : c.copied[j] # c.copied[i]
      BY <1>2, <2>2, <3>1
    <3> QED
      BY <1>1, <3>1, <3>2
  <2> QED
    BY <1>2, <2>1, <2>2
<1>6. ASSUME NEW j \in Categories, WasLive(c, j)
      PROVE  j \in LiveCategories' /\ category'[j] = c.seen[j]
  <2>1. j \in LiveCategories /\ category[j] = c.seen[j]
    BY <1>1, <1>6 DEF CopyStands, WasLive
  <2> QED
    BY <2>1
<1>7. ASSUME NEW j \in LiveCategories'
      PROVE  WasLive(c, j) \/ \E i \in DOMAIN c.copied : c.copied[i] = j
  <2>1. CASE j = k
    BY <1>2, <2>1
  <2>2. CASE j \in LiveCategories
    <3>1. WasLive(q, j) \/ \E i \in DOMAIN q.copied : q.copied[i] = j
      BY <1>1, <2>2 DEF CopyStands
    <3>2. \A i \in DOMAIN q.copied :
            i \in DOMAIN c.copied /\ c.copied[i] = q.copied[i]
      BY <1>2
    <3> QED
      BY <1>1, <3>1, <3>2 DEF WasLive
  <2> QED
    BY <2>1, <2>2
<1>8. ASSUME NEW i \in c.master.fees \ c.fees
      PROVE  i \in DOMAIN c.copied /\ fee'[c.copied[i]] = "live"
  <2>1. i \in DOMAIN q.copied /\ fee[q.copied[i]] = "live"
    BY <1>1, <1>8 DEF CopyStands
  <2> QED
    BY <1>2, <2>1
<1>9. Len(c.copied) <= Len(c.master.items)
  BY <1>1, <1>2, MasterItems
<1> QED
  BY <1>5, <1>6, <1>7, <1>8, <1>9 DEF CopyStands, WasLive, ParentOf

\* A copy goes on, or there is none after the step.
LEMMA InPlaceSteps ==
  ASSUME NEW r \in Requests, FeesTyped
  PROVE  /\ (req[r] = Idle /\ UNCHANGED req) => CopyStands(req[r])'
         /\ \A c : Continue(r, c) /\ (c.op = "copyFees" => CopyStands(c)') =>
                     CopyStands(req[r])'
         /\ Reply(r) => CopyStands(req[r])'
<1>1. ASSUME NEW c, Continue(r, c), c.op = "copyFees" => CopyStands(c)'
      PROVE  CopyStands(req[r])'
  <2>1. req' = [req EXCEPT ![r] = c] /\ req'[r] = c
    BY <1>1 DEF Continue, FeesTyped
  <2>2. c.op # "copyFees" => CopyStands(c)'
    BY DEF CopyStands
  <2> QED
    BY <1>1, <2>1, <2>2 DEF CopyStands, WasLive, ParentOf
<1>2. Idle.op # "copyFees"
  BY DEF Idle
<1>3. Reply(r) => CopyStands(req[r])'
  BY <1>1, <1>2 DEF Reply
<1>4. ASSUME req[r] = Idle, UNCHANGED req
      PROVE  CopyStands(req[r])'
  BY <1>2, <1>4 DEF CopyStands
<1> QED
  BY <1>1, <1>3, <1>4

LEMMA SkipInPlace ==
  ASSUME NEW r \in Requests, FeesInv(r), SkipCategory(r)
  PROVE  CopyStands(req[r])'
<1> PICK q : q = req[r]
  OBVIOUS
<1>1. /\ q \in CopyReq /\ CopyStands(q) /\ q.op = "copyFees"
      /\ Len(q.copied) < Len(q.master.items) /\ UNCHANGED feeRows
  BY FeeFields DEF FeesInv, FeesTyped, FeeStates, SkipCategory, Copying
<1>2. PICK k \in Found(q) : Continue(r, [q EXCEPT !.copied = Append(@, k)])
  BY DEF SkipCategory
<1>3. PICK c : c = [q EXCEPT !.copied = Append(@, k)]
  OBVIOUS
<1>4. /\ k \in LiveCategories /\ category[k].name = Item(q).name
      /\ category[k].parent = LocalParent(q) /\ k \in Categories
  BY <1>1 DEF Found, CopyStands, WasLive
<1>5. \A j \in DOMAIN q.copied : q.copied[j] # k
  BY <1>1, <1>4, NoSecond
<1>6. LiveCategories' = LiveCategories /\ UNCHANGED category /\ UNCHANGED fee
  BY <1>1 DEF feeRows, LiveCategories, Made
<1>7. CopyStands(c)'
  BY <1>1, <1>3, <1>4, <1>5, <1>6, NextInPlace
<1> QED
  BY <1>2, <1>3, <1>7, InPlaceSteps DEF FeesInv

LEMMA CopyInPlace ==
  ASSUME NEW r \in Requests, FeesInv(r),
         NEW k \in Categories, CopyCategory(r, k)
  PROVE  CopyStands(req[r])' /\ NeverRepeats(r)
<1> PICK q : q = req[r]
  OBVIOUS
<1> PICK c : c = [q EXCEPT !.copied = Append(@, k)]
  OBVIOUS
<1>1. /\ q \in CopyReq /\ CopyStands(q) /\ q.op = "copyFees"
      /\ Len(q.copied) < Len(q.master.items) /\ UNCHANGED fee
      /\ category \in [Categories -> CategoryRow \cup {Null}]
  BY FeeFields DEF FeesInv, FeesTyped, FeeCatalogTypeOK, FeeStates,
     CopyCategory, Copying
<1>2. /\ Found(q) = {} /\ Continue(r, c)
      /\ NewCategory(k, LocalParent(q), Item(q).name)
  BY DEF CopyCategory
<1>3. PICK row : row = [name |-> Item(q).name, parent |-> LocalParent(q),
                        live |-> TRUE]
  OBVIOUS
<1>4. /\ category[k] = Null /\ category' = [category EXCEPT ![k] = row]
      /\ row \in CategoryRow /\ row.live
      /\ row.name = Item(q).name /\ row.parent = LocalParent(q)
  <2>1. Item(q).name \in Labels /\ LocalParent(q) \in Categories \cup {Null}
    BY <1>1, CopyingFacts
  <2> QED
    BY <1>2, <1>3, <2>1 DEF NewCategory, Made, CategoryRow
<1>5. /\ k \in LiveCategories' /\ category'[k] = row /\ k \notin LiveCategories
      /\ \A j \in LiveCategories :
           j \in LiveCategories' /\ category'[j] = category[j]
      /\ LiveCategories' \subseteq LiveCategories \cup {k}
      /\ Made' \subseteq Made \cup {k}
  BY <1>1, <1>4, NoCategoryAssumption DEF LiveCategories, Made
<1>6. \A j \in DOMAIN q.copied : q.copied[j] # k
  BY <1>1, <1>5 DEF CopyStands
<1>7. CopyStands(c)'
  BY <1>1, <1>4, <1>5, <1>6, NextInPlace
<1>8. ASSUME NEW j \in LiveCategories
      PROVE  <<category[j].parent, category[j].name>> #
               <<LocalParent(q), Item(q).name>>
  <2>1. CASE WasLive(q, j)
    <3>1. category[j] = q.seen[j] /\ j \in Categories
      BY <1>1, <2>1 DEF CopyStands, LiveCategories, Made
    <3> QED
      BY <1>2, <2>1, <3>1 DEF Found, WasLive
  <2>2. ASSUME NEW i \in DOMAIN q.copied, q.copied[i] = j
        PROVE  <<category[j].parent, category[j].name>> #
                 <<LocalParent(q), Item(q).name>>
    BY <1>1, <2>2, NoSecond
  <2> QED
    BY <1>1, <2>1, <2>2 DEF CopyStands
<1>9. NeverRepeats(r)
  BY <1>4, <1>5, <1>8 DEF NeverRepeats, NothingIsRepeated
<1> QED
  BY <1>2, <1>7, <1>9, InPlaceSteps DEF FeesInv

LEMMA StructureInPlace ==
  ASSUME NEW r \in Requests, FeesInv(r), CopyStructure(r)
  PROVE  CopyStands(req[r])'
<1> PICK q : q = req[r]
  OBVIOUS
<1>1. /\ q \in CopyReq /\ CopyStands(q) /\ q.op = "copyFees"
      /\ ~(Len(q.copied) < Len(q.master.items)) /\ UNCHANGED category
      /\ fee \in [Categories -> Presence]
      /\ q.fees \subseteq q.master.fees
  BY FeeFields DEF FeesInv, FeesTyped, FeeCatalogTypeOK, FeeStates,
     CopyStructure, Copying
<1>2. PICK i \in q.fees :
        /\ fee' = [fee EXCEPT ![q.copied[i]] = "live"]
        /\ Continue(r, [q EXCEPT !.fees = @ \ {i}])
  BY DEF CopyStructure
<1>3. PICK c : c = [q EXCEPT !.fees = @ \ {i}]
  OBVIOUS
<1>4. /\ c.op = "copyFees" /\ c.copied = q.copied
      /\ c.seen = q.seen /\ c.fees = q.fees \ {i} /\ c.master = q.master
  BY <1>1, <1>3 DEF CopyReq
<1>5. i \in DOMAIN q.copied /\ Len(q.copied) <= Len(q.master.items)
  BY <1>1, MasterItems DEF CopyStands
<1>6. q.copied[i] \in Categories /\ LiveCategories' = LiveCategories
  BY <1>1, <1>5 DEF CopyStands, LiveCategories, Made
<1>7. ASSUME NEW j \in c.master.fees \ c.fees
      PROVE  j \in DOMAIN c.copied /\ fee'[c.copied[j]] = "live"
  <2>1. CASE j = i
    BY <1>1, <1>2, <1>4, <1>5, <1>6, <2>1
  <2>2. CASE j # i
    <3>1. j \in q.master.fees \ q.fees
      BY <1>4, <1>7, <2>2
    <3>2. j \in DOMAIN q.copied /\ fee[q.copied[j]] = "live"
      BY <1>1, <3>1 DEF CopyStands
    <3> QED
      BY <1>1, <1>2, <1>4, <1>6, <3>2
  <2> QED
    BY <2>1, <2>2
<1>8. CopyStands(c)'
  BY <1>1, <1>4, <1>5, <1>6, <1>7 DEF CopyStands, ParentOf, WasLive
<1> QED
  BY <1>2, <1>3, <1>8, InPlaceSteps DEF FeesInv

LEMMA FeesInvStep ==
  ASSUME NEW r \in Requests, FeesInv(r), FeeCatalogHandler(r)
  PROVE  FeesInv(r)' /\ NeverRepeats(r)
<1>1. FeesTyped'
  BY FeesTypedStep DEF FeesInv, FeeCatalogNext
<1> SUFFICES CopyStands(req[r])' /\ NeverRepeats(r)
  BY <1>1 DEF FeesInv
<1>2. category \in [Categories -> CategoryRow \cup {Null}]
  BY DEF FeesInv, FeesTyped, FeeCatalogTypeOK
<1>3. Made' \subseteq Made => NeverRepeats(r)
  BY DEF NeverRepeats, NothingIsRepeated
<1>4. ASSUME NEW k \in Categories, NEW above \in Categories \cup {Null},
             NEW name \in Labels, CreateFeeCategory(r, k, above, name)
      PROVE  CopyStands(req[r])' /\ NeverRepeats(r)
  <2>1. req[r] = Idle /\ UNCHANGED req /\ Idle.op # "copyFees"
    BY <1>4 DEF CreateFeeCategory, Idle
  <2>2. NeverRepeats(r)
    BY <2>1 DEF NeverRepeats
  <2> QED
    BY <2>1, <2>2, InPlaceSteps DEF FeesInv
<1>5. ASSUME NEW k \in Categories, NEW name \in Labels,
             UpdateFeeCategory(r, k, name)
      PROVE  CopyStands(req[r])' /\ NeverRepeats(r)
  <2>1. /\ req[r] = Idle /\ UNCHANGED req
        /\ category' = [category EXCEPT ![k].name = name] /\ k \in Made
    BY <1>5 DEF UpdateFeeCategory, LiveCategories
  <2>2. Made' \subseteq Made
    BY <1>2, <2>1 DEF Made
  <2> QED
    BY <1>3, <2>1, <2>2, InPlaceSteps DEF FeesInv
<1>6. CASE SoftDeleteCategory(r)
  <2>1. PICK k \in Categories : k = req[r].id /\ category[k] # Null
    BY <1>6, FeeFields DEF FeesInv, FeesTyped, SoftDeleteCategory, FeeStates
  <2>2. category' = [category EXCEPT ![k].live = FALSE] /\ Reply(r)
    BY <1>6, <2>1 DEF SoftDeleteCategory
  <2>3. Made' \subseteq Made
    BY <1>2, <2>1, <2>2 DEF Made
  <2> QED
    BY <1>3, <2>2, <2>3, InPlaceSteps DEF FeesInv
\* Requests that start, and those that write a structure or nothing.
<1>7. ASSUME UNCHANGED category
      PROVE  NeverRepeats(r)
  BY <1>3, <1>7 DEF Made
<1>8. ASSUME NEW k \in Categories,
             \/ DeleteFeeCategory(r, k) \/ CreateStructure(r, k)
             \/ DeleteStructure(r, k)
      PROVE  CopyStands(req[r])' /\ NeverRepeats(r)
  <2>1. UNCHANGED category
    BY <1>8 DEF DeleteFeeCategory, CreateStructure, DeleteStructure, feeRows
  <2>2. \A op \in {"deleteCategory", "createFee"} :
          [op |-> op, id |-> k].op # "copyFees"
    OBVIOUS
  <2>3. CopyStands(req[r])'
    BY <1>8, <2>2, InPlaceSteps
    DEF FeesInv, DeleteFeeCategory, CreateStructure, DeleteStructure
  <2> QED
    BY <1>7, <2>1, <2>3
<1>9. ASSUME NEW from \in Categories, NEW to \in Categories,
             MoveStructure(r, from, to)
      PROVE  CopyStands(req[r])' /\ NeverRepeats(r)
  <2>1. PICK c : /\ c = [op |-> "moveFee", from |-> from, to |-> to]
                 /\ Continue(r, c) /\ UNCHANGED category
    BY <1>9 DEF MoveStructure, feeRows
  <2>2. c.op # "copyFees"
    BY <2>1
  <2> QED
    BY <1>7, <2>1, <2>2, InPlaceSteps DEF FeesInv
<1>10. CASE SeedStructures(r)
  <2>1. PICK c : /\ c = [op |-> "seedFees", todo |-> Leaves]
                 /\ Continue(r, c) /\ UNCHANGED category
    BY <1>10 DEF SeedStructures, feeRows
  <2>2. c.op # "copyFees"
    BY <2>1
  <2> QED
    BY <1>7, <2>1, <2>2, InPlaceSteps DEF FeesInv
<1>11. ASSUME NEW k \in Categories, SeedStructure(r, k)
       PROVE  CopyStands(req[r])' /\ NeverRepeats(r)
  <2>1. PICK c : /\ c = [req[r] EXCEPT !.todo = @ \ {k}]
                 /\ Continue(r, c) /\ UNCHANGED category
    BY <1>11 DEF SeedStructure
  <2>2. req[r] \in [op : {"seedFees"}, todo : SUBSET Categories]
    BY <1>11, FeeFields DEF FeesInv, FeesTyped, FeeStates, SeedStructure
  <2>3. c.op # "copyFees"
    BY <2>1, <2>2
  <2> QED
    BY <1>7, <2>1, <2>3, InPlaceSteps DEF FeesInv
<1>12. ASSUME NEW m \in Catalogues, GenerateFromMaster(r, m)
       PROVE  CopyStands(req[r])' /\ NeverRepeats(r)
  <2>1. PICK c : /\ c = [op |-> "copyFees", master |-> m, seen |-> category,
                         copied |-> <<>>, fees |-> m.fees]
                 /\ Continue(r, c) /\ UNCHANGED feeRows
    BY <1>12 DEF GenerateFromMaster
  <2>2. UNCHANGED category /\ LiveCategories' = LiveCategories
    BY <2>1 DEF feeRows, LiveCategories, Made
  <2>3. /\ c.seen = category /\ c.master = m /\ c.fees = m.fees
        /\ c.copied = <<>> /\ DOMAIN c.copied = {}
    BY <2>1
  <2>4. Len(c.copied) <= Len(c.master.items)
    <3>1. m.items \in Seq([name : Labels, parent : Nat])
      BY CataloguesAssumption DEF Catalogue
    <3> QED
      BY <2>3, <3>1
  <2>5. CopyStands(c)'
    BY <2>2, <2>3, <2>4 DEF CopyStands, WasLive, LiveCategories, Made
  <2> QED
    BY <1>7, <2>1, <2>2, <2>5, InPlaceSteps DEF FeesInv
<1>13. CASE SkipCategory(r)
  <2>1. UNCHANGED category
    BY <1>13 DEF SkipCategory, feeRows
  <2> QED
    BY <1>7, <1>13, <2>1, SkipInPlace
<1>14. CASE CopyStructure(r)
  <2>1. UNCHANGED category
    BY <1>14 DEF CopyStructure
  <2> QED
    BY <1>7, <1>14, <2>1, StructureInPlace
<1>15. CASE \/ InsertStructure(r) \/ WriteMove(r) \/ SeedStructuresDone(r)
            \/ GenerateDone(r) \/ FeeCatalogAbandon(r)
  <2>1. UNCHANGED category /\ Reply(r)
    BY <1>15 DEF InsertStructure, WriteMove, SeedStructuresDone, GenerateDone,
       FeeCatalogAbandon, Abandon, feeRows
  <2> QED
    BY <1>7, <2>1, InPlaceSteps DEF FeesInv
<1>16. \/ \E k \in Categories, above \in Categories \cup {Null},
             name \in Labels : CreateFeeCategory(r, k, above, name)
       \/ \E k \in Categories, name \in Labels : UpdateFeeCategory(r, k, name)
       \/ \E k \in Categories :
            \/ DeleteFeeCategory(r, k) \/ CreateStructure(r, k)
            \/ DeleteStructure(r, k)
       \/ \E k \in Categories : SeedStructure(r, k)
       \/ \E k \in Categories : CopyCategory(r, k)
       \/ \E from \in Categories, to \in Categories :
            MoveStructure(r, from, to)
       \/ \E m \in Catalogues : GenerateFromMaster(r, m)
       \/ SoftDeleteCategory(r) \/ SeedStructures(r)
       \/ SkipCategory(r) \/ CopyStructure(r)
       \/ InsertStructure(r) \/ WriteMove(r) \/ SeedStructuresDone(r)
       \/ GenerateDone(r) \/ FeeCatalogAbandon(r)
  BY Zenon DEF FeeCatalogHandler
<1> QED
  BY <1>4, <1>5, <1>6, <1>8, <1>9, <1>10, <1>11, <1>12, <1>13, <1>14, <1>15,
     <1>16, CopyInPlace, Zenon

LEMMA InvGeneratedWhole ==
  ASSUME NEW r, FeesInv(r), GenerateDone(r)
  PROVE  GeneratedIsWhole(req[r])
<1> PICK q : q = req[r]
  OBVIOUS
<1>1. /\ q \in CopyReq /\ CopyStands(q) /\ q.op = "copyFees" /\ q.fees = {}
      /\ ~(Len(q.copied) < Len(q.master.items))
  BY FeeFields
     DEF FeesInv, FeesTyped, FeeStates, GenerateDone, CopyIsComplete, Copying
<1>2. DOMAIN q.copied = DOMAIN q.master.items
  <2>1. Len(q.copied) <= Len(q.master.items)
    BY <1>1 DEF CopyStands
  <2> QED
    BY <1>1, <2>1, MasterItems
<1>3. q.master.fees \subseteq DOMAIN q.master.items
  BY <1>1, MasterItems
<1> QED
  BY <1>1, <1>2, <1>3 DEF CopyStands, GeneratedIsWhole

\* Whatever handlers do that are not overtaken, a copy repeats nothing and
\* ends with all of the master in place.
LEMMA CopiesByAnyHandler ==
  ASSUME FeesTyped
  PROVE  CopiesAreWhole
<1> SUFFICES ASSUME NEW r \in Requests, FeeCatalogHandler(r),
                    CopyStands(req[r])
             PROVE  /\ CopyStands(req[r])'
                    /\ GenerateDone(r) => GeneratedIsWhole(req[r])
                    /\ NeverRepeats(r)
  BY DEF CopiesAreWhole, NeverRepeats
<1>1. FeesInv(r)
  BY DEF FeesInv
<1> QED
  BY <1>1, FeesInvStep, InvGeneratedWhole DEF FeesInv

-----------------------------------------------------------------------------
(***************************************************************************)
(* Writes of routes that are whole,: every new row finds an id, a seed    *)
(* whose reads still hold knows all that is missing, and a clone whose     *)
(* reads still hold has read what is shown.                                *)
(***************************************************************************)
\* Where there is room there is a different id for each row.
LEMMA IdsExist ==
  ASSUME NEW S, NEW T, IsFiniteSet(S), IsFiniteSet(T),
         Cardinality(S) <= Cardinality(T)
  PROVE  \E f \in [S -> T] : \A j, k \in S : f[j] = f[k] => j = k
<1> DEFINE m == Cardinality(S)
           n == Cardinality(T)
<1>1. m \in Nat /\ n \in Nat /\ m <= n
  BY FS_CardinalityType
<1>2. PICK b \in [1 .. m -> S] : \A s \in S : \E i \in 1 .. m : b[i] = s
  BY FS_CardinalityType DEF ExistsBijection, Bijection, Surjection, Injection
<1>3. PICK d \in [1 .. n -> T] : \A i, j \in 1 .. n : d[i] = d[j] => i = j
  BY FS_CardinalityType
     DEF ExistsBijection, Bijection, Surjection, Injection, IsInjective
<1> DEFINE place == [s \in S |-> CHOOSE i \in 1 .. m : b[i] = s]
<1>4. \A s \in S : place[s] \in 1 .. m /\ b[place[s]] = s
  BY <1>2
<1> HIDE DEF place, m, n
<1>5. \A s \in S : place[s] \in 1 .. n
  BY <1>1, <1>4
<1>6. [s \in S |-> d[place[s]]] \in [S -> T]
  BY <1>3, <1>5
<1>7. \A j, k \in S : d[place[j]] = d[place[k]] => j = k
  BY <1>3, <1>4, <1>5
<1> QED
  BY <1>6, <1>7

\* So each of them is in the new table ...
LEMMA AddedAll ==
  ASSUME NEW table, NEW rows, IsFiniteSet(DOMAIN table),
         IsFiniteSet(DOMAIN rows), Room(table, Cardinality(DOMAIN rows))
  PROVE  \A k \in DOMAIN rows : \E x \in Unmade(table) :
           Added(table, rows)[x] =
             [line |-> rows[k].line, data |-> rows[k].data, live |-> TRUE]
<1> DEFINE id == CHOOSE f \in [DOMAIN rows -> Unmade(table)] :
                   \A j, k \in DOMAIN rows : f[j] = f[k] => j = k
           New(y) == \E k \in DOMAIN rows : id[k] = y
           K(y) == CHOOSE k \in DOMAIN rows : id[k] = y
<1>1. Added(table, rows) =
        [y \in DOMAIN table |->
           IF table[y] = Null /\ New(y)
           THEN [line |-> rows[K(y)].line, data |-> rows[K(y)].data,
                 live |-> TRUE]
           ELSE table[y]]
  BY DEF Added
<1>2. /\ id \in [DOMAIN rows -> Unmade(table)]
      /\ \A j, k \in DOMAIN rows : id[j] = id[k] => j = k
  <2>1. IsFiniteSet(Unmade(table))
    BY FS_Subset DEF Unmade
  <2>2. \E f \in [DOMAIN rows -> Unmade(table)] :
          \A j, k \in DOMAIN rows : f[j] = f[k] => j = k
    BY <2>1, IdsExist DEF Room
  <2> QED
    BY <2>2
<1> HIDE DEF id
<1>3. ASSUME NEW k \in DOMAIN rows
      PROVE  /\ id[k] \in Unmade(table) /\ id[k] \in DOMAIN table
             /\ table[id[k]] = Null /\ New(id[k]) /\ K(id[k]) = k
  BY <1>2 DEF Unmade
<1> HIDE DEF New, K
<1> QED
  BY <1>1, <1>3

\* ... and a route shows them with what it showed.
RowsFit(S, D, table, rows) ==
  /\ table \in [S -> {Null} \cup RowsWith(D)]
  /\ Null \notin RowsWith(D) /\ IsFiniteSet(S)
  /\ \A k \in DOMAIN rows : rows[k].line \in RouteCodes /\ rows[k].data \in D
  /\ IsFiniteSet(DOMAIN rows) /\ Room(table, Cardinality(DOMAIN rows))

Gains(before, after, rows, c) ==
  /\ Own(before, c) \subseteq Own(after, c)
  /\ \A x \in Own(before, c) : after[x] = before[x]
  /\ \A k \in DOMAIN rows :
       rows[k].line = c =>
         \E x \in Own(after, c) : after[x].data = rows[k].data
  /\ \A x \in Own(after, c) :
       \/ x \in Own(before, c)
       \/ \E k \in DOMAIN rows :
            rows[k].line = c /\ after[x].data = rows[k].data

LEMMA AddedShown ==
  ASSUME NEW S, NEW D, NEW table, NEW rows, RowsFit(S, D, table, rows), NEW c
  PROVE  Gains(table, Added(table, rows), rows, c)
<1> DEFINE after == Added(table, rows)
           row(k) == [line |-> rows[k].line, data |-> rows[k].data,
                      live |-> TRUE]
<1>0. /\ table \in [S -> {Null} \cup RowsWith(D)]
      /\ Null \notin RowsWith(D) /\ IsFiniteSet(S)
      /\ \A k \in DOMAIN rows :
           rows[k].line \in RouteCodes /\ rows[k].data \in D
      /\ IsFiniteSet(DOMAIN rows) /\ Room(table, Cardinality(DOMAIN rows))
  BY DEF RowsFit
<1>1. /\ DOMAIN after = S /\ DOMAIN table = S
      /\ \A x \in S : table[x] # Null => after[x] = table[x]
  BY <1>0, AddedKeeps
<1>2. ASSUME NEW x \in S
      PROVE  after[x] = table[x] \/ \E k \in DOMAIN rows : after[x] = row(k)
  <2>1. x \in DOMAIN table
    BY <1>1
  <2> QED
    BY <2>1, AddedRows
<1>3. \A k \in DOMAIN rows : \E x \in S : after[x] = row(k)
  BY <1>0, <1>1, AddedAll DEF Unmade
<1>4. \A k \in DOMAIN rows :
        /\ row(k) # Null /\ row(k).line = rows[k].line
        /\ row(k).data = rows[k].data /\ row(k).live
  <2>1. \A k \in DOMAIN rows : row(k) \in RowsWith(D)
    BY <1>0 DEF RowsWith
  <2> QED
    BY <1>0, <2>1
<1> HIDE DEF after, row
<1>5. \A x \in Own(table, c) : x \in Own(after, c) /\ after[x] = table[x]
  BY <1>1 DEF Own
<1>6. ASSUME NEW k \in DOMAIN rows, rows[k].line = c
      PROVE  \E x \in Own(after, c) : after[x].data = rows[k].data
  <2>1. PICK x \in S : after[x] = row(k)
    BY <1>3
  <2>2. x \in Own(after, c)
    BY <1>1, <1>4, <1>6, <2>1 DEF Own
  <2> QED
    BY <1>4, <2>1, <2>2
<1>7. ASSUME NEW x \in Own(after, c)
      PROVE  \/ x \in Own(table, c)
             \/ \E k \in DOMAIN rows :
                  rows[k].line = c /\ after[x].data = rows[k].data
  <2>1. x \in S /\ after[x] # Null /\ after[x].line = c /\ after[x].live
    BY <1>1 DEF Own
  <2>2. CASE after[x] = table[x]
    BY <1>1, <2>1, <2>2 DEF Own
  <2>3. ASSUME NEW k \in DOMAIN rows, after[x] = row(k)
        PROVE  rows[k].line = c /\ after[x].data = rows[k].data
    BY <1>4, <2>1, <2>3
  <2> QED
    BY <1>2, <2>1, <2>2, <2>3
<1> QED
  BY <1>5, <1>6, <1>7 DEF after, Gains

\* A route that is saved shows the form.
FormFits(S, D, table, form) ==
  /\ table \in [S -> {Null} \cup RowsWith(D)]
  /\ Null \notin RowsWith(D) \cup S /\ IsFiniteSet(S)
  /\ form \in Seq([id : S \cup {Null}, data : D])
  /\ \A i, j \in DOMAIN form :
       form[i].id = form[j].id => i = j \/ form[i].id = Null
  /\ Room(table, Len(form))

LEMMA SavedShows ==
  ASSUME NEW S, NEW D, NEW table, NEW form, FormFits(S, D, table, form),
         NEW c \in RouteCodes
  PROVE  Shows(table, Saved(table, c, form, Len(form)), c, form)
<1> DEFINE own == Own(table, c)
           n == Len(form)
           Sent(x, m) == {i \in 1 .. m : form[i].id = x}
           new == {i \in 1 .. n : form[i].id \notin own}
           edited == [x \in DOMAIN table |->
                        CASE x \in own /\ Sent(x, Len(form)) = {} ->
                               [table[x] EXCEPT !.live = FALSE]
                          [] x \in own /\ Sent(x, n) # {} ->
                               [table[x] EXCEPT !.data =
                                  form[CHOOSE i \in Sent(x, n) : TRUE].data]
                          [] OTHER -> table[x]]
           rows == [i \in new |-> [line |-> c, data |-> form[i].data]]
           after == Saved(table, c, form, n)
<1>0. /\ table \in [S -> {Null} \cup RowsWith(D)]
      /\ Null \notin RowsWith(D) \cup S /\ IsFiniteSet(S)
      /\ form \in Seq([id : S \cup {Null}, data : D])
      /\ \A i, j \in DOMAIN form :
           form[i].id = form[j].id => i = j \/ form[i].id = Null
      /\ Room(table, Len(form))
  BY DEF FormFits
<1>1. after = Added(edited, rows)
  BY DEF Saved
<1>2. /\ DOMAIN form = 1 .. n /\ n \in Nat /\ own \subseteq S
      /\ \A i \in 1 .. n : form[i].data \in D
  <2>1. \A i \in 1 .. n : form[i] \in [id : S \cup {Null}, data : D]
    BY <1>0, PlaceOfSeq
  <2> QED
    BY <1>0, <2>1 DEF Own
<1>3. \A x \in own : /\ table[x] \in RowsWith(D) /\ x \in S
                     /\ table[x].line = c /\ table[x].live
  BY <1>0 DEF Own
\* A row that is not in the form, one that is, and one of another route.
<1>4. ASSUME NEW x \in own, Sent(x, n) = {}
      PROVE  edited[x] \in RowsWith(D) /\ ~edited[x].live
  <2>1. edited[x] = [table[x] EXCEPT !.live = FALSE]
    BY <1>0, <1>3, <1>4
  <2> QED
    BY <1>0, <1>3, <2>1 DEF RowsWith
<1>5. ASSUME NEW i \in 1 .. n, form[i].id \in own
      PROVE  /\ edited[form[i].id] \in RowsWith(D)
             /\ edited[form[i].id].live /\ edited[form[i].id].line = c
             /\ edited[form[i].id].data = form[i].data
  <2> DEFINE x == form[i].id
  <2>1. i \in Sent(x, n) /\ x # Null /\ x \in S
    BY <1>0, <1>3, <1>5
  <2>2. \A j \in Sent(x, n) : j = i
    BY <1>0, <1>2, <2>1
  <2>3. (CHOOSE j \in Sent(x, n) : TRUE) = i
    BY <2>1, <2>2
  <2>4. edited[x] = [table[x] EXCEPT !.data = form[i].data]
    BY <1>0, <1>3, <1>5, <2>1, <2>3
  <2> HIDE DEF edited, x
  <2>5. x \in own
    BY <1>5 DEF x
  <2>6. edited[x] \in RowsWith(D) /\ edited[x].live /\ edited[x].line = c
        /\ edited[x].data = form[i].data
    BY <1>2, <1>3, <2>4, <2>5 DEF RowsWith
  <2> QED
    BY <2>6 DEF x
<1>6. \A x \in S \ own : edited[x] = table[x]
  BY <1>0
<1>7. \A x \in own : Sent(x, n) # {} => \E i \in 1 .. n : form[i].id = x
  OBVIOUS
<1>8. DOMAIN edited = S
  BY <1>0
<1>9. edited = [x \in S |-> edited[x]]
  BY <1>0
<1>10. /\ new \subseteq 1 .. n /\ DOMAIN rows = new
       /\ \A i \in 1 .. n : i \in new <=> form[i].id \notin own
       /\ \A i \in new : rows[i].line = c /\ rows[i].data = form[i].data
  OBVIOUS
<1>11. Own(table, c) = own
  OBVIOUS
<1> HIDE DEF edited, rows, new, Sent, own
<1>12. \A x \in S : edited[x] \in {Null} \cup RowsWith(D)
                    /\ (edited[x] = Null <=> table[x] = Null)
  BY <1>0, <1>3, <1>4, <1>5, <1>6, <1>7
<1>13. edited \in [S -> {Null} \cup RowsWith(D)]
  BY <1>9, <1>12
<1>14. \A x \in S : x \in Own(edited, c) <=>
                      \E i \in 1 .. n : form[i].id = x /\ x \in own
  <2>1. ASSUME NEW x \in S, x \in Own(edited, c)
        PROVE  \E i \in 1 .. n : form[i].id = x /\ x \in own
    <3>1. edited[x] # Null /\ edited[x].line = c /\ edited[x].live
      BY <2>1 DEF Own
    <3>2. x \in own
      BY <1>0, <1>6, <1>8, <1>11, <3>1 DEF Own
    <3> QED
      BY <1>4, <1>7, <3>1, <3>2
  <2>2. ASSUME NEW i \in 1 .. n, form[i].id \in own
        PROVE  form[i].id \in Own(edited, c)
    BY <1>0, <1>3, <1>5, <1>8, <2>2 DEF Own
  <2> QED
    BY <2>1, <2>2
<1>15. /\ IsFiniteSet(DOMAIN rows)
       /\ Room(edited, Cardinality(DOMAIN rows))
  <2>1. IsFiniteSet(1 .. n) /\ Cardinality(1 .. n) = n
    BY <1>2, FS_Interval
  <2>2. IsFiniteSet(new) /\ Cardinality(new) <= n /\ Cardinality(new) \in Nat
    BY <1>10, <2>1, FS_Subset, FS_CardinalityType
  <2>3. Unmade(edited) = Unmade(table)
    BY <1>0, <1>8, <1>12 DEF Unmade
  <2>4. IsFiniteSet(Unmade(table))
    BY <1>0, FS_Subset DEF Unmade
  <2>5. Cardinality(Unmade(table)) \in Nat
    BY <2>4, FS_CardinalityType
  <2> QED
    BY <1>0, <1>2, <1>10, <2>2, <2>3, <2>5 DEF Room
<1>16. \A k \in DOMAIN rows : rows[k].line \in RouteCodes /\ rows[k].data \in D
  BY <1>2, <1>10
<1>17. /\ Own(edited, c) \subseteq Own(after, c)
       /\ \A x \in Own(edited, c) : after[x] = edited[x]
       /\ \A k \in DOMAIN rows :
            rows[k].line = c =>
              \E x \in Own(after, c) : after[x].data = rows[k].data
       /\ \A x \in Own(after, c) :
            \/ x \in Own(edited, c)
            \/ \E k \in DOMAIN rows :
                 rows[k].line = c /\ after[x].data = rows[k].data
  <2>1. RowsFit(S, D, edited, rows)
    BY <1>0, <1>13, <1>15, <1>16 DEF RowsFit
  <2>2. Gains(edited, Added(edited, rows), rows, c)
    BY <2>1, AddedShown
  <2> QED
    BY <1>1, <2>2 DEF Gains
<1> HIDE DEF after, n
<1>18. ASSUME NEW i \in 1 .. n
       PROVE  \E x \in Own(after, c) : after[x].data = form[i].data
  <2>1. CASE form[i].id \in own
    <3>1. form[i].id \in Own(edited, c)
      BY <1>3, <1>14, <2>1
    <3> QED
      BY <1>5, <1>17, <2>1, <3>1
  <2>2. CASE form[i].id \notin own
    BY <1>10, <1>17, <2>2
  <2> QED
    BY <2>1, <2>2
<1>19. ASSUME NEW x \in Own(after, c)
       PROVE  \E i \in 1 .. n : after[x].data = form[i].data
  <2>1. CASE x \in Own(edited, c)
    <3>1. PICK i \in 1 .. n : form[i].id = x /\ x \in own
      BY <1>8, <1>14, <2>1 DEF Own
    <3> QED
      BY <1>5, <1>17, <2>1, <3>1
  <2>2. ASSUME NEW k \in DOMAIN rows, after[x].data = rows[k].data
        PROVE  \E i \in 1 .. n : after[x].data = form[i].data
    BY <1>10, <2>2
  <2> QED
    BY <1>17, <2>1, <2>2
<1>20. Shown(after, c) = {form[i].data : i \in DOMAIN form}
  <2>1. \A i \in 1 .. n : form[i].data \in {after[x].data : x \in Own(after, c)}
    BY <1>18
  <2>2. \A x \in Own(after, c) : after[x].data \in {form[i].data : i \in 1 .. n}
    BY <1>19
  <2> QED
    BY <1>2, <2>1, <2>2 DEF Shown
<1>21. ASSUME NEW i \in DOMAIN form, form[i].id \in Own(table, c)
       PROVE  form[i].id \in Own(after, c)
  BY <1>2, <1>3, <1>11, <1>14, <1>17, <1>21
<1> QED
  BY <1>20, <1>21 DEF after, n, Shows

\* The invariant of handler r.
RoutesInv(r) == r \in Requests /\ RoutesTyped /\ ReadStands(req[r])

\* What RouteWritesAreWhole asks of a save.
SavedWhole(r) ==
  /\ Shows(routeTrip, routeTrip', req[r].route, req[r].trips)
  /\ Shows(routeStop, routeStop', req[r].route, req[r].stops)

LEMMA SaveIsWhole ==
  ASSUME RoutesTyped, NEW r \in Requests, WriteRoute(r)
  PROVE  SavedWhole(r)
<1> PICK c, trips, stops :
      c = req[r].route /\ trips = req[r].trips /\ stops = req[r].stops
  OBVIOUS
<1>1. c \in RouteCodes /\ trips \in TripForms /\ stops \in StopForms
  BY MasterTablesTyped, MasterFields DEF WriteRoute
<1>2. /\ routeTrip' = IF trips = Null THEN routeTrip
                      ELSE Saved(routeTrip, c, trips, Len(trips))
      /\ routeStop' = IF stops = Null THEN routeStop
                      ELSE Saved(routeStop, c, stops, Len(stops))
      /\ Room(routeTrip, Len(Items(trips)))
      /\ Room(routeStop, Len(Items(stops)))
  BY DEF WriteRoute
<1>3. /\ IsFiniteSet(1 .. MaxTrips) /\ IsFiniteSet(1 .. MaxStops)
      /\ Null \notin RowsWith(TripData) \cup (1 .. MaxTrips)
      /\ Null \notin RowsWith(StopData) \cup (1 .. MaxStops)
  <2>1. 1 \in Int /\ MaxTrips \in Int /\ MaxStops \in Int
    BY BoundsAssumption
  <2>2. IsFiniteSet(1 .. MaxTrips) /\ IsFiniteSet(1 .. MaxStops)
    BY <2>1, FS_Interval
  <2> QED
    BY <2>2, FormsAssumption, MasterTablesTyped
<1>4. /\ trips # Null =>
           /\ trips \in Seq([id : (1 .. MaxTrips) \cup {Null}, data : TripData])
           /\ \A i, j \in DOMAIN trips :
                trips[i].id = trips[j].id => i = j \/ trips[i].id = Null
      /\ stops # Null =>
           /\ stops \in Seq([id : (1 .. MaxStops) \cup {Null}, data : StopData])
           /\ \A i, j \in DOMAIN stops :
                stops[i].id = stops[j].id => i = j \/ stops[i].id = Null
  <2>1. /\ trips # Null =>
             trips \in Seq([id : (1 .. MaxTrips) \cup {Null}, data : TripData])
        /\ stops # Null =>
             stops \in Seq([id : (1 .. MaxStops) \cup {Null}, data : StopData])
    BY <1>1, FormsAssumption
  <2>2. \A form \in (TripForms \cup StopForms) \ {Null} :
          \A i, j \in DOMAIN form :
            form[i].id = form[j].id => i = j \/ form[i].id = Null
    BY FormsAssumption
  <2>3. /\ trips # Null => trips \in (TripForms \cup StopForms) \ {Null}
        /\ stops # Null => stops \in (TripForms \cup StopForms) \ {Null}
    BY <1>1
  <2> QED
    BY <2>1, <2>2, <2>3
<1>5. /\ routeTrip \in [1 .. MaxTrips -> {Null} \cup RowsWith(TripData)]
      /\ routeStop \in [1 .. MaxStops -> {Null} \cup RowsWith(StopData)]
  BY MasterTablesTyped
<1>6. Shows(routeTrip, routeTrip', c, trips)
  <2>1. CASE trips = Null
    BY <2>1 DEF Shows
  <2>2. CASE trips # Null
    <3>1. Room(routeTrip, Len(trips))
      BY <1>2, <2>2 DEF Items
    <3>2. /\ trips \in Seq([id : (1 .. MaxTrips) \cup {Null}, data : TripData])
          /\ \A i, j \in DOMAIN trips :
               trips[i].id = trips[j].id => i = j \/ trips[i].id = Null
      BY <1>4, <2>2
    <3>3. FormFits(1 .. MaxTrips, TripData, routeTrip, trips)
      BY <1>3, <1>5, <3>1, <3>2 DEF FormFits
    <3>4. Shows(routeTrip, Saved(routeTrip, c, trips, Len(trips)), c, trips)
      BY <1>1, <3>3, SavedShows
    <3> QED
      BY <1>2, <2>2, <3>4
  <2> QED
    BY <2>1, <2>2
<1>7. Shows(routeStop, routeStop', c, stops)
  <2>1. CASE stops = Null
    BY <2>1 DEF Shows
  <2>2. CASE stops # Null
    <3>1. Room(routeStop, Len(stops))
      BY <1>2, <2>2 DEF Items
    <3>2. /\ stops \in Seq([id : (1 .. MaxStops) \cup {Null}, data : StopData])
          /\ \A i, j \in DOMAIN stops :
               stops[i].id = stops[j].id => i = j \/ stops[i].id = Null
      BY <1>4, <2>2
    <3>3. FormFits(1 .. MaxStops, StopData, routeStop, stops)
      BY <1>3, <1>5, <3>1, <3>2 DEF FormFits
    <3>4. Shows(routeStop, Saved(routeStop, c, stops, Len(stops)), c, stops)
      BY <1>1, <3>3, SavedShows
    <3> QED
      BY <1>2, <2>2, <3>4
  <2> QED
    BY <2>1, <2>2
<1> QED
  BY <1>6, <1>7 DEF SavedWhole

\* The stops of a plan are finitely many.
LEMMA LegsFinite == IsFiniteSet(Listed(DOMAIN SeedPlan.routes, "stops"))
<1> DEFINE codes == DOMAIN SeedPlan.routes
           legs(c) == {c} \X (DOMAIN SeedPlan.routes[c].stops)
           T == {legs(c) : c \in codes}
           f == [c \in codes |-> legs(c)]
<1>1. ASSUME NEW c \in codes
      PROVE  IsFiniteSet(legs(c))
  <2>1. PICK list \in Seq(SeedPlan.stops) : list = SeedPlan.routes[c].stops
    BY SeedPlanAssumption
  <2>2. DOMAIN list = 1 .. Len(list) /\ Len(list) \in Nat
    BY <2>1
  <2>3. IsFiniteSet(1 .. Len(list))
    BY <2>2, FS_Interval
  <2>4. IsFiniteSet(DOMAIN SeedPlan.routes[c].stops)
    BY <2>1, <2>2, <2>3
  <2>5. IsFiniteSet({c})
    BY FS_Singleton
  <2> QED
    BY <2>4, <2>5, FS_Product
<1> HIDE DEF legs
<1>2. f \in Surjection(codes, T)
  BY DEF Surjection
<1>3. IsFiniteSet(T)
  BY <1>2, FS_Surjection, SeedPlanAssumption
<1>4. \A t \in T : IsFiniteSet(t)
  BY <1>1
<1>5. IsFiniteSet(UNION T)
  BY <1>3, <1>4, FS_UNION
<1> QED
  BY <1>5 DEF Listed, legs

LEMMA SeedIsWhole ==
  ASSUME NEW r, RoutesInv(r), WriteTransportSeed(r)
  PROVE  SeededWhole
<1> PICK q : q = req[r]
  OBVIOUS
<1> DEFINE plan == SeedPlan.routes
           rows == [leg \in q.legs |->
                      [line |-> leg[1],
                       data |-> <<plan[leg[1]].stops[leg[2]], leg[2]>>]]
<1>1. /\ RoutesTyped /\ ReadStands(q) /\ q.op = "seedTransport"
      /\ q.legs \subseteq Listed(DOMAIN plan, "stops")
  BY MasterTablesTyped, MasterFields
  DEF RoutesInv, WriteTransportSeed
<1>2. /\ vehicle' = [v \in VehicleNos |->
                       IF v \in q.vehicles THEN "live" ELSE vehicle[v]]
      /\ stop' = [s \in StopNames |->
                    IF s \in q.stops THEN "live" ELSE stop[s]]
      /\ route' = [c \in RouteCodes |->
                     IF c \in q.routes THEN "live" ELSE route[c]]
      /\ routeStop' = Added(routeStop, rows)
      /\ Room(routeStop, Cardinality(q.legs))
  BY DEF WriteTransportSeed
<1>3. /\ SeedPlan.vehicles \subseteq VehicleNos
      /\ SeedPlan.stops \subseteq StopNames
      /\ DOMAIN plan \subseteq RouteCodes
  BY SeedPlanAssumption
<1>4. /\ SeedPlan.vehicles \subseteq LiveIn(vehicle')
      /\ SeedPlan.stops \subseteq LiveIn(stop')
      /\ \A c \in DOMAIN plan : route'[c] = "live"
  BY <1>1, <1>2, <1>3 DEF ReadStands, LiveIn
<1>5. /\ IsFiniteSet(DOMAIN rows) /\ Cardinality(DOMAIN rows) = Cardinality(q.legs)
      /\ Room(routeStop, Cardinality(DOMAIN rows))
  BY <1>1, <1>2, LegsFinite, FS_Subset
<1>6. \A k \in DOMAIN rows :
        rows[k].line \in RouteCodes /\ rows[k].data \in StopData
  BY <1>1, PlanRows DEF StopData
<1>7. \A leg \in q.legs : /\ leg \in DOMAIN rows /\ rows[leg].line = leg[1]
                          /\ rows[leg].data[1] = plan[leg[1]].stops[leg[2]]
  OBVIOUS
<1> HIDE DEF rows
<1>8. IsFiniteSet(1 .. MaxStops)
  <2>1. 1 \in Int /\ MaxStops \in Int
    BY BoundsAssumption
  <2> QED
    BY <2>1, FS_Interval
<1>9. /\ routeStop \in [1 .. MaxStops -> {Null} \cup RowsWith(StopData)]
      /\ Null \notin RowsWith(StopData)
  BY <1>1, MasterTablesTyped
<1>10. ASSUME NEW c
       PROVE  /\ Own(routeStop, c) \subseteq Own(routeStop', c)
              /\ \A x \in Own(routeStop, c) : routeStop'[x] = routeStop[x]
              /\ \A k \in DOMAIN rows :
                   rows[k].line = c =>
                     \E x \in Own(routeStop', c) :
                       routeStop'[x].data = rows[k].data
  <2>1. RowsFit(1 .. MaxStops, StopData, routeStop, rows)
    BY <1>5, <1>6, <1>8, <1>9 DEF RowsFit
  <2>2. Gains(routeStop, Added(routeStop, rows), rows, c)
    BY <2>1, AddedShown
  <2> QED
    BY <1>2, <2>2 DEF Gains
<1>11. ASSUME NEW c \in DOMAIN plan, NEW i \in DOMAIN plan[c].stops
       PROVE  Served(routeStop', <<c, i>>)
  <2> PICK leg : leg = <<c, i>>
    OBVIOUS
  <2>0. leg[1] = c /\ leg[2] = i
    OBVIOUS
  <2>1. leg \in Listed(DOMAIN plan, "stops")
    BY <2>0, ListedLegs
  <2>2. CASE leg \in q.legs
    <3>1. PICK x \in Own(routeStop', c) : routeStop'[x].data = rows[leg].data
      BY <1>7, <1>10, <2>0, <2>2
    <3> QED
      BY <1>7, <2>0, <2>2, <3>1 DEF Served
  <2>3. CASE leg \notin q.legs
    <3>1. Served(routeStop, leg)
      BY <1>1, <2>1, <2>3 DEF ReadStands
    <3> QED
      BY <1>10, <2>0, <3>1 DEF Served
  <2> QED
    BY <2>2, <2>3
<1> QED
  BY <1>4, <1>11 DEF SeededWhole

LEMMA CloneIsWhole ==
  ASSUME NEW r, RoutesInv(r), WriteClone(r)
  PROVE  ClonedWhole
<1> SUFFICES ASSUME NEW c \in LiveIn(route)
             PROVE  LET copy == schoolCopy'.routes[c]
                    IN IF schoolCopy.routes[c] # Null
                       THEN copy = schoolCopy.routes[c]
                       ELSE /\ {d[1] : d \in copy.stops} =
                                 {d[1] : d \in Shown(routeStop, c)}
                                   \cap LiveIn(stop)
                            /\ copy.trips \ {Null} =
                                 Shown(routeTrip, c) \cap LiveIn(vehicle)
                            /\ copy.trips \ {Null} \subseteq
                                 schoolCopy'.vehicles
                            /\ {d[1] : d \in copy.stops} \subseteq
                                 schoolCopy'.stops
  BY DEF ClonedWhole
<1> PICK seen : seen = req[r]
  OBVIOUS
<1>1. /\ RoutesTyped /\ ReadStands(seen) /\ seen.op = "cloneTransport"
  BY DEF RoutesInv, WriteClone
<1>2. /\ seen.vehicles = LiveIn(vehicle) /\ seen.stops = LiveIn(stop)
      /\ seen.routes[c].trips = Shown(routeTrip, c)
      /\ seen.routes[c].stops = Shown(routeStop, c)
      /\ seen.routes[c] = [trips |-> Shown(routeTrip, c),
                           stops |-> Shown(routeStop, c)]
  <2>1. /\ seen.vehicles = LiveIn(vehicle) /\ seen.stops = LiveIn(stop)
        /\ seen.routes[c] = [trips |-> Shown(routeTrip, c),
                             stops |-> Shown(routeStop, c)]
    BY <1>1, Zenon DEF ReadStands
  <2> QED
    BY <2>1
<1>3. seen.routes[c] # Null
  <2>1. Shown(routeTrip, c) \subseteq TripData /\ Shown(routeStop, c) \subseteq StopData
    BY <1>1, MasterTablesTyped, ShownTyped
  <2>2. seen.routes[c] \in RouteData
    BY <1>2, <2>1 DEF RouteData
  <2> QED
    BY <2>2, NoRouteAssumption
<1>4. c \in RouteCodes
  BY <1>1, MasterTablesTyped DEF LiveIn
<1>5. /\ schoolCopy'.routes[c] = IF schoolCopy.routes[c] = Null
                                 THEN Mapped(seen, c) ELSE schoolCopy.routes[c]
      /\ LiveIn(vehicle) \subseteq schoolCopy'.vehicles
      /\ LiveIn(stop) \subseteq schoolCopy'.stops
  <2>1. schoolCopy' =
          [vehicles |-> schoolCopy.vehicles \cup seen.vehicles,
           stops |-> schoolCopy.stops \cup seen.stops,
           routes |-> [d \in RouteCodes |->
                         IF /\ seen.routes[d] # Null
                            /\ schoolCopy.routes[d] = Null
                         THEN Mapped(seen, d) ELSE schoolCopy.routes[d]]]
    BY DEF WriteClone
  <2> QED
    BY <1>2, <1>3, <1>4, <2>1
<1>6. Null \notin LiveIn(vehicle)
  BY <1>1, MasterTablesTyped, NoTripAssumption DEF LiveIn
<1>7. Mapped(seen, c).trips \ {Null} = Shown(routeTrip, c) \cap LiveIn(vehicle)
  BY <1>2, <1>6 DEF Mapped
<1>8. {d[1] : d \in Mapped(seen, c).stops} =
        {d[1] : d \in Shown(routeStop, c)} \cap LiveIn(stop)
  BY <1>2 DEF Mapped
<1> QED
  BY <1>5, <1>7, <1>8

LEMMA RoutesInvStep ==
  ASSUME NEW r, RoutesInv(r), MasterHandler(r)
  PROVE  RoutesInv(r)'
<1>1. RoutesTyped'
  BY RoutesTypedStep DEF RoutesInv, MasterNext
<1> SUFFICES ReadStands(req[r])'
  BY <1>1 DEF RoutesInv
<1>2. /\ req \in [Requests -> RouteStates] /\ RoutesTyped
      /\ r \in Requests
  BY DEF RoutesInv, RoutesTyped
<1>3. ASSUME NEW c, Continue(r, c), ReadStands(c)'
      PROVE  ReadStands(req[r])'
  <2>1. req'[r] = c
    BY <1>2, <1>3 DEF Continue
  <2> QED
    BY <1>3, <2>1 DEF ReadStands
<1>4. ReadStands(Idle)'
  BY DEF ReadStands, Idle
<1>5. CASE Reply(r)
  BY <1>3, <1>4, <1>5 DEF Reply
<1>6. CASE req[r] = Idle /\ UNCHANGED req
  BY <1>4, <1>6 DEF ReadStands
<1>7. ASSUME NEW c \in RouteCodes, NEW trips \in TripForms,
             NEW stops \in StopForms, SaveTripsAndStops(r, c, trips, stops)
      PROVE  ReadStands(req[r])'
  <2>1. PICK q : /\ q = [op |-> "saveRoute", route |-> c, trips |-> trips,
                         stops |-> stops]
                 /\ Continue(r, q)
    BY <1>7 DEF SaveTripsAndStops
  <2>2. ReadStands(q)'
    BY <2>1 DEF ReadStands
  <2> QED
    BY <1>3, <2>1, <2>2
<1>8. CASE SeedTransport(r)
  <2>1. PICK q : /\ q = [op |-> "seedTransport",
                         vehicles |-> SeedPlan.vehicles \ LiveIn(vehicle),
                         stops |-> SeedPlan.stops \ LiveIn(stop),
                         routes |-> DOMAIN SeedPlan.routes \ LiveIn(route),
                         legs |-> {leg \in Listed(DOMAIN SeedPlan.routes,
                                                  "stops") :
                                     ~Served(routeStop, leg)}]
                 /\ Continue(r, q) /\ UNCHANGED masterRows
    BY <1>8 DEF SeedTransport
  <2>2. UNCHANGED <<vehicle, stop, route, routeStop>>
    BY <2>1 DEF masterRows, named, nested
  <2>3. ReadStands(q)
    BY <2>1 DEF ReadStands
  <2>4. ReadStands(q)'
    BY <2>1, <2>2, <2>3 DEF ReadStands, LiveIn, Served, Own
  <2> QED
    BY <1>3, <2>1, <2>4
<1>9. CASE CloneTransport(r)
  <2>1. PICK q : /\ q = [op |-> "cloneTransport",
                         vehicles |-> LiveIn(vehicle), stops |-> LiveIn(stop),
                         routes |-> [c \in RouteCodes |->
                                       IF route[c] # "live" THEN Null
                                       ELSE [trips |-> Shown(routeTrip, c),
                                             stops |-> Shown(routeStop, c)]]]
                 /\ Continue(r, q) /\ UNCHANGED masterRows
    BY <1>9 DEF CloneTransport
  <2>2. \A c \in LiveIn(route) : c \in RouteCodes /\ route[c] = "live"
    BY <1>2, MasterTablesTyped DEF LiveIn
  <2>3. UNCHANGED <<vehicle, stop, route, routeTrip, routeStop>>
    BY <2>1 DEF masterRows, named, nested
  <2>4. ReadStands(q)
    BY <2>1, <2>2 DEF ReadStands
  <2>5. ReadStands(q)'
    BY <2>1, <2>3, <2>4 DEF ReadStands, LiveIn, Shown, Own
  <2> QED
    BY <1>3, <2>1, <2>5
<1>10. ASSUME NEW c \in RouteCodes, NEW trips \in TripForms,
              NEW stops \in StopForms, CreateRoute(r, c, trips, stops)
       PROVE  ReadStands(req[r])'
  BY <1>6, <1>10 DEF CreateRoute
<1>11. ASSUME NEW c \in RouteCodes, DeleteRoute(r, c)
       PROVE  ReadStands(req[r])'
  BY <1>6, <1>11 DEF DeleteRoute
<1>12. ASSUME NEW v \in VehicleNos, CreateVehicle(r, v) \/ DeleteVehicle(r, v)
       PROVE  ReadStands(req[r])'
  BY <1>6, <1>12 DEF CreateVehicle, DeleteVehicle
<1>13. ASSUME NEW s \in StopNames, CreateStop(r, s) \/ DeleteStop(r, s)
       PROVE  ReadStands(req[r])'
  BY <1>6, <1>13 DEF CreateStop, DeleteStop
<1>14. CASE \/ WriteRoute(r) \/ WriteTransportSeed(r) \/ WriteClone(r)
            \/ MasterAbandon(r)
  BY <1>5, <1>14
  DEF WriteRoute, WriteTransportSeed, WriteClone, MasterAbandon, Abandon
<1>15. \/ \E v \in VehicleNos : CreateVehicle(r, v) \/ DeleteVehicle(r, v)
       \/ \E s \in StopNames : CreateStop(r, s) \/ DeleteStop(r, s)
       \/ \E c \in RouteCodes, trips \in TripForms, stops \in StopForms :
            CreateRoute(r, c, trips, stops)
       \/ \E c \in RouteCodes, trips \in TripForms, stops \in StopForms :
            SaveTripsAndStops(r, c, trips, stops)
       \/ \E c \in RouteCodes : DeleteRoute(r, c)
       \/ WriteRoute(r) \/ SeedTransport(r) \/ WriteTransportSeed(r)
       \/ CloneTransport(r) \/ WriteClone(r) \/ MasterAbandon(r)
  BY Zenon DEF MasterHandler
<1> QED
  BY <1>7, <1>8, <1>9, <1>10, <1>11, <1>12, <1>13, <1>14, <1>15, Zenon

LEMMA WritesByAnyHandler ==
  ASSUME RoutesTyped
  PROVE  RouteWritesAreWhole
<1>1. ASSUME NEW r \in Requests, MasterHandler(r), ReadStands(req[r])
      PROVE  /\ ReadStands(req[r])'
             /\ WriteTransportSeed(r) => SeededWhole
             /\ WriteClone(r) => ClonedWhole
  <2>1. RoutesInv(r)
    BY <1>1 DEF RoutesInv
  <2>2. RoutesInv(r)'
    BY <1>1, <2>1, RoutesInvStep
  <2>3. ReadStands(req[r])'
    BY <2>2 DEF RoutesInv
  <2> QED
    BY <2>1, <2>3, SeedIsWhole, CloneIsWhole
<1>2. ASSUME NEW r \in Requests, WriteRoute(r)
      PROVE  /\ Shows(routeTrip, routeTrip', req[r].route, req[r].trips)
             /\ Shows(routeStop, routeStop', req[r].route, req[r].stops)
  BY <1>2, SaveIsWhole DEF SavedWhole
<1> QED
  BY <1>1, <1>2, Zenon DEF RouteWritesAreWhole

-----------------------------------------------------------------------------
(***************************************************************************)
(* What the handlers of each service promise together, for any number of   *)
(* them and of rows: only a handler that was overtaken, between what it    *)
(* read and what it writes, breaks it, and it breaks it in that one step.  *)
(* Each follows from the lemma about any handler and the types.            *)
(***************************************************************************)
\* However many handlers overlap, a student and a parent are joined, and a
\* student is enrolled, on rows that are live, unless the handler that does it
\* was overtaken after it looked them up (student.service.ts).
THEOREM LinksFounded == DeskSpec => LinksStayFounded
<1> DEFINE StepKept == service = "records" => LinksAreFounded
<1>1. DeskTypedInv => StepKept
  BY FoundedByAnyHandler DEF DeskTypedInv
<1> HIDE DEF StepKept
<1>2. DeskSpec => [][StepKept]_deskVars
  BY <1>1, DeskAlwaysTyped, PTL
<1> QED
  BY <1>2 DEF LinksStayFounded, StepKept

\* However many handlers overlap, a teacher is appointed and a subject mapped
\* where all that the handler validated is still there (academic.service.ts
\* and the staff's), unless it was overtaken after the validation.
THEOREM PostsFounded == DeskSpec => PostsStayFounded
<1> DEFINE StepKept == service = "posts" => PostsAreFounded
<1>1. DeskTypedInv => StepKept
  BY FoundedPostsByAnyHandler DEF DeskTypedInv
<1> HIDE DEF StepKept
<1>2. DeskSpec => [][StepKept]_deskVars
  BY <1>1, DeskAlwaysTyped, PTL
<1> QED
  BY <1>2 DEF PostsStayFounded, StepKept

\* However many handlers overlap, no teacher has two classes at once and no
\* class two entries in a period, unless a handler was overtaken between its
\* look-ups of conflicts and its write (timetable of academic.service.ts).
THEOREM GridSound == DeskSpec => GridKeepsSound
<1> DEFINE StepKept == service = "timetable" => GridStaysSound
<1>1. DeskTypedInv => StepKept
  BY SoundByAnyHandler DEF DeskTypedInv
<1> HIDE DEF StepKept
<1>2. DeskSpec => [][StepKept]_deskVars
  BY <1>1, DeskAlwaysTyped, PTL
<1> QED
  BY <1>2 DEF GridKeepsSound, StepKept

\* However many handlers overlap, attendance of a session that is closed stays
\* as it is, unless markAttendance was overtaken by closeSession after it had
\* found the session open (attendance.service.ts).
THEOREM SettledFrozen == DeskSpec => SettledStaysFrozen
<1> DEFINE StepKept == service = "attendance" => SettledAttendanceIsFrozen
<1>1. DeskTypedInv => StepKept
  BY SettledByAnyHandler DEF DeskTypedInv
<1> HIDE DEF StepKept
<1>2. DeskSpec => [][StepKept]_deskVars
  BY <1>1, DeskAlwaysTyped, PTL
<1> QED
  BY <1>2 DEF SettledStaysFrozen, StepKept

\* However many handlers overlap, no entry of the calendar is replaced by one
\* of a weaker source, unless the generator was overtaken between its reads
\* and its upserts.
THEOREM SourcesOrdered == DeskSpec => SourcesStayOrdered
<1> DEFINE StepKept == service = "holidays" => SourcesKeepTheirOrder
<1>1. DeskTypedInv => StepKept
  BY OrderedByAnyHandler DEF DeskTypedInv
<1> HIDE DEF StepKept
<1>2. DeskSpec => [][StepKept]_deskVars
  BY <1>1, DeskAlwaysTyped, PTL
<1> QED
  BY <1>2 DEF SourcesStayOrdered, StepKept

\* However many handlers overlap, a deleted academic year has no class, a
\* deleted fee category no live structure and a deleted route no live trip or
\* stop, unless the count before the deletion, or the look-up of a handler
\* that adds one, was overtaken.
THEOREM NothingHangs == DeskSpec => NothingHangsOnDeleted
<1> DEFINE Kept == /\ service = "catalog" => YearsStayEmpty
                   /\ service = "fees" => FeesKeepCategories
                   /\ service = "routes" => RoutesStayClear
<1>1. DeskTypedInv => Kept
  BY YearsByAnyHandler, FeesByAnyHandler, RoutesByAnyHandler DEF DeskTypedInv
<1> HIDE DEF Kept
<1>2. DeskSpec => [][Kept]_deskVars
  BY <1>1, DeskAlwaysTyped, PTL
<1> QED
  BY <1>2 DEF NothingHangsOnDeleted, Kept

\* However many handlers overlap, each seed and each copy of a service makes
\* all that it promises, and a half-way one is completed by the next, unless
\* another handler changed what it had read or made before it ended.
THEOREM ImportsComplete == DeskSpec => ImportsAreComplete
<1> DEFINE Whole == /\ service = "catalog" => SeedsAreWhole
                    /\ service = "organisation" => ImportsAreWhole
                    /\ service = "fees" => CopiesAreWhole
                    /\ service = "schedules" => SchedulesAreWhole
                    /\ service = "routes" => RouteWritesAreWhole
<1>1. DeskTypedInv => Whole
  BY SeedsWholeByAnyHandler, ImportsByAnyHandler, CopiesByAnyHandler,
     SchedulesByAnyHandler, WritesByAnyHandler DEF DeskTypedInv
<1> HIDE DEF Whole
<1>2. DeskSpec => [][Whole]_deskVars
  BY <1>1, DeskAlwaysTyped, PTL
<1> QED
  BY <1>2 DEF ImportsAreComplete, Whole

\* However many handlers overlap, a student is given a seat only where there
\* is one, and only one, unless the handler was overtaken between the count of
\* the allocations and its write (transport.service.ts).  The allocations a
\* database holds are finitely many.
THEOREM SeatsAreChecked ==
  ASSUME IsFiniteSet(Allocations)
  PROVE  DeskSpec => SeatsStayChecked
<1> DEFINE StepKept == service = "transport" => AllocationsAreChecked
<1>1. DeskTypedInv => StepKept
  BY CheckedByAnyHandler DEF DeskTypedInv
<1> HIDE DEF StepKept
<1>2. DeskSpec => [][StepKept]_deskVars
  BY <1>1, DeskAlwaysTyped, PTL
<1> QED
  BY <1>2 DEF SeatsStayChecked, StepKept

=============================================================================
