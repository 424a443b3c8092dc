----------------------------- MODULE FeeCatalog -----------------------------
(***************************************************************************)
(* Fee categories, a tree, and the fee structures of one class in one year *)
(* that are assigned to them (finance.service.ts of tenant-service).  What *)
(* invoices and payments make of a structure is in FeeLedger.              *)
(*                                                                         *)
(* A category is unique in its parent and name, deleted rows included,     *)
(* but PostgreSQL does not count rows at the top, whose parent is NULL.    *)
(* A structure is unique in its category, deleted rows included.           *)
(*                                                                         *)
(* Abstracted: amounts, due dates and audit events; several look-ups of    *)
(* one validation are one step, and so are the look-up of one structure in *)
(* the loop of a seed and its write, which FeeLedger keeps apart.          *)
(***************************************************************************)
EXTENDS Handlers, Sequences

CONSTANTS
  Categories,   \* ids of FeeCategory rows: bounds how many are made
  Labels,       \* names
  Catalogues    \* what generateFromMaster may find in MASTER_TEMPLATE

VARIABLES
  category,     \* FeeCategory rows, Null before they are made
  fee           \* FeeStructure of the class, per category

feeRows == <<category, fee>>
feeCatalogVars == <<feeRows, req>>

CategoryRow == [name : Labels, parent : Categories \cup {Null},
                live : BOOLEAN]

\* A row is not NULL, and neither is its id.
ASSUME NoCategoryAssumption == Null \notin CategoryRow \cup Categories

\* Categories of the master in the order they are copied, those at the top
\* first: a name, and the place of its parent in that order, 0 for none, for a
\* deleted one, and for one that is copied later (below the top the order is
\* by the parent's id); and the places that have a structure for the class.
Catalogue == [items : Seq([name : Labels, parent : Nat]),
              fees : SUBSET Nat]

ASSUME CataloguesAssumption ==
  \A m \in Catalogues :
    /\ m \in Catalogue
    /\ m.fees \subseteq DOMAIN m.items
    /\ \A i \in DOMAIN m.items :
         /\ m.items[i].parent \in 0 .. i - 1
         /\ \A j \in DOMAIN m.items \ {i} : m.items[i] # m.items[j]

FeeCatalogInit ==
  /\ category = [k \in Categories |-> Null]
  /\ fee = [k \in Categories |-> "absent"]
  /\ HandlersInit

Made == {k \in Categories : category[k] # Null}
LiveCategories == {k \in Made : category[k].live}

\* The unique key on (parent, name), for the row k.
Vacant(k, parent, name) ==
  parent # Null => \A j \in Made \ {k} :
                     <<category[j].parent, category[j].name>> # <<parent, name>>

NewCategory(k, parent, name) ==
  /\ k \notin Made
  /\ Vacant(k, parent, name)
  /\ category' = [category EXCEPT ![k] = [name |-> name, parent |-> parent,
                                          live |-> TRUE]]

-----------------------------------------------------------------------------
(***************************************************************************)
(* Categories                                                              *)
(***************************************************************************)
\* Any row will do as a parent: only the foreign key looks at it.
CreateFeeCategory(r, k, parent, name) ==
  /\ req[r] = Idle
  /\ parent \in Made \cup {Null}
  /\ NewCategory(k, parent, name)
  /\ UNCHANGED <<fee, req>>

UpdateFeeCategory(r, k, name) ==
  /\ req[r] = Idle
  /\ k \in LiveCategories
  /\ Vacant(k, category[k].parent, name)
  /\ category' = [category EXCEPT ![k].name = name]
  /\ UNCHANGED <<fee, req>>

\* Mutant: the structures of the category are not counted.
DeleteUncounted(r, k) ==
  /\ req[r] = Idle
  /\ k \in LiveCategories
  /\ Continue(r, [op |-> "deleteCategory", id |-> k])
  /\ UNCHANGED feeRows

\* deleteFeeCategory looks the category up and counts its live structures ...
DeleteFeeCategory(r, k) ==
  /\ req[r] = Idle
  /\ k \in LiveCategories
  /\ fee[k] # "live"
  /\ Continue(r, [op |-> "deleteCategory", id |-> k])
  /\ UNCHANGED feeRows

\* ... and deletes it, leaving what is below it where it is.
SoftDeleteCategory(r) ==
  /\ req[r].op = "deleteCategory"
  /\ category' = [category EXCEPT ![req[r].id].live = FALSE]
  /\ Reply(r)
  /\ UNCHANGED fee

-----------------------------------------------------------------------------
(***************************************************************************)
(* Structures                                                              *)
(***************************************************************************)
CreateStructure(r, k) ==
  /\ req[r] = Idle
  /\ k \in LiveCategories
  /\ Continue(r, [op |-> "createFee", id |-> k])
  /\ UNCHANGED feeRows

InsertStructure(r) ==
  /\ req[r].op = "createFee"
  /\ fee[req[r].id] = "absent"
  /\ fee' = [fee EXCEPT ![req[r].id] = "live"]
  /\ Reply(r)
  /\ UNCHANGED category

\* updateFeeStructure with another category.
MoveStructure(r, from, to) ==
  /\ req[r] = Idle
  /\ to \in LiveCategories
  /\ Continue(r, [op |-> "moveFee", from |-> from, to |-> to])
  /\ UNCHANGED feeRows

WriteMove(r) ==
  /\ req[r].op = "moveFee"
  /\ fee[req[r].from] = "live"
  /\ req[r].to # req[r].from => fee[req[r].to] = "absent"
  /\ fee' = [fee EXCEPT ![req[r].from] = "absent", ![req[r].to] = "live"]
  /\ Reply(r)
  /\ UNCHANGED category

DeleteStructure(r, k) ==
  /\ req[r] = Idle
  /\ fee[k] = "live"
  /\ fee' = [fee EXCEPT ![k] = "deleted"]
  /\ UNCHANGED <<category, req>>

-----------------------------------------------------------------------------
(***************************************************************************)
(* seedFeeStructures, over the leaves of the tree as it is read            *)
(***************************************************************************)
\* A category below another (which need not be live), or one at the top with
\* nothing live below it.
Leaves ==
  {k \in LiveCategories :
     category[k].parent # Null
       \/ \A j \in LiveCategories : category[j].parent # k}

SeedStructures(r) ==
  /\ req[r] = Idle
  /\ LiveCategories # {}
  /\ Continue(r, [op |-> "seedFees", todo |-> Leaves])
  /\ UNCHANGED feeRows

\* A deleted structure is shown again, on purpose.
SeedStructure(r, k) ==
  /\ req[r].op = "seedFees"
  /\ k \in req[r].todo
  /\ fee' = [fee EXCEPT ![k] = "live"]
  /\ Continue(r, [req[r] EXCEPT !.todo = @ \ {k}])
  /\ UNCHANGED category

SeedStructuresDone(r) ==
  /\ req[r].op = "seedFees"
  /\ req[r].todo = {}
  /\ Reply(r)
  /\ UNCHANGED feeRows

-----------------------------------------------------------------------------
(***************************************************************************)
(* generateFromMaster: no transaction holds it together.  copied is the    *)
(* catMap so far, by place; seen the categories it read at the start.      *)
(***************************************************************************)
GenerateFromMaster(r, m) ==
  /\ req[r] = Idle
  /\ Continue(r, [op |-> "copyFees", master |-> m, seen |-> category,
                  copied |-> <<>>, fees |-> m.fees])
  /\ UNCHANGED feeRows

Item(state) == state.master.items[Len(state.copied) + 1]

Copying(r) ==
  /\ req[r].op = "copyFees"
  /\ Len(req[r].copied) < Len(req[r].master.items)

LocalParent(state) ==
  IF Item(state).parent = 0 THEN Null ELSE state.copied[Item(state).parent]

Found(state) ==
  {k \in Categories :
     /\ state.seen[k] # Null /\ state.seen[k].live
     /\ state.seen[k].name = Item(state).name
     /\ state.seen[k].parent = LocalParent(state)}

SkipCategory(r) ==
  /\ Copying(r)
  /\ \E k \in Found(req[r]) :
       Continue(r, [req[r] EXCEPT !.copied = Append(@, k)])
  /\ UNCHANGED feeRows

CopyCategory(r, k) ==
  /\ Copying(r)
  /\ Found(req[r]) = {}
  /\ NewCategory(k, LocalParent(req[r]), Item(req[r]).name)
  /\ Continue(r, [req[r] EXCEPT !.copied = Append(@, k)])
  /\ UNCHANGED fee

\* A structure that is live is skipped, one that is deleted ends the copying.
CopyStructure(r) ==
  /\ req[r].op = "copyFees" /\ ~Copying(r)
  /\ \E i \in req[r].fees :
       /\ fee[req[r].copied[i]] # "deleted"
       /\ fee' = [fee EXCEPT ![req[r].copied[i]] = "live"]
       /\ Continue(r, [req[r] EXCEPT !.fees = @ \ {i}])
  /\ UNCHANGED category

CopyIsComplete(r) ==
  /\ req[r].op = "copyFees" /\ ~Copying(r)
  /\ req[r].fees = {}

GenerateDone(r) ==
  /\ CopyIsComplete(r)
  /\ Reply(r)
  /\ UNCHANGED feeRows

FeeCatalogAbandon(r) == Abandon(r) /\ UNCHANGED feeRows

\* Whatever handler r may do next.
FeeCatalogHandler(r) ==
  \/ \E k \in Categories :
       \/ \E name \in Labels :
            \/ \E parent \in Categories \cup {Null} :
                 CreateFeeCategory(r, k, parent, name)
            \/ UpdateFeeCategory(r, k, name)
       \/ DeleteFeeCategory(r, k)
       \/ CreateStructure(r, k) \/ DeleteStructure(r, k)
       \/ \E to \in Categories : MoveStructure(r, k, to)
       \/ SeedStructure(r, k) \/ CopyCategory(r, k)
  \/ SoftDeleteCategory(r)
  \/ InsertStructure(r) \/ WriteMove(r)
  \/ SeedStructures(r) \/ SeedStructuresDone(r)
  \/ \E m \in Catalogues : GenerateFromMaster(r, m)
  \/ SkipCategory(r) \/ CopyStructure(r) \/ GenerateDone(r)
  \/ FeeCatalogAbandon(r)

FeeCatalogNext == \E r \in Requests : FeeCatalogHandler(r)

FeeCatalogSpec == FeeCatalogInit /\ [][FeeCatalogNext]_feeCatalogVars

-----------------------------------------------------------------------------
FeeCatalogRequest ==
  {Idle}
    \cup [op : {"deleteCategory", "createFee"}, id : Categories]
    \cup [op : {"moveFee"}, from : Categories, to : Categories]
    \cup [op : {"seedFees"}, todo : SUBSET Categories]
    \cup [op : {"copyFees"}, master : Catalogues,
          seen : [Categories -> CategoryRow \cup {Null}],
          copied : Seq(Categories), fees : SUBSET Nat]

FeeCatalogTypeOK ==
  /\ category \in [Categories -> CategoryRow \cup {Null}]
  /\ fee \in [Categories -> Presence]
  /\ req \in [Requests -> FeeCatalogRequest]

-----------------------------------------------------------------------------
(***************************************************************************)
(* Properties                                                              *)
(***************************************************************************)
\* A category that was read as live when the copy began.
WasLive(q, k) == q.seen[k] # Null /\ q.seen[k].live

\* What handler q has counted and looked up among the categories, or made
\* there, and acts on, is still so.
CategoriesStand(q) ==
  /\ q.op = "deleteCategory" => fee[q.id] # "live"
  /\ q.op = "createFee" => q.id \in LiveCategories
  /\ q.op = "moveFee" => q.to \in LiveCategories
  /\ q.op = "seedFees" => q.todo \subseteq LiveCategories
  /\ q.op = "copyFees" =>
       /\ \A i \in DOMAIN q.copied : q.copied[i] \in LiveCategories
       /\ \A k \in Categories : WasLive(q, k) => k \in LiveCategories

FeesHaveCategories ==
  \A k \in Categories : fee[k] = "live" => k \in LiveCategories

\* No live structure is left on a deleted category, whichever of create,
\* move, seed and copy made it, and also when a copy or a seed was given up
\* half way.  Only a handler that was overtaken leaves one there.
FeesKeepCategories ==
  \A r \in Requests :
    \/ ~CategoriesStand(req[r])
    \/ /\ CategoriesStand(req[r])'
       /\ FeesHaveCategories => FeesHaveCategories'
    \/ ~FeeCatalogHandler(r)

\* Where the counterpart of place i belongs: the top, when its parent was
\* copied later.
ParentOf(q, i) ==
  IF q.master.items[i].parent = 0 THEN Null
                                  ELSE q.copied[q.master.items[i].parent]

\* Nothing a copy has read, found or made was touched since: the categories
\* are those it read and those it made, each in its place and a different one
\* for each of the master, and the structures it has copied are live.
CopyStands(q) ==
  q.op = "copyFees" =>
    /\ Len(q.copied) <= Len(q.master.items)
    /\ \A i \in DOMAIN q.copied :
         /\ q.copied[i] \in LiveCategories
         /\ category[q.copied[i]].name = q.master.items[i].name
         /\ category[q.copied[i]].parent = ParentOf(q, i)
         /\ \A j \in DOMAIN q.copied \ {i} : q.copied[j] # q.copied[i]
    /\ \A k \in Categories :
         WasLive(q, k) => k \in LiveCategories /\ category[k] = q.seen[k]
    /\ \A k \in LiveCategories :
         WasLive(q, k) \/ \E i \in DOMAIN q.copied : q.copied[i] = k
    /\ \A i \in q.master.fees \ q.fees :
         i \in DOMAIN q.copied /\ fee[q.copied[i]] = "live"

\* Each category of the master has a live counterpart, and each of its
\* structures is live.
GeneratedIsWhole(q) ==
  /\ \A i \in DOMAIN q.master.items :
       /\ q.copied[i] \in LiveCategories
       /\ category[q.copied[i]].name = q.master.items[i].name
       /\ category[q.copied[i]].parent = ParentOf(q, i)
       /\ \A j \in DOMAIN q.master.items \ {i} : q.copied[j] # q.copied[i]
  /\ \A i \in q.master.fees : fee[q.copied[i]] = "live"

\* What is made is not there yet, at the top of the tree too, where no unique
\* key would refuse it.
NothingIsRepeated ==
  \A k \in Categories \ Made : k \in Made' =>
    \A j \in LiveCategories :
      <<category[j].parent, category[j].name>> #
        <<category'[k].parent, category'[k].name>>

\* generateFromMaster is not one transaction.  It completes what an earlier
\* run that failed half way has made, without repeating it, and ends with all
\* of the master in place, unless another handler touches the same categories
\* or structures between its steps.
CopiesAreWhole ==
  \A r \in Requests :
    \/ ~CopyStands(req[r])
    \/ /\ CopyStands(req[r])'
       /\ GenerateDone(r) => GeneratedIsWhole(req[r])
       /\ req[r].op = "copyFees" => NothingIsRepeated
    \/ ~FeeCatalogHandler(r)
=============================================================================
