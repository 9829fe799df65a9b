-------------------------- MODULE DocumentVersions --------------------------
(***************************************************************************)
(* One document, its versions and the tracked changes an assistant         *)
(* proposed in it (src/backend/src/routes/documents.ts and                 *)
(* src/backend/src/lib/chat/tools/documentOps.ts).                         *)
(*                                                                         *)
(* A version is a row and a stored object; the row also carries a hash     *)
(* that the signed project manifest repeats.  Rows and objects live in     *)
(* different systems and no request holds a lock, so each statement and    *)
(* each call of the store is a step, and requests run side by side and     *)
(* may die between any two of them.  Four kinds of request write:          *)
(*                                                                         *)
(*   resolve  accept or reject one proposed edit, in place;                *)
(*   edit     an edit_document call of a chat turn: the first call of a    *)
(*            turn makes a version, later ones overwrite it;               *)
(*   copy     add a version with another document's bytes;                 *)
(*   delete   delete one version, not the last.                            *)
(*                                                                         *)
(* Bytes are what the properties tell apart: where they were uploaded, the *)
(* tracked changes still open in them, and those already decided.  An      *)
(* object is named by the version it was made for, as its key has a random *)
(* part.                                                                   *)
(***************************************************************************)
EXTENDS Integers, FiniteSetsExt

CONSTANTS
  Version,  \* the versions the document can come to have (a bound)
  Edit,     \* the edits that can come to be proposed (a bound)
  Request,  \* requests and chat turns that may be under way together
  First,    \* the version the document was created with
  Null

ASSUME VersionsAssumption ==
  /\ First \in Version
  /\ Null \notin Version \cup Edit

VARIABLES
  versions,   \* the rows of document_versions
  current,    \* documents.current_version_id
  edits,      \* the rows of document_edits
  objects,    \* the stored objects, by the version they were made for
  requests,   \* what each request is doing
  turns,      \* turnEditState: the version a chat turn already made
  overlapped  \* whether two requests were ever under way together

vars == <<versions, current, edits, objects, requests, turns, overlapped>>

-----------------------------------------------------------------------------

\* One w:ins or w:del in a file: its w:id, and the edit that put it there.
Marks == [id : 1 .. Cardinality(Edit), edit : Edit]

Contents == [base : Version, open : SUBSET Marks, decided : SUBSET Edit]

Collapsed(bytes, marks) ==
  [bytes EXCEPT !.open = @ \ marks, !.decided = @ \cup {m.edit : m \in marks}]

NextIdWithGap(bytes) == 2 + Max({0} \cup {m.id : m \in bytes.open})

\* New changes are numbered above every tracked change the file still holds.
NextId(bytes) == 1 + Max({0} \cup {m.id : m \in bytes.open})

Marked(bytes, e) == [bytes EXCEPT !.open = @ \cup {[id |-> NextId(bytes), edit |-> e]}]

Idle == [op |-> "none", pc |-> "none", edit |-> Null, row |-> Null,
         path |-> Null, bytes |-> Null, number |-> 0]

Original == [base |-> First, open |-> {}, decided |-> {}]

Init ==
  /\ versions = [v \in Version |->
       IF v = First THEN [state |-> "live", number |-> 1, hash |-> Original]
                    ELSE [state |-> "none", number |-> 0, hash |-> Null]]
  /\ current = First
  /\ edits = [e \in Edit |-> [status |-> "none", id |-> 0]]
  /\ objects = [v \in {First} |-> Original]
  /\ requests = [r \in Request |-> Idle]
  /\ turns = [r \in Request |-> Null]
  /\ overlapped = FALSE

-----------------------------------------------------------------------------

Rows == {v \in Version : versions[v].state # "none"}
Live == {v \in Version : versions[v].state = "live"}

\* loadActiveVersion and the download after it find something.
Readable == current \in Live \cap DOMAIN objects

\* A key nobody has drawn yet.
Unused(v) ==
  /\ v \notin Rows
  /\ v \notin DOMAIN objects
  /\ \A r \in Request : requests[r].path # v

Starts(r, request) ==
  /\ requests[r] = Idle
  /\ requests' = [requests EXCEPT ![r] = request]
  /\ overlapped' = (overlapped \/ \E q \in Request \ {r} : requests[q] # Idle)

At(r, pc) == requests[r].pc = pc
Goes(r, pc) == requests' = [requests EXCEPT ![r].pc = pc]
Ends(r) == requests' = [requests EXCEPT ![r] = Idle]

-----------------------------------------------------------------------------
(* Accept or reject an edit.                                               *)

\* The edit is read, and the document's row for the version to hash.
Resolve(r, e) ==
  /\ edits[e].status = "pending"
  /\ Starts(r, [Idle EXCEPT !.op = "resolve", !.pc = "resolve", !.edit = e, !.row = current])
  /\ UNCHANGED <<versions, current, edits, objects, turns>>

\* The current version is looked up a second time, for its bytes; the change
\* is found in them by its w:id alone.
LoadForResolution(r) ==
  LET found == {m \in objects[current].open : m.id = edits[requests[r].edit].id}
  IN /\ At(r, "resolve")
     /\ \/ ~Readable /\ Ends(r)
        \/ /\ Readable
           /\ found = {}
           /\ Goes(r, "status")
        \/ /\ Readable
           /\ found # {}
           /\ requests' = [requests EXCEPT
                ![r].pc = "clear", ![r].path = current,
                ![r].bytes = Collapsed(objects[current], found)]
     /\ UNCHANGED <<versions, current, edits, objects, turns, overlapped>>

SetStatus(r) ==
  /\ At(r, "status")
  /\ edits' = [edits EXCEPT ![requests[r].edit].status = "resolved"]
  /\ Ends(r)
  /\ UNCHANGED <<versions, current, objects, turns, overlapped>>

-----------------------------------------------------------------------------
(* Propose an edit, in a new version or in the one this turn made.         *)

RunEditDocument(r, e) ==
  /\ edits[e].status = "none"
  /\ \A q \in Request : requests[q].edit # e
  /\ Starts(r, [Idle EXCEPT !.op = "edit", !.pc = "edit", !.edit = e,
                            !.row = turns[r], !.path = turns[r]])
  /\ UNCHANGED <<versions, current, edits, objects, turns>>

\* The edit is made in the current version's bytes, whichever version is then
\* written; it swallows the open insertions it lands on.  Until its row is
\* inserted it is "drawn", and stays so if the call dies.
LoadForEdit(r) ==
  /\ At(r, "edit")
  /\ \/ ~Readable /\ Ends(r) /\ UNCHANGED edits
     \/ /\ Readable
        /\ edits' = [edits EXCEPT ![requests[r].edit].status = "drawn"]
        /\ \E swallowed \in SUBSET objects[current].open :
           \E v \in {w \in Version : IF requests[r].row = Null THEN Unused(w)
                                                               ELSE w = requests[r].path} :
             LET marked == Marked(objects[current], requests[r].edit)
             IN requests' = [requests EXCEPT
                  ![r].pc = IF requests[r].row = Null THEN "put" ELSE "clear",
                  ![r].path = v,
                  ![r].bytes = Collapsed(marked, swallowed)]
  /\ UNCHANGED <<versions, current, objects, turns, overlapped>>

InsertEdits(r) ==
  LET e == requests[r].edit
      mark == CHOOSE m \in requests[r].bytes.open : m.edit = e
  IN /\ At(r, "edits")
     /\ edits' = [edits EXCEPT ![e] = [status |-> "pending", id |-> mark.id]]
     /\ Goes(r, "point")
     /\ UNCHANGED <<versions, current, objects, turns, overlapped>>

TurnEnds(r) ==
  /\ requests[r] = Idle
  /\ turns[r] # Null
  /\ turns' = [turns EXCEPT ![r] = Null]
  /\ UNCHANGED <<versions, current, edits, objects, requests, overlapped>>

-----------------------------------------------------------------------------
(* The writes that these requests, and copies, share.                      *)

CopyIntoVersion(r, v) ==
  /\ Unused(v)
  /\ Starts(r, [Idle EXCEPT !.op = "copy", !.pc = "put", !.path = v,
                            !.bytes = [base |-> v, open |-> {}, decided |-> {}]])
  /\ UNCHANGED <<versions, current, edits, objects, turns>>

ClearNothing(r) ==
  /\ At(r, "clear")
  /\ Goes(r, "put")
  /\ UNCHANGED <<versions, current, edits, objects, turns, overlapped>>

ClearHash(r) ==
  /\ At(r, "clear")
  /\ versions' = [versions EXCEPT ![requests[r].row].hash = Null]
  /\ Goes(r, "put")
  /\ UNCHANGED <<current, edits, objects, turns, overlapped>>

Put(r) ==
  /\ At(r, "put")
  /\ objects' = [v \in DOMAIN objects \cup {requests[r].path} |->
                   IF v = requests[r].path THEN requests[r].bytes ELSE objects[v]]
  /\ Goes(r, IF requests[r].row = Null THEN "number" ELSE "hash")
  /\ UNCHANGED <<versions, current, edits, turns, overlapped>>

SetHash(r) ==
  /\ At(r, "hash")
  /\ versions' = [versions EXCEPT ![requests[r].row].hash = requests[r].bytes]
  /\ Goes(r, IF requests[r].op = "resolve" THEN "status" ELSE "edits")
  /\ UNCHANGED <<current, edits, objects, turns, overlapped>>

\* Rows of deleted versions count.
ReadNumber(r) ==
  /\ At(r, "number")
  /\ requests' = [requests EXCEPT
       ![r].pc = "insert", ![r].number = 1 + Max({versions[v].number : v \in Rows})]
  /\ UNCHANGED <<versions, current, edits, objects, turns, overlapped>>

RefusedNever(r) == FALSE

\* document_versions_doc_version_unique refuses a number given meanwhile; the
\* request then ends and leaves its object behind.
Refused(r) == \E v \in Rows : versions[v].number = requests[r].number

InsertVersion(r) ==
  /\ At(r, "insert")
  /\ \/ Refused(r) /\ Ends(r) /\ UNCHANGED versions
     \/ /\ ~Refused(r)
        /\ versions' = [versions EXCEPT ![requests[r].path] =
             [state |-> "live", number |-> requests[r].number, hash |-> requests[r].bytes]]
        /\ requests' = [requests EXCEPT
             ![r].pc = IF requests[r].op = "edit" THEN "edits" ELSE "point",
             ![r].row = requests[r].path]
  /\ UNCHANGED <<current, edits, objects, turns, overlapped>>

Point(r) ==
  /\ At(r, "point")
  /\ current' = requests[r].row
  /\ turns' = IF requests[r].op = "edit" THEN [turns EXCEPT ![r] = requests[r].row] ELSE turns
  /\ Ends(r)
  /\ UNCHANGED <<versions, edits, objects, overlapped>>

-----------------------------------------------------------------------------
(* Delete a version.                                                       *)

\* The document's row is read.
DeleteVersion(r, v) ==
  /\ v \in Live
  /\ Starts(r, [Idle EXCEPT !.op = "delete", !.pc = "rows", !.path = v, !.row = current])
  /\ UNCHANGED <<versions, current, edits, objects, turns>>

\* Then the rows not deleted; the newest of the others takes over.
ReadRows(r) ==
  LET target == requests[r].path
      others == Live \ {target}
  IN /\ At(r, "rows")
     /\ \/ (target \notin Live \/ others = {}) /\ Ends(r)
        \/ /\ target \in Live
           /\ others # {}
           /\ IF requests[r].row # target
              THEN Goes(r, "remove")
              ELSE \E next \in others :
                     /\ \A v \in others : versions[v].number <= versions[next].number
                     /\ requests' = [requests EXCEPT ![r].pc = "repoint", ![r].row = next]
     /\ UNCHANGED <<versions, current, edits, objects, turns, overlapped>>

Repoint(r) ==
  /\ At(r, "repoint")
  /\ current' = requests[r].row
  /\ Goes(r, "remove")
  /\ UNCHANGED <<versions, edits, objects, turns, overlapped>>

RemoveObjectOnly(r) ==
  /\ At(r, "remove")
  /\ objects' = [v \in DOMAIN objects \ {requests[r].path} |-> objects[v]]
  /\ Goes(r, "wipe")
  /\ UNCHANGED <<versions, current, edits, turns, overlapped>>

\* The row's paths go with the mark, so that nobody reads the object again.
SoftDelete(r) ==
  /\ At(r, "remove")
  /\ versions' = [versions EXCEPT ![requests[r].path].state = "deleted"]
  /\ Goes(r, "wipe")
  /\ UNCHANGED <<current, edits, objects, turns, overlapped>>

Wipe(r) ==
  /\ At(r, "wipe")
  /\ objects' = [v \in DOMAIN objects \ {requests[r].path} |-> objects[v]]
  /\ Ends(r)
  /\ UNCHANGED <<versions, current, edits, turns, overlapped>>

-----------------------------------------------------------------------------

\* A request dies, or a call of the store or a statement fails and ends it.
Dies(r) ==
  /\ requests[r] # Idle
  /\ Ends(r)
  /\ UNCHANGED <<versions, current, edits, objects, turns, overlapped>>

Next ==
  \E r \in Request :
    \/ \E e \in Edit : Resolve(r, e) \/ RunEditDocument(r, e)
    \/ \E v \in Version : CopyIntoVersion(r, v) \/ DeleteVersion(r, v)
    \/ LoadForResolution(r) \/ SetStatus(r)
    \/ LoadForEdit(r) \/ InsertEdits(r) \/ TurnEnds(r)
    \/ ClearHash(r) \/ Put(r) \/ SetHash(r)
    \/ ReadNumber(r) \/ InsertVersion(r) \/ Point(r)
    \/ ReadRows(r) \/ Repoint(r) \/ SoftDelete(r) \/ Wipe(r)
    \/ Dies(r)

Spec == Init /\ [][Next]_vars

-----------------------------------------------------------------------------
(* Properties.                                                             *)

\* Every variable keeps to its type; in particular a w:id never runs past the
\* number of edits proposed, as a decided change gives its number back.
TypeOK ==
  /\ versions \in [Version -> [state : {"none", "live", "deleted"},
                               number : 0 .. Cardinality(Version),
                               hash : Contents \cup {Null}]]
  /\ current \in Version
  /\ edits \in [Edit -> [status : {"none", "drawn", "pending", "resolved"},
                         id : 0 .. Cardinality(Edit)]]
  /\ DOMAIN objects \subseteq Version /\ \A v \in DOMAIN objects : objects[v] \in Contents
  /\ requests \in [Request -> [op : {"none", "resolve", "edit", "copy", "delete"},
                               pc : {"none", "resolve", "status", "edit", "edits", "clear",
                                     "put", "hash", "number", "insert", "point", "rows",
                                     "repoint", "remove", "wipe"},
                               edit : Edit \cup {Null}, row : Version \cup {Null},
                               path : Version \cup {Null}, bytes : Contents \cup {Null},
                               number : 0 .. Cardinality(Version)]]
  /\ turns \in [Request -> Version \cup {Null}]
  /\ overlapped \in BOOLEAN

\* However requests interleave and wherever they die, a version that is listed
\* has its bytes: they are stored before its row is inserted and removed after
\* it is marked deleted, and nobody else's deletion takes them.
LiveVersionHasBytes == Live \subseteq DOMAIN objects

\* The number shown as "Vn" orders the versions by the insertion of their rows:
\* no request that read the highest number early inserts under or beside one
\* that came later, and a deleted version's number is not given again.
NumbersFollowInsertion ==
  [][\A v \in Rows' \ Rows : \A u \in Rows : versions[u].number < versions'[v].number]_vars

\* As long as requests come one after another, a death at any point of a
\* resolution or of a turn's later edits leaves no listed version whose hash
\* attests bytes it does not hold.
HashNeverLies ==
  ~overlapped => \A v \in Live : versions[v].hash \in {Null, objects[v]}

\* Resolving an edit decides that edit and no other, when requests come one
\* after another: resolveTrackedChange produces "a new .docx with only that
\* change collapsed" (src/backend/src/lib/docxTrackedChanges.ts:6).
OnlyThatChange ==
  [][\A r \in Request :
       At(r, "put") /\ requests[r].op = "resolve" /\ ~overlapped /\ Put(r)
         => \A m \in objects[requests[r].path].open \ objects'[requests[r].path].open :
              m.edit = requests[r].edit]_vars
=============================================================================
