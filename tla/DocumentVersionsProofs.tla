----------------------- MODULE DocumentVersionsProofs -----------------------
(***************************************************************************)
(* For every instance of DocumentVersions: a listed version has its bytes, *)
(* numbers follow the insertion of rows, and the attested hashes are true  *)
(* as long as requests come one after another.                             *)
(*                                                                         *)
(* Bytes.  A row is inserted by the one request that drew its key,         *)
(* after that request has stored the object; a key without a row is known  *)
(* to nobody else (Reserved), so nobody removes the object in between.     *)
(* Objects are removed only under rows that are marked deleted, and a      *)
(* deleted row is never listed again.  What must be shown of every request *)
(* for that, by the place it has reached, is Sound.                        *)
(*                                                                         *)
(* Numbers.  The rows, deleted ones included, are numbered 1, 2, ... k     *)
(* without a gap (Numbered): a request inserts a number it computed        *)
(* earlier, which is at most k + 1, and the unique index refuses it unless *)
(* it is k + 1.                                                            *)
(*                                                                         *)
(* Hashes.  Until requests have overlapped, one at most is under way       *)
(* (Alone), and what it has read is still so (Exact): the version it       *)
(* clears is the one it writes, and the one it attests holds its bytes.    *)
(*                                                                         *)
(* Types. A w:id counts edits that its file has seen, open or decided: the *)
(* next one is at most one more than those seen, and the edit that gets it *)
(* is new to the file (Good in DataInv). A version number is one more than *)
(* the number of rows while the version to be inserted has none            *)
(* (NumbersFit).                                                           *)
(***************************************************************************)
EXTENDS DocumentVersions, FiniteSetTheorems, TLAPS

RowFields == {"state", "number", "hash"}
RequestFields == {"op", "pc", "edit", "row", "path", "bytes", "number"}

\* The tables are functions of records; of their contents the argument asks
\* only what follows.
Shape ==
  /\ DOMAIN versions = Version /\ \A v \in Version : DOMAIN versions[v] = RowFields
  /\ DOMAIN requests = Request /\ \A r \in Request : DOMAIN requests[r] = RequestFields
  /\ DOMAIN turns = Request

Dead == {v \in Version : versions[v].state = "deleted"}

\* rows are those inserted, dead those deleted, stored the versions with bytes.
Sound(x, rows, dead, stored) ==
  /\ x.row \in rows \cup {Null}
  /\ x.path \in Version \cup {Null}
  /\ x.pc = "edit" => x.path = x.row
  /\ x.pc \in {"put", "number", "insert", "clear"} => x.path # Null
  /\ x.pc = "put" /\ x.row = Null => x.path \notin rows
  /\ x.pc \in {"number", "insert"} => x.path \in stored \ rows
  /\ x.pc \in {"resolve", "clear", "hash", "edits", "point", "repoint"} => x.row # Null
  /\ x.pc \in {"rows", "repoint", "remove"} => x.path \in rows
  /\ x.pc = "wipe" => x.path \in dead

\* A key without a row belongs to the request that drew it.
Reserved ==
  \A r, q \in Request :
    r # q /\ requests[r].path \notin Rows \cup {Null} => requests[q].path # requests[r].path

BytesInv ==
  /\ Shape
  /\ current \in Rows
  /\ \A r \in Request : turns[r] \in Rows \cup {Null}
  /\ \A r \in Request : Sound(requests[r], Rows, Dead, DOMAIN objects)
  /\ Reserved
  /\ LiveVersionHasBytes

-----------------------------------------------------------------------------

\* At the start there is one version, stored, and no request.
LEMMA InitBytes == Init => BytesInv
<1> SUFFICES ASSUME Init PROVE BytesInv
  OBVIOUS
<1>1. Shape
  BY DEF Init, Shape, Idle, RowFields, RequestFields
<1>2. Rows = {First} /\ Live = {First} /\ current = First
  BY VersionsAssumption DEF Init, Rows, Live
<1>3. \A r \in Request : requests[r] = Idle /\ turns[r] = Null
  BY DEF Init
<1>4. \A r \in Request : Sound(requests[r], Rows, Dead, DOMAIN objects)
  BY <1>3 DEF Sound, Idle
<1>5. Reserved
  BY <1>3 DEF Reserved, Idle
<1>6. LiveVersionHasBytes
  BY <1>2 DEF LiveVersionHasBytes, Init
<1>. QED BY <1>1, <1>2, <1>3, <1>4, <1>5, <1>6 DEF BytesInv

\* What a step of one request has to show unless it inserts a row: deleted rows
\* stay deleted, only their bytes go, and the request is as it should be.
LEMMA StepKeeps ==
  ASSUME BytesInv, NEW r \in Request, NEW x,
         requests' = [requests EXCEPT ![r] = x], DOMAIN x = RequestFields,
         Sound(x, Rows', Dead', DOMAIN objects'),
         \/ x.path \in Rows \cup {Null, requests[r].path}
         \/ \A q \in Request : requests[q].path # x.path,
         Rows' = Rows, Dead \subseteq Dead', Live' \subseteq Live,
         DOMAIN versions' = Version, \A v \in Version : DOMAIN versions'[v] = RowFields,
         current' \in Rows,
         DOMAIN turns' = Request, \A q \in Request : turns'[q] \in Rows \cup {Null},
         DOMAIN objects \ Dead \subseteq DOMAIN objects'
  PROVE  BytesInv'
<1>1. /\ \A q \in Request : q # r => requests'[q] = requests[q]
      /\ requests'[r] = x
      /\ DOMAIN requests' = Request
  BY DEF BytesInv, Shape
<1>2. Shape'
  BY <1>1 DEF BytesInv, Shape
<1>3. Dead \subseteq Rows /\ Live \cap Dead = {}
  BY DEF Rows, Live, Dead
<1>4. \A q \in Request : Sound(requests'[q], Rows', Dead', DOMAIN objects')
  <2> SUFFICES ASSUME NEW q \in Request, q # r
               PROVE  Sound(requests'[q], Rows', Dead', DOMAIN objects')
    BY <1>1
  <2>1. Sound(requests[q], Rows, Dead, DOMAIN objects)
    BY DEF BytesInv
  <2>. QED BY <1>1, <1>3, <2>1 DEF Sound
<1>5. Reserved'
  BY <1>1 DEF BytesInv, Reserved
<1>6. LiveVersionHasBytes'
  BY <1>3 DEF BytesInv, LiveVersionHasBytes
<1>. QED BY <1>2, <1>4, <1>5, <1>6 DEF BytesInv

\* The same for a step that leaves versions, objects and turns alone.
LEMMA RequestMoves ==
  ASSUME BytesInv, NEW r \in Request, NEW x,
         UNCHANGED <<versions, current, objects, turns>>,
         requests' = [requests EXCEPT ![r] = x],
         DOMAIN x = RequestFields, Sound(x, Rows, Dead, DOMAIN objects),
         \/ x.path \in Rows \cup {Null, requests[r].path}
         \/ \A q \in Request : requests[q].path # x.path
  PROVE  BytesInv'
<1>1. Rows' = Rows /\ Live' = Live /\ Dead' = Dead
  BY DEF Rows, Live, Dead
<1>2. /\ DOMAIN versions' = Version /\ \A v \in Version : DOMAIN versions'[v] = RowFields
      /\ current' \in Rows
      /\ DOMAIN turns' = Request /\ \A q \in Request : turns'[q] \in Rows \cup {Null}
  BY DEF BytesInv, Shape
<1>. QED BY <1>1, <1>2, StepKeeps

\* A request that goes on to another step keeps what it knows.
LEMMA Known ==
  ASSUME BytesInv, NEW r \in Request
  PROVE  /\ Sound(requests[r], Rows, Dead, DOMAIN objects)
         /\ DOMAIN requests[r] = RequestFields
         /\ Rows \subseteq Version /\ Dead \subseteq Rows /\ Live \subseteq Rows
         /\ Null \notin Rows
BY VersionsAssumption DEF BytesInv, Shape, Rows, Dead, Live

\* A request may end anywhere.
LEMMA Ending ==
  ASSUME BytesInv, NEW r \in Request, Ends(r),
         UNCHANGED <<versions, current, objects, turns>>
  PROVE  BytesInv'
<1>1. DOMAIN Idle = RequestFields /\ Sound(Idle, Rows, Dead, DOMAIN objects) /\ Idle.path = Null
  BY DEF Idle, RequestFields, Sound
<1>. QED BY <1>1, RequestMoves DEF Ends

-----------------------------------------------------------------------------

\* Steps that only move a request: its first reads, and the writes of edits.
LEMMA ReadsKeepBytes ==
  ASSUME BytesInv, NEW r \in Request,
         \/ \E e \in Edit : Resolve(r, e) \/ RunEditDocument(r, e)
         \/ \E v \in Version : CopyIntoVersion(r, v) \/ DeleteVersion(r, v)
         \/ SetStatus(r) \/ InsertEdits(r) \/ ReadNumber(r) \/ Dies(r)
  PROVE  BytesInv'
<1>1. ASSUME NEW e \in Edit, Resolve(r, e) PROVE BytesInv'
  <2> DEFINE x == [Idle EXCEPT !.op = "resolve", !.pc = "resolve", !.edit = e, !.row = current]
  <2>1. DOMAIN x = RequestFields /\ x.path = Null
    BY DEF Idle, RequestFields
  <2>2. Sound(x, Rows, Dead, DOMAIN objects)
    BY Known DEF Sound, Idle, BytesInv
  <2> HIDE DEF x
  <2>3. requests' = [requests EXCEPT ![r] = x] /\ UNCHANGED <<versions, current, objects, turns>>
    BY <1>1 DEF Resolve, Starts, x
  <2>. QED BY <2>1, <2>2, <2>3, RequestMoves
<1>2. ASSUME NEW e \in Edit, RunEditDocument(r, e) PROVE BytesInv'
  <2> DEFINE x == [Idle EXCEPT !.op = "edit", !.pc = "edit", !.edit = e,
                               !.row = turns[r], !.path = turns[r]]
  <2>1. DOMAIN x = RequestFields /\ x.path = turns[r] /\ x.row = turns[r] /\ x.pc = "edit"
    BY DEF Idle, RequestFields
  <2>2. turns[r] \in Rows \cup {Null}
    BY DEF BytesInv
  <2> HIDE DEF x
  <2>3. Sound(x, Rows, Dead, DOMAIN objects)
    BY <2>1, <2>2, Known DEF Sound
  <2>4. requests' = [requests EXCEPT ![r] = x] /\ UNCHANGED <<versions, current, objects, turns>>
    BY <1>2 DEF RunEditDocument, Starts, x
  <2>. QED BY <2>1, <2>2, <2>3, <2>4, RequestMoves
<1>3. ASSUME NEW v \in Version, CopyIntoVersion(r, v) PROVE BytesInv'
  <2> DEFINE x == [Idle EXCEPT !.op = "copy", !.pc = "put", !.path = v,
                               !.bytes = [base |-> v, open |-> {}, decided |-> {}]]
  <2>1. DOMAIN x = RequestFields /\ x.path = v /\ x.row = Null /\ x.pc = "put"
    BY DEF Idle, RequestFields
  <2>2. v \notin Rows /\ \A q \in Request : requests[q].path # v
    BY <1>3 DEF CopyIntoVersion, Unused
  <2>3. requests' = [requests EXCEPT ![r] = x] /\ UNCHANGED <<versions, current, objects, turns>>
    BY <1>3 DEF CopyIntoVersion, Starts
  <2> HIDE DEF x
  <2>4. Sound(x, Rows, Dead, DOMAIN objects)
    BY <2>1, <2>2, VersionsAssumption DEF Sound
  <2>. QED BY <2>1, <2>2, <2>3, <2>4, RequestMoves
<1>4. ASSUME NEW v \in Version, DeleteVersion(r, v) PROVE BytesInv'
  <2> DEFINE x == [Idle EXCEPT !.op = "delete", !.pc = "rows", !.path = v, !.row = current]
  <2>1. DOMAIN x = RequestFields /\ x.path = v /\ x.row = current /\ x.pc = "rows"
    BY DEF Idle, RequestFields
  <2>2. v \in Rows /\ current \in Rows
    BY <1>4, Known DEF DeleteVersion, BytesInv
  <2>3. requests' = [requests EXCEPT ![r] = x] /\ UNCHANGED <<versions, current, objects, turns>>
    BY <1>4 DEF DeleteVersion, Starts
  <2> HIDE DEF x
  <2>4. Sound(x, Rows, Dead, DOMAIN objects)
    BY <2>1, <2>2, Known DEF Sound
  <2>. QED BY <2>1, <2>2, <2>3, <2>4, RequestMoves
<1>5. CASE SetStatus(r) \/ Dies(r)
  BY <1>5, Ending DEF SetStatus, Dies
<1>6. CASE InsertEdits(r)
  <2> DEFINE x == [requests[r] EXCEPT !.pc = "point"]
  <2>1. DOMAIN x = RequestFields /\ x.path = requests[r].path /\ Sound(x, Rows, Dead, DOMAIN objects)
    BY <1>6, Known DEF InsertEdits, At, Sound, RequestFields
  <2>2. requests' = [requests EXCEPT ![r] = x] /\ UNCHANGED <<versions, current, objects, turns>>
    BY <1>6 DEF InsertEdits, Goes
  <2> HIDE DEF x
  <2>. QED BY <2>1, <2>2, RequestMoves
<1>7. CASE ReadNumber(r)
  <2> DEFINE n == 1 + Max({versions[v].number : v \in Rows})
             x == [requests[r] EXCEPT !.pc = "insert", !.number = n]
  <2>1. requests' = [requests EXCEPT ![r] = x] /\ UNCHANGED <<versions, current, objects, turns>>
    BY <1>7 DEF ReadNumber
  <2> HIDE DEF n
  <2>2. DOMAIN x = RequestFields /\ x.path = requests[r].path /\ Sound(x, Rows, Dead, DOMAIN objects)
    BY <1>7, Known DEF ReadNumber, At, Sound, RequestFields
  <2> HIDE DEF x
  <2>. QED BY <2>1, <2>2, RequestMoves
<1>. QED BY <1>1, <1>2, <1>3, <1>4, <1>5, <1>6, <1>7

\* Steps that look something up and choose where to go on.
LEMMA LookupsKeepBytes ==
  ASSUME BytesInv, NEW r \in Request,
         LoadForResolution(r) \/ LoadForEdit(r) \/ ReadRows(r)
  PROVE  BytesInv'
<1>1. CASE LoadForResolution(r)
  <2> DEFINE found == {m \in objects[current].open : m.id = edits[requests[r].edit].id}
             collapsed == Collapsed(objects[current], found)
             x == [requests[r] EXCEPT !.pc = "status"]
             y == [requests[r] EXCEPT !.pc = "clear", !.path = current, !.bytes = collapsed]
  <2>1. UNCHANGED <<versions, current, objects, turns>> /\ requests[r].pc = "resolve"
    BY <1>1 DEF LoadForResolution, At
  <2>2. requests[r].row # Null /\ current \in Rows
    BY <2>1, Known DEF Sound, BytesInv
  <2>3. CASE Ends(r)
    BY <2>1, <2>3, Ending
  <2>4. CASE requests' = [requests EXCEPT ![r] = x]
    <3>1. DOMAIN x = RequestFields /\ x.path = requests[r].path /\ Sound(x, Rows, Dead, DOMAIN objects)
      BY Known DEF Sound, RequestFields
    <3> HIDE DEF x
    <3>. QED BY <2>1, <2>4, <3>1, RequestMoves
  <2>5. CASE requests' = [requests EXCEPT ![r] = y]
    <3> HIDE DEF collapsed
    <3>1. DOMAIN y = RequestFields /\ y.path = current /\ y.row = requests[r].row /\ y.pc = "clear"
      BY Known DEF RequestFields
    <3> HIDE DEF y
    <3>2. Sound(y, Rows, Dead, DOMAIN objects)
      BY <2>2, <3>1, Known DEF Sound
    <3>. QED BY <2>1, <2>2, <2>5, <3>1, <3>2, RequestMoves
  <2>. QED BY <1>1, <2>3, <2>4, <2>5 DEF LoadForResolution, Goes
<1>2. CASE LoadForEdit(r)
  <2>1. UNCHANGED <<versions, current, objects, turns>> /\ requests[r].pc = "edit"
    BY <1>2 DEF LoadForEdit, At
  <2>2. requests[r].path = requests[r].row
    BY <2>1, Known DEF Sound
  <2>3. CASE Ends(r)
    BY <2>1, <2>3, Ending
  <2>4. ASSUME NEW v \in Version, NEW bytes,
               IF requests[r].row = Null THEN Unused(v) ELSE v = requests[r].path,
               requests' = [requests EXCEPT
                 ![r].pc = IF requests[r].row = Null THEN "put" ELSE "clear",
                 ![r].path = v, ![r].bytes = bytes]
        PROVE  BytesInv'
    <3> DEFINE pc == IF requests[r].row = Null THEN "put" ELSE "clear"
               x == [requests[r] EXCEPT !.pc = pc, !.path = v, !.bytes = bytes]
    <3>1. requests' = [requests EXCEPT ![r] = x]
      BY <2>4
    <3>2. DOMAIN x = RequestFields /\ x.path = v /\ x.row = requests[r].row /\ x.pc = pc
      BY Known DEF RequestFields
    <3> HIDE DEF x
    <3>3. CASE requests[r].row = Null
      <4>1. v \notin Rows /\ \A q \in Request : requests[q].path # v
        BY <2>4, <3>3 DEF Unused
      <4>2. Sound(x, Rows, Dead, DOMAIN objects)
        BY <3>2, <3>3, <4>1, VersionsAssumption DEF Sound
      <4>. QED BY <2>1, <3>1, <3>2, <4>1, <4>2, RequestMoves
    <3>4. CASE requests[r].row # Null
      <4>1. v = requests[r].path
        BY <2>4, <3>4
      <4>2. Sound(x, Rows, Dead, DOMAIN objects)
        BY <2>2, <3>2, <3>4, <4>1, Known DEF Sound
      <4>. QED BY <2>1, <3>1, <3>2, <4>1, <4>2, RequestMoves
    <3>. QED BY <3>3, <3>4
  <2>. QED BY <1>2, <2>3, <2>4 DEF LoadForEdit
<1>3. CASE ReadRows(r)
  <2>1. UNCHANGED <<versions, current, objects, turns>> /\ requests[r].pc = "rows"
    BY <1>3 DEF ReadRows, At
  <2>2. requests[r].path \in Rows
    BY <2>1, Known DEF Sound
  <2>3. CASE Ends(r)
    BY <2>1, <2>3, Ending
  <2>4. CASE Goes(r, "remove")
    <3> DEFINE x == [requests[r] EXCEPT !.pc = "remove"]
    <3>1. DOMAIN x = RequestFields /\ x.path = requests[r].path /\ Sound(x, Rows, Dead, DOMAIN objects)
      BY <2>2, Known DEF Sound, RequestFields
    <3>2. requests' = [requests EXCEPT ![r] = x]
      BY <2>4 DEF Goes
    <3> HIDE DEF x
    <3>. QED BY <2>1, <3>1, <3>2, RequestMoves
  <2>5. ASSUME NEW next \in Live,
               requests' = [requests EXCEPT ![r].pc = "repoint", ![r].row = next]
        PROVE  BytesInv'
    <3> DEFINE x == [requests[r] EXCEPT !.pc = "repoint", !.row = next]
    <3>1. DOMAIN x = RequestFields /\ x.path = requests[r].path /\ x.row = next /\ x.pc = "repoint"
      BY Known DEF RequestFields
    <3>2. requests' = [requests EXCEPT ![r] = x]
      BY <2>5
    <3> HIDE DEF x
    <3>3. Sound(x, Rows, Dead, DOMAIN objects)
      BY <2>2, <3>1, Known DEF Sound
    <3>. QED BY <2>1, <3>1, <3>2, <3>3, RequestMoves
  <2>. QED BY <1>3, <2>3, <2>4, <2>5 DEF ReadRows
<1>. QED BY <1>1, <1>2, <1>3

\* Writes to a row that exists: its hash, the pointer, and the mark of deletion.
LEMMA RowWritesKeepBytes ==
  ASSUME BytesInv, NEW r \in Request,
         ClearHash(r) \/ SetHash(r) \/ Point(r) \/ Repoint(r) \/ SoftDelete(r)
  PROVE  BytesInv'
<1>. USE Known
<1>1. ASSUME NEW hash, NEW pc \in {"put", "status", "edits"},
             requests[r].pc \in {"clear", "hash"},
             pc = "put" => requests[r].pc = "clear",
             versions' = [versions EXCEPT ![requests[r].row].hash = hash],
             Goes(r, pc), UNCHANGED <<current, objects, turns>>
      PROVE  BytesInv'
  <2> DEFINE x == [requests[r] EXCEPT !.pc = pc]
  <2>1. requests' = [requests EXCEPT ![r] = x]
    BY <1>1 DEF Goes
  <2>2. DOMAIN x = RequestFields /\ x.path = requests[r].path /\ x.row = requests[r].row /\ x.pc = pc
    BY DEF RequestFields
  <2> HIDE DEF x
  <2>3. requests[r].row \in Rows
    BY <1>1 DEF Sound
  <2>4. /\ DOMAIN versions' = Version
        /\ \A v \in Version : DOMAIN versions'[v] = RowFields /\ versions'[v].state = versions[v].state
    BY <1>1, <2>3 DEF BytesInv, Shape, RowFields
  <2>5. Rows' = Rows /\ Live' = Live /\ Dead' = Dead
    BY <2>4 DEF Rows, Live, Dead
  <2>6. Sound(x, Rows, Dead, DOMAIN objects)
    BY <1>1, <2>2, <2>3 DEF Sound
  <2>7. current' \in Rows /\ DOMAIN turns' = Request /\ \A q \in Request : turns'[q] \in Rows \cup {Null}
    BY <1>1 DEF BytesInv, Shape
  <2>. QED BY <1>1, <2>1, <2>2, <2>4, <2>5, <2>6, <2>7, StepKeeps
<1>2. CASE ClearHash(r)
  BY <1>1, <1>2 DEF ClearHash, At
<1>3. CASE SetHash(r)
  <2>1. /\ (IF requests[r].op = "resolve" THEN "status" ELSE "edits") \in {"put", "status", "edits"}
        /\ (IF requests[r].op = "resolve" THEN "status" ELSE "edits") # "put"
    OBVIOUS
  <2>. QED BY <1>1, <1>3, <2>1 DEF SetHash, At
<1>4. CASE Point(r)
  <2>1. /\ Ends(r) /\ UNCHANGED <<versions, objects>> /\ current' = requests[r].row
        /\ requests[r].row \in Rows
        /\ turns' \in {turns, [turns EXCEPT ![r] = requests[r].row]}
    BY <1>4 DEF Point, At, Sound
  <2>2. DOMAIN turns' = Request /\ \A q \in Request : turns'[q] \in Rows \cup {Null}
    BY <2>1 DEF BytesInv, Shape
  <2>3. Rows' = Rows /\ Live' = Live /\ Dead' = Dead
    BY <2>1 DEF Rows, Live, Dead
  <2>4. DOMAIN versions' = Version /\ \A v \in Version : DOMAIN versions'[v] = RowFields
    BY <2>1 DEF BytesInv, Shape
  <2>5. DOMAIN Idle = RequestFields /\ Sound(Idle, Rows, Dead, DOMAIN objects) /\ Idle.path = Null
    BY DEF Idle, RequestFields, Sound
  <2>. QED BY <2>1, <2>2, <2>3, <2>4, <2>5, StepKeeps DEF Ends
<1>5. CASE Repoint(r)
  <2> DEFINE x == [requests[r] EXCEPT !.pc = "remove"]
  <2>1. /\ UNCHANGED <<versions, objects, turns>> /\ current' = requests[r].row
        /\ requests' = [requests EXCEPT ![r] = x]
        /\ requests[r].row \in Rows /\ requests[r].path \in Rows
    BY <1>5 DEF Repoint, At, Goes, Sound
  <2>2. DOMAIN turns' = Request /\ \A q \in Request : turns'[q] \in Rows \cup {Null}
    BY <2>1 DEF BytesInv, Shape
  <2>3. Rows' = Rows /\ Live' = Live /\ Dead' = Dead
    BY <2>1 DEF Rows, Live, Dead
  <2>4. DOMAIN versions' = Version /\ \A v \in Version : DOMAIN versions'[v] = RowFields
    BY <2>1 DEF BytesInv, Shape
  <2>5. DOMAIN x = RequestFields /\ x.path = requests[r].path /\ Sound(x, Rows, Dead, DOMAIN objects)
    BY <2>1 DEF Sound, RequestFields
  <2> HIDE DEF x
  <2>. QED BY <2>1, <2>2, <2>3, <2>4, <2>5, StepKeeps
<1>6. CASE SoftDelete(r)
  <2> DEFINE x == [requests[r] EXCEPT !.pc = "wipe"]
             target == requests[r].path
  <2>1. /\ UNCHANGED <<current, objects, turns>>
        /\ versions' = [versions EXCEPT ![target].state = "deleted"]
        /\ requests' = [requests EXCEPT ![r] = x]
        /\ target \in Rows
    BY <1>6 DEF SoftDelete, At, Goes, Sound
  <2>2. /\ DOMAIN versions' = Version
        /\ \A v \in Version : DOMAIN versions'[v] = RowFields
        /\ versions'[target].state = "deleted"
        /\ \A v \in Version \ {target} : versions'[v].state = versions[v].state
    BY <2>1 DEF BytesInv, Shape, RowFields
  <2>3. Rows' = Rows /\ Live' = Live \ {target} /\ Dead' = Dead \cup {target}
    BY <2>1, <2>2 DEF Rows, Live, Dead
  <2>4. DOMAIN x = RequestFields /\ x.path = target /\ Sound(x, Rows', Dead', DOMAIN objects)
    BY <2>1, <2>3 DEF Sound, RequestFields
  <2>5. current' \in Rows /\ DOMAIN turns' = Request /\ \A q \in Request : turns'[q] \in Rows \cup {Null}
    BY <2>1 DEF BytesInv, Shape
  <2> HIDE DEF x
  <2>. QED BY <2>1, <2>2, <2>3, <2>4, <2>5, StepKeeps
<1>. QED BY <1>2, <1>3, <1>4, <1>5, <1>6

\* Storing bytes adds an object; wiping takes those of a deleted row only.
LEMMA StoreKeepsBytes ==
  ASSUME BytesInv, NEW r \in Request, Put(r) \/ Wipe(r)
  PROVE  BytesInv'
<1>. USE Known
<1>1. UNCHANGED <<versions, current, turns>>
  BY DEF Put, Wipe
<1>2. Rows' = Rows /\ Live' = Live /\ Dead' = Dead
  BY <1>1 DEF Rows, Live, Dead
<1>3. /\ DOMAIN versions' = Version /\ \A v \in Version : DOMAIN versions'[v] = RowFields
      /\ current' \in Rows
      /\ DOMAIN turns' = Request /\ \A q \in Request : turns'[q] \in Rows \cup {Null}
  BY <1>1 DEF BytesInv, Shape
<1>4. CASE Put(r)
  <2> DEFINE pc == IF requests[r].row = Null THEN "number" ELSE "hash"
             x == [requests[r] EXCEPT !.pc = pc]
  <2>1. requests' = [requests EXCEPT ![r] = x] /\ requests[r].pc = "put"
    BY <1>4 DEF Put, Goes, At
  <2>2. DOMAIN objects' = DOMAIN objects \cup {requests[r].path}
    BY <1>4 DEF Put
  <2>3. DOMAIN x = RequestFields /\ x.path = requests[r].path /\ x.row = requests[r].row /\ x.pc = pc
    BY DEF RequestFields
  <2> HIDE DEF x
  <2>4. Sound(x, Rows, Dead, DOMAIN objects')
    BY <2>1, <2>2, <2>3 DEF Sound
  <2>. QED BY <1>2, <1>3, <2>1, <2>2, <2>3, <2>4, StepKeeps
<1>5. CASE Wipe(r)
  <2>1. DOMAIN objects' = DOMAIN objects \ {requests[r].path} /\ requests[r].path \in Dead
    BY <1>5 DEF Wipe, At, Sound
  <2>2. DOMAIN Idle = RequestFields /\ Sound(Idle, Rows, Dead, DOMAIN objects') /\ Idle.path = Null
    BY DEF Idle, RequestFields, Sound
  <2>. QED BY <1>2, <1>3, <1>5, <2>1, <2>2, StepKeeps DEF Wipe, Ends
<1>. QED BY <1>4, <1>5

\* A row is inserted under a key whose object is stored and that nobody else
\* knows, so that whatever others know of keys without rows stays true.
LEMMA InsertKeepsBytes ==
  ASSUME BytesInv, NEW r \in Request, InsertVersion(r)
  PROVE  BytesInv'
<1>. USE Known
<1> DEFINE pc == IF requests[r].op = "edit" THEN "edits" ELSE "point"
           path == requests[r].path
           x == [requests[r] EXCEPT !.pc = pc, !.row = path]
<1>1. UNCHANGED <<current, objects, turns>>
  BY DEF InsertVersion
<1>2. path \in DOMAIN objects \ Rows /\ path \in Version /\ path # Null
  BY DEF InsertVersion, At, Sound
<1>3. CASE Ends(r) /\ UNCHANGED versions
  BY <1>1, <1>3, Ending
<1>4. ASSUME versions' = [versions EXCEPT ![path] =
               [state |-> "live", number |-> requests[r].number, hash |-> requests[r].bytes]],
             requests' = [requests EXCEPT ![r].pc = pc, ![r].row = path]
      PROVE  BytesInv'
  <2>1. DOMAIN x = RequestFields /\ x.path = path /\ x.row = path /\ x.pc = pc
    BY DEF RequestFields
  <2>2. /\ DOMAIN requests' = Request /\ requests'[r] = x
        /\ \A q \in Request : q # r => requests'[q] = requests[q]
    BY <1>4 DEF BytesInv, Shape
  <2>3. /\ DOMAIN versions' = Version
        /\ \A v \in Version : DOMAIN versions'[v] = RowFields
        /\ versions'[path].state = "live"
        /\ \A v \in Version \ {path} : versions'[v].state = versions[v].state
    BY <1>2, <1>4 DEF BytesInv, Shape, RowFields
  <2>4. Rows' = Rows \cup {path} /\ Live' = Live \cup {path} /\ Dead' = Dead
    BY <1>2, <2>3 DEF Rows, Live, Dead
  <2> HIDE DEF x, path
  <2>5. Sound(x, Rows', Dead', DOMAIN objects')
    BY <1>1, <1>2, <2>1, <2>4 DEF Sound
  <2>6. ASSUME NEW q \in Request, q # r
        PROVE  Sound(requests[q], Rows', Dead', DOMAIN objects')
    <3>1. requests[q].path # path
      BY <1>2, <2>6 DEF BytesInv, Reserved, path
    <3>2. Sound(requests[q], Rows, Dead, DOMAIN objects)
      BY <2>6
    <3>. QED BY <1>1, <2>4, <3>1, <3>2 DEF Sound
  <2>7. Shape'
    BY <1>1, <2>1, <2>2, <2>3 DEF BytesInv, Shape
  <2>8. Reserved'
    BY <2>1, <2>2, <2>4 DEF BytesInv, Reserved, path
  <2>9. LiveVersionHasBytes'
    BY <1>1, <1>2, <2>4 DEF BytesInv, LiveVersionHasBytes
  <2>10. current' \in Rows' /\ \A q \in Request : turns'[q] \in Rows' \cup {Null}
    BY <1>1, <2>4 DEF BytesInv
  <2>. QED BY <2>2, <2>5, <2>6, <2>7, <2>8, <2>9, <2>10 DEF BytesInv
<1>. QED BY <1>3, <1>4 DEF InsertVersion

\* The end of a chat turn forgets its version, and nothing else happens.
LEMMA TurnKeepsBytes ==
  ASSUME BytesInv, NEW r \in Request, TurnEnds(r)
  PROVE  BytesInv'
<1>1. UNCHANGED <<versions, current, objects, requests>> /\ turns' = [turns EXCEPT ![r] = Null]
  BY DEF TurnEnds
<1>2. Rows' = Rows /\ Live' = Live /\ Dead' = Dead
  BY <1>1 DEF Rows, Live, Dead
<1>. QED BY <1>1, <1>2 DEF BytesInv, Shape, Reserved, LiveVersionHasBytes

\* No step breaks the invariant.
LEMMA NextKeepsBytes == BytesInv /\ [Next]_vars => BytesInv'
<1> SUFFICES ASSUME BytesInv, [Next]_vars PROVE BytesInv'
  OBVIOUS
<1>1. CASE UNCHANGED vars
  BY <1>1 DEF vars, BytesInv, Shape, Rows, Dead, Live, Reserved, LiveVersionHasBytes
<1>2. CASE Next
  <2>1. PICK r \in Request :
          \/ \E e \in Edit : Resolve(r, e) \/ RunEditDocument(r, e)
          \/ \E v \in Version : CopyIntoVersion(r, v) \/ DeleteVersion(r, v)
          \/ LoadForResolution(r) \/ SetStatus(r)
          \/ LoadForEdit(r) \/ InsertEdits(r) \/ TurnEnds(r)
          \/ ClearHash(r) \/ Put(r) \/ SetHash(r)
          \/ ReadNumber(r) \/ InsertVersion(r) \/ Point(r)
          \/ ReadRows(r) \/ Repoint(r) \/ SoftDelete(r) \/ Wipe(r)
          \/ Dies(r)
    BY <1>2 DEF Next
  <2>. QED BY <2>1, ReadsKeepBytes, LookupsKeepBytes, RowWritesKeepBytes, StoreKeepsBytes,
              InsertKeepsBytes, TurnKeepsBytes
<1>. QED BY <1>1, <1>2

LEMMA BytesInvHolds == Spec => []BytesInv
  BY InitBytes, NextKeepsBytes, PTL DEF Spec

\* Whatever the requests, however many of them run side by side and wherever
\* they die: a version that is listed has its bytes in the store
\* (runEditDocument's order of upload and insert, and that of a deletion).
THEOREM LiveVersionsHaveBytes == Spec => []LiveVersionHasBytes
<1>1. BytesInv => LiveVersionHasBytes
  BY DEF BytesInv
<1>. QED BY BytesInvHolds, <1>1, PTL

-----------------------------------------------------------------------------
(* Numbers *)

\* The rows are numbered without gaps, and a request that is about to insert
\* has a number that was free when it was read.
Numbered(k) ==
  /\ {versions[v].number : v \in Rows} = 1 .. k
  /\ \A r \in Request : At(r, "insert") => requests[r].number \in 1 .. k + 1

NumberInv == BytesInv /\ \E k \in Nat \ {0} : Numbered(k)

LEMMA MaxOfInterval == \A k \in Nat \ {0} : Max(1 .. k) = k
<1> TAKE k \in Nat \ {0}
<1>1. k \in 1 .. k /\ \A y \in 1 .. k : k >= y
  OBVIOUS
<1>2. \A x \in 1 .. k : (\A y \in 1 .. k : x >= y) => x = k
  OBVIOUS
<1>. QED BY <1>1, <1>2 DEF Max

LEMMA InitNumbers == Init => NumberInv
<1> SUFFICES ASSUME Init PROVE NumberInv
  OBVIOUS
<1>1. Rows = {First} /\ versions[First].number = 1
  BY VersionsAssumption DEF Init, Rows
<1>2. \A r \in Request : ~At(r, "insert")
  BY DEF Init, At, Idle
<1>3. Numbered(1)
  BY <1>1, <1>2 DEF Numbered
<1>. QED BY <1>3, InitBytes DEF NumberInv

\* Only an insertion adds a row; no other step gives or takes a number, and
\* none but the reading of the highest one leads to an insertion.
LEMMA OthersKeepNumbers ==
  ASSUME NEW k \in Nat \ {0}, Numbered(k),
         Rows' = Rows, \A v \in Rows : versions'[v].number = versions[v].number,
         \A q \in Request : \/ requests'[q] = requests[q]
                            \/ requests'[q].pc # "insert"
                            \/ requests'[q].number \in 1 .. k + 1
  PROVE  Numbered(k)'
<1>1. {versions'[v].number : v \in Rows'} = {versions[v].number : v \in Rows}
  OBVIOUS
<1>. QED BY <1>1 DEF Numbered, At

\* Every step but two: rows keep their numbers and nobody comes to an insertion.
Unnumbered ==
  /\ Rows' = Rows
  /\ \A v \in Rows : versions'[v].number = versions[v].number
  /\ \A q \in Request : requests'[q] = requests[q] \/ requests'[q].pc # "insert"

LEMMA StepIsUnnumbered ==
  ASSUME BytesInv, BytesInv', NEW r \in Request,
         \/ \E e \in Edit : Resolve(r, e) \/ RunEditDocument(r, e)
         \/ \E v \in Version : CopyIntoVersion(r, v) \/ DeleteVersion(r, v)
         \/ LoadForResolution(r) \/ SetStatus(r)
         \/ LoadForEdit(r) \/ InsertEdits(r) \/ TurnEnds(r)
         \/ ClearHash(r) \/ Put(r) \/ SetHash(r) \/ Point(r)
         \/ ReadRows(r) \/ Repoint(r) \/ SoftDelete(r) \/ Wipe(r)
         \/ Dies(r)
  PROVE  Unnumbered
<1>s. /\ DOMAIN requests = Request /\ \A q \in Request : DOMAIN requests[q] = RequestFields
      /\ DOMAIN versions = Version /\ \A v \in Version : DOMAIN versions[v] = RowFields
  BY DEF BytesInv, Shape
<1>i. DOMAIN Idle = RequestFields /\ Idle.pc = "none"
  BY DEF Idle, RequestFields
<1>u. UNCHANGED versions =>
        Rows' = Rows /\ \A v \in Rows : versions'[v].number = versions[v].number
  BY DEF Rows
<1>m. ASSUME NEW x, requests' = [requests EXCEPT ![r] = x], x.pc # "insert"
      PROVE  \A q \in Request : requests'[q] = requests[q] \/ requests'[q].pc # "insert"
  BY <1>s, <1>m
<1>e. Ends(r) => \A q \in Request : requests'[q] = requests[q] \/ requests'[q].pc # "insert"
  BY <1>m, <1>i DEF Ends
<1>g. ASSUME NEW pc, Goes(r, pc), pc # "insert"
      PROVE  \A q \in Request : requests'[q] = requests[q] \/ requests'[q].pc # "insert"
  <2> DEFINE x == [requests[r] EXCEPT !.pc = pc]
  <2>1. x.pc # "insert" /\ requests' = [requests EXCEPT ![r] = x]
    BY <1>s, <1>g DEF Goes, RequestFields
  <2>. QED BY <2>1, <1>m
<1>1. ASSUME NEW e \in Edit, Resolve(r, e) \/ RunEditDocument(r, e) PROVE Unnumbered
  <2> DEFINE x == [Idle EXCEPT !.op = "resolve", !.pc = "resolve", !.edit = e, !.row = current]
             y == [Idle EXCEPT !.op = "edit", !.pc = "edit", !.edit = e,
                               !.row = turns[r], !.path = turns[r]]
  <2>0. x.pc # "insert" /\ y.pc # "insert"
    BY DEF Idle
  <2>1. requests' = [requests EXCEPT ![r] = x] \/ requests' = [requests EXCEPT ![r] = y]
    BY <1>1 DEF Resolve, RunEditDocument, Starts
  <2> HIDE DEF x, y
  <2>. QED BY <1>1, <1>u, <1>m, <2>0, <2>1 DEF Unnumbered, Resolve, RunEditDocument
<1>2. ASSUME NEW v \in Version, CopyIntoVersion(r, v) \/ DeleteVersion(r, v) PROVE Unnumbered
  <2> DEFINE x == [Idle EXCEPT !.op = "copy", !.pc = "put", !.path = v,
                               !.bytes = [base |-> v, open |-> {}, decided |-> {}]]
             y == [Idle EXCEPT !.op = "delete", !.pc = "rows", !.path = v, !.row = current]
  <2>0. x.pc # "insert" /\ y.pc # "insert"
    BY DEF Idle
  <2>1. requests' = [requests EXCEPT ![r] = x] \/ requests' = [requests EXCEPT ![r] = y]
    BY <1>2 DEF CopyIntoVersion, DeleteVersion, Starts
  <2> HIDE DEF x, y
  <2>. QED BY <1>2, <1>u, <1>m, <2>0, <2>1 DEF Unnumbered, CopyIntoVersion, DeleteVersion
<1>3. CASE LoadForResolution(r)
  <2>1. ASSUME NEW bytes,
               requests' = [requests EXCEPT ![r].pc = "clear", ![r].path = current, ![r].bytes = bytes]
        PROVE  \A q \in Request : requests'[q] = requests[q] \/ requests'[q].pc # "insert"
    BY <1>s, <2>1 DEF RequestFields
  <2>. QED BY <1>3, <1>u, <1>e, <1>g, <2>1 DEF Unnumbered, LoadForResolution
<1>4. CASE LoadForEdit(r)
  <2>1. ASSUME NEW bytes, NEW v, NEW pc \in {"put", "clear"},
               requests' = [requests EXCEPT ![r].pc = pc, ![r].path = v, ![r].bytes = bytes]
        PROVE  \A q \in Request : requests'[q] = requests[q] \/ requests'[q].pc # "insert"
    BY <1>s, <2>1 DEF RequestFields
  <2>. QED BY <1>4, <1>u, <1>e, <2>1 DEF Unnumbered, LoadForEdit
<1>5. CASE ReadRows(r)
  <2>1. ASSUME NEW next,
               requests' = [requests EXCEPT ![r].pc = "repoint", ![r].row = next]
        PROVE  \A q \in Request : requests'[q] = requests[q] \/ requests'[q].pc # "insert"
    BY <1>s, <2>1 DEF RequestFields
  <2>. QED BY <1>5, <1>u, <1>e, <1>g, <2>1 DEF Unnumbered, ReadRows
<1>6. CASE SetStatus(r) \/ InsertEdits(r) \/ TurnEnds(r) \/ Put(r) \/ Point(r)
           \/ Repoint(r) \/ Wipe(r) \/ Dies(r)
  BY <1>6, <1>u, <1>e, <1>g
  DEF Unnumbered, SetStatus, InsertEdits, TurnEnds, Put, Point, Repoint, Wipe, Dies
<1>7. CASE ClearHash(r) \/ SetHash(r)
  <2>1. \E hash : versions' = [versions EXCEPT ![requests[r].row].hash = hash]
    BY <1>7 DEF ClearHash, SetHash
  <2>2. \A v \in Version : /\ versions'[v].state = versions[v].state
                           /\ versions'[v].number = versions[v].number
    BY <1>s, <2>1 DEF RowFields
  <2>. QED BY <1>7, <1>g, <2>2 DEF Unnumbered, Rows, ClearHash, SetHash
<1>8. CASE SoftDelete(r)
  <2>1. versions' = [versions EXCEPT ![requests[r].path].state = "deleted"]
        /\ requests[r].path \in Rows
    BY <1>8, Known DEF SoftDelete, At, Sound
  <2>2. \A v \in Version : /\ versions'[v].state \in {versions[v].state, "deleted"}
                           /\ versions'[v].state # versions[v].state => v \in Rows
                           /\ versions'[v].number = versions[v].number
    BY <1>s, <2>1 DEF RowFields
  <2>. QED BY <1>8, <1>g, <2>2 DEF Unnumbered, Rows, SoftDelete
<1>. QED BY <1>1, <1>2, <1>3, <1>4, <1>5, <1>6, <1>7, <1>8

\* An insertion that is not refused takes the next number; every other step
\* leaves the numbers as they are.
LEMMA StepNumbers ==
  ASSUME BytesInv, BytesInv', [Next]_vars, NEW k \in Nat \ {0}, Numbered(k)
  PROVE  \/ Numbered(k)' /\ Rows' = Rows
         \/ /\ Numbered(k + 1)'
            /\ \A v \in Rows' \ Rows : versions'[v].number = k + 1
<1>s. /\ DOMAIN requests = Request /\ \A q \in Request : DOMAIN requests[q] = RequestFields
      /\ DOMAIN versions = Version /\ \A v \in Version : DOMAIN versions[v] = RowFields
  BY DEF BytesInv, Shape
<1>u. Unnumbered => Numbered(k)' /\ Rows' = Rows
  BY OthersKeepNumbers DEF Unnumbered
<1>1. ASSUME NEW r \in Request, ReadNumber(r) PROVE Numbered(k)' /\ Rows' = Rows
  <2>1. UNCHANGED versions /\ requests' = [requests EXCEPT ![r].pc = "insert", ![r].number = 1 + k]
    BY <1>1, MaxOfInterval DEF ReadNumber, Numbered
  <2>2. Rows' = Rows /\ \A v \in Rows : versions'[v].number = versions[v].number
    BY <2>1 DEF Rows
  <2>3. \A q \in Request : requests'[q] = requests[q] \/ requests'[q].number = k + 1
    BY <1>s, <2>1 DEF RequestFields
  <2>. QED BY <2>2, <2>3, OthersKeepNumbers
<1>2. ASSUME NEW r \in Request, InsertVersion(r), Refused(r)
      PROVE  Numbered(k)' /\ Rows' = Rows
  <2>1. Ends(r) /\ UNCHANGED versions
    BY <1>2 DEF InsertVersion
  <2>2. \A q \in Request : requests'[q] = requests[q] \/ requests'[q].pc # "insert"
    BY <1>s, <2>1 DEF Ends, Idle
  <2>. QED BY <1>u, <2>1, <2>2 DEF Unnumbered, Rows
<1>3. ASSUME NEW r \in Request, InsertVersion(r), ~Refused(r)
      PROVE  /\ Numbered(k + 1)'
             /\ \A v \in Rows' \ Rows : versions'[v].number = k + 1
  <2> DEFINE path == requests[r].path
             pc == IF requests[r].op = "edit" THEN "edits" ELSE "point"
  <2>1. /\ At(r, "insert")
        /\ versions' = [versions EXCEPT ![path] =
             [state |-> "live", number |-> requests[r].number, hash |-> requests[r].bytes]]
        /\ requests' = [requests EXCEPT ![r].pc = pc, ![r].row = path]
    BY <1>3 DEF InsertVersion
  <2>2. path \in Version \ Rows
    BY <2>1, Known DEF At, Sound
  <2>3. requests[r].number = k + 1
    <3>1. requests[r].number \in 1 .. k + 1
      BY <2>1 DEF Numbered
    <3>2. requests[r].number \notin 1 .. k
      BY <1>3 DEF Refused, Numbered
    <3>. QED BY <3>1, <3>2
  <2>4. /\ versions'[path].state = "live" /\ versions'[path].number = k + 1
        /\ \A v \in Version : v # path => versions'[v] = versions[v]
    BY <1>s, <2>1, <2>2, <2>3
  <2>5. Rows' = Rows \cup {path}
    BY <2>2, <2>4 DEF Rows
  <2>6. {versions'[v].number : v \in Rows'} = {versions[v].number : v \in Rows} \cup {k + 1}
    BY <2>2, <2>4, <2>5 DEF Rows
  <2>7. {versions'[v].number : v \in Rows'} = 1 .. k + 1
    BY <2>6 DEF Numbered
  <2>8. \A q \in Request : requests'[q] = requests[q] \/ requests'[q].pc # "insert"
    BY <1>s, <2>1 DEF RequestFields
  <2>9. \A q \in Request : At(q, "insert")' => requests'[q].number \in 1 .. (k + 1) + 1
    <3> SUFFICES ASSUME NEW q \in Request, At(q, "insert")'
                 PROVE  requests'[q].number \in 1 .. (k + 1) + 1
      OBVIOUS
    <3>1. requests'[q] = requests[q]
      BY <2>8 DEF At
    <3>2. requests[q].number \in 1 .. k + 1
      BY <3>1 DEF Numbered, At
    <3>. QED BY <3>1, <3>2
  <2>. QED BY <2>4, <2>5, <2>7, <2>9 DEF Numbered
<1>4. CASE UNCHANGED vars
  BY <1>4, <1>u DEF vars, Unnumbered, Rows
<1>. QED BY <1>u, <1>1, <1>2, <1>3, <1>4, StepIsUnnumbered DEF Next

LEMMA NextNumbers == NumberInv /\ [Next]_vars => NumberInv'
<1> SUFFICES ASSUME NumberInv, [Next]_vars PROVE NumberInv'
  OBVIOUS
<1>1. PICK k \in Nat \ {0} : Numbered(k)
  BY DEF NumberInv
<1>2. BytesInv /\ BytesInv'
  BY NextKeepsBytes DEF NumberInv
<1>3. k + 1 \in Nat \ {0}
  OBVIOUS
<1>. QED BY <1>1, <1>2, <1>3, StepNumbers DEF NumberInv

\* The number shown as "Vn" orders versions by the insertion of their rows,
\* with any number of requests reading the highest number early: a row gets a
\* number above that of every row there is, deleted ones included.
THEOREM NumbersCorrect == Spec => NumbersFollowInsertion
<1>1. NumberInv /\ NumberInv' /\ [Next]_vars =>
        [\A v \in Rows' \ Rows : \A u \in Rows : versions[u].number < versions'[v].number]_vars
  <2> SUFFICES ASSUME NumberInv, NumberInv', [Next]_vars,
                      NEW v \in Rows' \ Rows, NEW u \in Rows
               PROVE  versions[u].number < versions'[v].number
    OBVIOUS
  <2>1. PICK k \in Nat \ {0} : Numbered(k)
    BY DEF NumberInv
  <2>2. versions'[v].number = k + 1
    BY <2>1, StepNumbers DEF NumberInv
  <2>3. versions[u].number \in 1 .. k
    BY <2>1 DEF Numbered
  <2>. QED BY <2>2, <2>3
<1>2. Spec => []NumberInv
  BY InitNumbers, NextNumbers, PTL DEF Spec
<1>. QED BY <1>1, <1>2, PTL DEF Spec, NumbersFollowInsertion

-----------------------------------------------------------------------------
(* Hashes *)

\* What a request that is alone knows of the row and the object it works on.
Exact(x, vs, objs, cur) ==
  /\ x.pc = "resolve" => x.row = cur
  /\ x.pc \in {"clear", "hash"} => x.path = x.row
  /\ x.pc = "put" /\ x.row # Null => x.path = x.row /\ vs[x.row].hash = Null
  /\ x.pc = "hash" => vs[x.row].hash = Null
  /\ x.pc \in {"hash", "number", "insert"} => objs[x.path] = x.bytes

Attested(vs, objs) ==
  \A v \in Version : vs[v].state = "live" => vs[v].hash \in {Null, objs[v]}

\* Until two requests were under way together, at most one is.
Alone ==
  /\ \A r, q \in Request : requests[r] # Idle /\ requests[q] # Idle => r = q
  /\ \A r \in Request : Exact(requests[r], versions, objects, current)
  /\ Attested(versions, objects)

AloneInv == BytesInv /\ overlapped \in BOOLEAN /\ (overlapped = FALSE => Alone)

LEMMA InitAlone == Init => AloneInv
<1> SUFFICES ASSUME Init PROVE AloneInv
  OBVIOUS
<1>1. \A r \in Request : requests[r] = Idle
  BY DEF Init
<1>2. Idle.pc = "none"
  BY DEF Idle
<1>3. Attested(versions, objects)
  BY DEF Init, Attested
<1>. QED BY <1>1, <1>2, <1>3, InitBytes DEF AloneInv, Alone, Exact, Init

\* A step of the one request under way.
LEMMA AloneStep ==
  ASSUME AloneInv, BytesInv', overlapped = FALSE, overlapped' = FALSE, NEW r \in Request, NEW x,
         \A q \in Request \ {r} : requests[q] = Idle,
         requests' = [requests EXCEPT ![r] = x],
         Exact(x, versions', objects', current'), Attested(versions', objects')
  PROVE  AloneInv'
<1>1. DOMAIN requests = Request
  BY DEF AloneInv, BytesInv, Shape
<1>2. requests'[r] = x /\ \A q \in Request \ {r} : requests'[q] = Idle
  BY <1>1
<1>3. \A vs, objs, cur : Exact(Idle, vs, objs, cur)
  BY DEF Exact, Idle
<1>. QED BY <1>2, <1>3 DEF AloneInv, Alone

\* The fields of a request and of a row, and who else is under way.
LEMMA AloneFacts ==
  ASSUME AloneInv, overlapped = FALSE, NEW r \in Request
  PROVE  /\ Alone
         /\ requests[r].pc # "none" => \A q \in Request \ {r} : requests[q] = Idle
         /\ DOMAIN requests[r] = RequestFields
         /\ Exact(requests[r], versions, objects, current)
         /\ Attested(versions, objects)
         /\ \A v \in Version : DOMAIN versions[v] = RowFields
         /\ DOMAIN versions = Version
BY DEF AloneInv, Alone, BytesInv, Shape, Idle

\* The steps that only move a request.
LEMMA AloneReads ==
  ASSUME AloneInv, BytesInv', overlapped = FALSE, overlapped' = FALSE, NEW r \in Request,
         \/ \E e \in Edit : Resolve(r, e) \/ RunEditDocument(r, e)
         \/ \E v \in Version : CopyIntoVersion(r, v) \/ DeleteVersion(r, v)
  PROVE  AloneInv'
<1>i. \A q \in Request \ {r} : requests[q] = Idle
  BY DEF Resolve, RunEditDocument, CopyIntoVersion, DeleteVersion, Starts
<1>a. Attested(versions, objects)
  BY AloneFacts
<1>u. UNCHANGED <<versions, objects, current>>
  BY DEF Resolve, RunEditDocument, CopyIntoVersion, DeleteVersion
<1>1. ASSUME NEW e \in Edit, Resolve(r, e) PROVE AloneInv'
  <2> DEFINE x == [Idle EXCEPT !.op = "resolve", !.pc = "resolve", !.edit = e, !.row = current]
  <2>1. requests' = [requests EXCEPT ![r] = x]
    BY <1>1 DEF Resolve, Starts
  <2>2. Exact(x, versions, objects, current)
    BY DEF Exact, Idle
  <2> HIDE DEF x
  <2>. QED BY <1>i, <1>a, <1>u, <2>1, <2>2, AloneStep
<1>2. ASSUME NEW e \in Edit, RunEditDocument(r, e) PROVE AloneInv'
  <2> DEFINE x == [Idle EXCEPT !.op = "edit", !.pc = "edit", !.edit = e,
                               !.row = turns[r], !.path = turns[r]]
  <2>1. requests' = [requests EXCEPT ![r] = x]
    BY <1>2 DEF RunEditDocument, Starts
  <2>2. Exact(x, versions, objects, current)
    BY DEF Exact, Idle
  <2> HIDE DEF x
  <2>. QED BY <1>i, <1>a, <1>u, <2>1, <2>2, AloneStep
<1>3. ASSUME NEW v \in Version, CopyIntoVersion(r, v) PROVE AloneInv'
  <2> DEFINE x == [Idle EXCEPT !.op = "copy", !.pc = "put", !.path = v,
                               !.bytes = [base |-> v, open |-> {}, decided |-> {}]]
  <2>1. requests' = [requests EXCEPT ![r] = x]
    BY <1>3 DEF CopyIntoVersion, Starts
  <2>2. Exact(x, versions, objects, current)
    BY DEF Exact, Idle
  <2> HIDE DEF x
  <2>. QED BY <1>i, <1>a, <1>u, <2>1, <2>2, AloneStep
<1>4. ASSUME NEW v \in Version, DeleteVersion(r, v) PROVE AloneInv'
  <2> DEFINE x == [Idle EXCEPT !.op = "delete", !.pc = "rows", !.path = v, !.row = current]
  <2>1. requests' = [requests EXCEPT ![r] = x]
    BY <1>4 DEF DeleteVersion, Starts
  <2>2. Exact(x, versions, objects, current)
    BY DEF Exact, Idle
  <2> HIDE DEF x
  <2>. QED BY <1>i, <1>a, <1>u, <2>1, <2>2, AloneStep
<1>. QED BY <1>1, <1>2, <1>3, <1>4

\* The end of a request, wherever it is, leaves every hash as it was.
LEMMA AloneEnds ==
  ASSUME AloneInv, BytesInv', overlapped = FALSE, overlapped' = FALSE, NEW r \in Request,
         requests[r] # Idle, Ends(r), UNCHANGED <<versions, objects>>
  PROVE  AloneInv'
<1>1. \A vs, objs, cur : Exact(Idle, vs, objs, cur)
  BY DEF Exact, Idle
<1>2. Attested(versions, objects) /\ \A q \in Request \ {r} : requests[q] = Idle
  BY DEF AloneInv, Alone
<1>. QED BY <1>1, <1>2, AloneStep DEF Ends

\* The steps on the way, and the writes: a hash is cleared before the object
\* under its row is replaced, and set to what was stored.
LEMMA AloneWrites ==
  ASSUME AloneInv, BytesInv', overlapped = FALSE, overlapped' = FALSE, NEW r \in Request,
         \/ LoadForResolution(r) \/ SetStatus(r)
         \/ LoadForEdit(r) \/ InsertEdits(r)
         \/ ClearHash(r) \/ Put(r) \/ SetHash(r)
         \/ ReadNumber(r) \/ InsertVersion(r) \/ Point(r)
         \/ ReadRows(r) \/ Repoint(r) \/ SoftDelete(r) \/ Wipe(r)
         \/ Dies(r)
  PROVE  AloneInv'
<1> USE AloneFacts
<1>b. BytesInv /\ Sound(requests[r], Rows, Dead, DOMAIN objects)
  BY Known DEF AloneInv
<1>n. requests[r] # Idle
  <2>1. Idle.pc = "none"
    BY DEF Idle
  <2>2. requests[r].pc # "none" \/ Dies(r)
    BY DEF LoadForResolution, SetStatus, LoadForEdit, InsertEdits, ClearHash, Put, SetHash,
           ReadNumber, InsertVersion, Point, ReadRows, Repoint, SoftDelete, Wipe, At
  <2>. QED BY <2>1, <2>2 DEF Dies
<1>i. \A q \in Request \ {r} : requests[q] = Idle
  BY <1>n DEF Alone
<1>p. Attested(versions, objects) /\ Exact(requests[r], versions, objects, current)
  OBVIOUS
\* A step to a place of which nothing is to be shown.
<1>g. ASSUME NEW pc \in {"status", "edits", "point", "remove", "wipe", "rows", "none"},
             Goes(r, pc), Attested(versions', objects')
      PROVE  AloneInv'
  <2> DEFINE x == [requests[r] EXCEPT !.pc = pc]
  <2>1. x.pc = pc
    BY DEF RequestFields
  <2>2. requests' = [requests EXCEPT ![r] = x]
    BY <1>g DEF Goes
  <2> HIDE DEF x
  <2>3. Exact(x, versions', objects', current')
    BY <2>1 DEF Exact
  <2>. QED BY <1>g, <1>i, <2>2, <2>3, AloneStep
<1>1. CASE LoadForResolution(r)
  <2> DEFINE found == {m \in objects[current].open : m.id = edits[requests[r].edit].id}
             bytes == Collapsed(objects[current], found)
             x == [requests[r] EXCEPT !.pc = "clear", !.path = current, !.bytes = bytes]
  <2>1. UNCHANGED <<versions, objects, current>> /\ requests[r].row = current
    BY <1>1, <1>p DEF LoadForResolution, At, Exact
  <2>2. CASE requests' = [requests EXCEPT ![r] = x]
    <3> HIDE DEF bytes
    <3>1. x.pc = "clear" /\ x.path = current /\ x.row = current
      BY <2>1 DEF RequestFields
    <3> HIDE DEF x
    <3>2. Exact(x, versions, objects, current)
      BY <3>1 DEF Exact
    <3>. QED BY <1>i, <1>p, <2>1, <2>2, <3>2, AloneStep
  <2>. QED BY <1>1, <1>g, <1>n, <1>p, <2>1, <2>2, AloneEnds DEF LoadForResolution
<1>2. CASE LoadForEdit(r)
  <2>1. UNCHANGED <<versions, objects, current>> /\ requests[r].path = requests[r].row
    BY <1>2, <1>b DEF LoadForEdit, At, Sound
  <2>2. ASSUME NEW v \in Version, NEW bytes,
               requests[r].row # Null => v = requests[r].path,
               requests' = [requests EXCEPT
                 ![r].pc = IF requests[r].row = Null THEN "put" ELSE "clear",
                 ![r].path = v, ![r].bytes = bytes]
        PROVE  AloneInv'
    <3> DEFINE pc == IF requests[r].row = Null THEN "put" ELSE "clear"
               x == [requests[r] EXCEPT !.pc = pc, !.path = v, !.bytes = bytes]
    <3>1. requests' = [requests EXCEPT ![r] = x]
      BY <2>2
    <3>2. x.pc = pc /\ x.path = v /\ x.row = requests[r].row
      BY DEF RequestFields
    <3> HIDE DEF x
    <3>3. Exact(x, versions, objects, current)
      BY <2>1, <2>2, <3>2 DEF Exact
    <3>. QED BY <1>i, <1>p, <2>1, <3>1, <3>3, AloneStep
  <2>3. CASE Ends(r)
    BY <1>n, <2>1, <2>3, AloneEnds
  <2>. QED BY <1>2, <2>2, <2>3 DEF LoadForEdit
<1>3. CASE SetStatus(r) \/ Dies(r)
  BY <1>3, <1>n, AloneEnds DEF SetStatus, Dies
<1>4. CASE InsertEdits(r)
  BY <1>4, <1>g, <1>p DEF InsertEdits
<1>5. CASE ClearHash(r)
  <2> DEFINE x == [requests[r] EXCEPT !.pc = "put"]
             row == requests[r].row
  <2>1. /\ UNCHANGED <<current, objects>>
        /\ requests' = [requests EXCEPT ![r] = x]
        /\ versions' = [versions EXCEPT ![row].hash = Null]
        /\ row \in Version /\ requests[r].path = row
    BY <1>5, <1>b, <1>p, Known DEF ClearHash, At, Goes, Sound, Exact
  <2>2. x.pc = "put" /\ x.row = row /\ x.path = row
    BY <2>1 DEF RequestFields
  <2>3. /\ versions'[row].hash = Null
        /\ \A v \in Version \ {row} : versions'[v] = versions[v]
    BY <2>1 DEF RowFields
  <2> HIDE DEF x
  <2>4. Exact(x, versions', objects', current')
    BY <2>2, <2>3 DEF Exact
  <2>5. Attested(versions', objects')
    BY <1>p, <2>1, <2>3 DEF Attested
  <2>. QED BY <1>i, <2>1, <2>4, <2>5, AloneStep
<1>6. CASE Put(r)
  <2> DEFINE pc == IF requests[r].row = Null THEN "number" ELSE "hash"
             x == [requests[r] EXCEPT !.pc = pc]
             path == requests[r].path
  <2>1. /\ UNCHANGED <<current, versions>>
        /\ requests' = [requests EXCEPT ![r] = x]
        /\ objects' = [v \in DOMAIN objects \cup {path} |->
                         IF v = path THEN requests[r].bytes ELSE objects[v]]
    BY <1>6 DEF Put, Goes
  <2>2. x.pc = pc /\ x.row = requests[r].row /\ x.path = path /\ x.bytes = requests[r].bytes
    BY DEF RequestFields
  <2>3. \/ requests[r].row = Null /\ path \notin Rows
        \/ path = requests[r].row /\ requests[r].row # Null /\ versions[path].hash = Null
    BY <1>6, <1>b, <1>p DEF Put, At, Sound, Exact
  <2>4. objects'[path] = requests[r].bytes
    BY <2>1
  <2> HIDE DEF x
  <2>5. Exact(x, versions', objects', current')
    BY <2>1, <2>2, <2>3, <2>4 DEF Exact
  <2>6. \A v \in Live : v # path => objects'[v] = objects[v]
    BY <1>b, <2>1 DEF BytesInv, LiveVersionHasBytes
  <2>7. Attested(versions', objects')
    BY <1>p, <2>1, <2>3, <2>6 DEF Attested, Live, Rows
  <2>. QED BY <1>i, <2>1, <2>5, <2>7, AloneStep
<1>7. CASE SetHash(r)
  <2> DEFINE row == requests[r].row
             pc == IF requests[r].op = "resolve" THEN "status" ELSE "edits"
  <2>1. /\ UNCHANGED <<current, objects>>
        /\ versions' = [versions EXCEPT ![row].hash = requests[r].bytes]
        /\ objects[row] = requests[r].bytes
        /\ Goes(r, pc)
    BY <1>7, <1>p DEF SetHash, At, Exact
  <2>2. \A v \in Version : versions'[v].hash \in {versions[v].hash, objects[v]}
                           /\ versions'[v].state = versions[v].state
    BY <2>1 DEF RowFields
  <2>3. Attested(versions', objects')
    BY <1>p, <2>1, <2>2 DEF Attested
  <2>4. pc \in {"status", "edits"}
    OBVIOUS
  <2>. QED BY <1>g, <2>1, <2>3, <2>4
<1>8. CASE ReadNumber(r)
  <2> DEFINE n == 1 + Max({versions[v].number : v \in Rows})
             x == [requests[r] EXCEPT !.pc = "insert", !.number = n]
  <2>1. /\ UNCHANGED <<current, objects, versions>>
        /\ requests' = [requests EXCEPT ![r] = x]
        /\ objects[requests[r].path] = requests[r].bytes
    BY <1>8, <1>p DEF ReadNumber, At, Exact
  <2> HIDE DEF n
  <2>2. x.pc = "insert" /\ x.path = requests[r].path /\ x.bytes = requests[r].bytes
    BY DEF RequestFields
  <2> HIDE DEF x
  <2>3. Exact(x, versions, objects, current)
    BY <2>1, <2>2 DEF Exact
  <2>. QED BY <1>i, <1>p, <2>1, <2>3, AloneStep
<1>9. CASE InsertVersion(r)
  <2> DEFINE pc == IF requests[r].op = "edit" THEN "edits" ELSE "point"
             path == requests[r].path
             x == [requests[r] EXCEPT !.pc = pc, !.row = path]
             row == [state |-> "live", number |-> requests[r].number, hash |-> requests[r].bytes]
  <2>1. UNCHANGED <<current, objects>> /\ objects[path] = requests[r].bytes
    BY <1>9, <1>p DEF InsertVersion, At, Exact
  <2>2. CASE Ends(r) /\ UNCHANGED versions
    BY <1>n, <2>1, <2>2, AloneEnds
  <2>3. CASE /\ versions' = [versions EXCEPT ![path] = row]
             /\ requests' = [requests EXCEPT ![r] = x]
    <3>1. x.pc = pc
      BY DEF RequestFields
    <3> HIDE DEF x
    <3>2. Exact(x, versions', objects', current')
      BY <3>1 DEF Exact
    <3>3. Attested(versions', objects')
      BY <1>p, <2>1, <2>3 DEF Attested
    <3>. QED BY <1>i, <2>3, <3>2, <3>3, AloneStep
  <2>. QED BY <1>9, <2>2, <2>3 DEF InsertVersion
<1>10. CASE Point(r)
  BY <1>10, <1>n, AloneEnds DEF Point
<1>11. CASE ReadRows(r)
  <2>1. UNCHANGED <<current, objects, versions>>
    BY <1>11 DEF ReadRows
  <2>2. ASSUME NEW next,
               requests' = [requests EXCEPT ![r].pc = "repoint", ![r].row = next]
        PROVE  AloneInv'
    <3> DEFINE x == [requests[r] EXCEPT !.pc = "repoint", !.row = next]
    <3>1. x.pc = "repoint" /\ requests' = [requests EXCEPT ![r] = x]
      BY <2>2 DEF RequestFields
    <3> HIDE DEF x
    <3>2. Exact(x, versions, objects, current)
      BY <3>1 DEF Exact
    <3>. QED BY <1>i, <1>p, <2>1, <3>1, <3>2, AloneStep
  <2>. QED BY <1>11, <1>g, <1>n, <1>p, <2>1, <2>2, AloneEnds DEF ReadRows
<1>12. CASE Repoint(r)
  BY <1>12, <1>g, <1>p DEF Repoint
<1>13. CASE SoftDelete(r)
  <2>1. /\ UNCHANGED objects /\ Goes(r, "wipe")
        /\ versions' = [versions EXCEPT ![requests[r].path].state = "deleted"]
    BY <1>13 DEF SoftDelete
  <2>2. \A v \in Version : /\ versions'[v].hash = versions[v].hash
                           /\ versions'[v].state \in {versions[v].state, "deleted"}
    BY <2>1 DEF RowFields
  <2>3. Attested(versions', objects')
    BY <1>p, <2>1, <2>2 DEF Attested
  <2>. QED BY <1>g, <2>1, <2>3
<1>14. CASE Wipe(r)
  <2> DEFINE path == requests[r].path
  <2>1. /\ UNCHANGED <<versions, current>> /\ Ends(r)
        /\ objects' = [v \in DOMAIN objects \ {path} |-> objects[v]]
        /\ path \in Dead
    BY <1>14, <1>b DEF Wipe, At, Sound
  <2>2. \A v \in Live : objects'[v] = objects[v]
    BY <1>b, <2>1 DEF BytesInv, LiveVersionHasBytes, Dead, Live
  <2>3. Attested(versions', objects')
    BY <1>p, <2>1, <2>2 DEF Attested, Live
  <2>4. \A vs, objs, cur : Exact(Idle, vs, objs, cur)
    BY DEF Exact, Idle
  <2>. QED BY <1>i, <2>1, <2>3, <2>4, AloneStep DEF Ends
<1>. QED BY <1>1, <1>2, <1>3, <1>4, <1>5, <1>6, <1>7, <1>8, <1>9, <1>10, <1>11, <1>12,
            <1>13, <1>14

\* Requests never stop having overlapped.
LEMMA OverlapStays ==
  ASSUME overlapped \in BOOLEAN, [Next]_vars
  PROVE  overlapped' \in BOOLEAN /\ (overlapped' = FALSE => overlapped = FALSE)
<1>1. ASSUME NEW r \in Request, NEW x, Starts(r, x)
      PROVE  overlapped' \in BOOLEAN /\ (overlapped' = FALSE => overlapped = FALSE)
  BY <1>1 DEF Starts
<1>. QED
  BY <1>1 DEF Next, vars, Resolve, RunEditDocument, CopyIntoVersion, DeleteVersion,
    LoadForResolution, SetStatus, LoadForEdit, InsertEdits, TurnEnds, ClearHash, Put,
    SetHash, ReadNumber, InsertVersion, Point, ReadRows, Repoint, SoftDelete, Wipe, Dies

LEMMA NextAlone == AloneInv /\ [Next]_vars => AloneInv'
<1> SUFFICES ASSUME AloneInv, [Next]_vars PROVE AloneInv'
  OBVIOUS
<1>1. BytesInv'
  BY NextKeepsBytes DEF AloneInv
<1>2. overlapped' \in BOOLEAN /\ (overlapped' = FALSE => overlapped = FALSE)
  BY OverlapStays DEF AloneInv
<1>3. CASE overlapped' # FALSE
  BY <1>1, <1>2, <1>3 DEF AloneInv
<1>4. CASE UNCHANGED <<versions, objects, current, requests>> /\ overlapped' = FALSE
  BY <1>1, <1>2, <1>4 DEF AloneInv, Alone
<1>5. CASE overlapped' = FALSE /\ Next
  <2>1. CASE \E r \in Request : TurnEnds(r)
    BY <1>4, <1>5, <2>1 DEF TurnEnds
  <2>. QED BY <1>1, <1>2, <1>5, <2>1, AloneReads, AloneWrites DEF Next
<1>. QED BY <1>2, <1>3, <1>4, <1>5 DEF vars

\* As long as requests come one after another, wherever one of them dies, no
\* listed version has a hash that attests bytes other than its own.
THEOREM HashesCorrect == Spec => []HashNeverLies
<1>1. AloneInv => HashNeverLies
  BY DEF AloneInv, Alone, Attested, HashNeverLies, Live
<1>2. Spec => []AloneInv
  BY InitAlone, NextAlone, PTL DEF Spec
<1>. QED BY <1>1, <1>2, PTL

-----------------------------------------------------------------------------
(* Types *)

\* The edits whose change somebody has made, and those that bytes have seen.
Drawn == {e \in Edit : edits[e].status # "none"}
Seen(b) == {m.edit : m \in b.open} \cup b.decided

\* A w:id counts edits that its file has seen.
Good(b, drawn) ==
  /\ b \in Contents
  /\ Seen(b) \subseteq drawn
  /\ \A m \in b.open : m.id <= Cardinality(Seen(b))

Writing == {"clear", "put", "number", "insert", "hash", "edits"}

\* What a request has at each place: an edit, bytes, its own mark in them.
Work(x, drawn) ==
  /\ x.pc \in Writing => Good(x.bytes, drawn)
  /\ x.pc \in Writing /\ x.op = "edit" => \E m \in x.bytes.open : m.edit = x.edit
  /\ x.pc \in {"resolve", "status"} => x.op = "resolve"
  /\ x.pc \in {"edit", "edits"} => x.op = "edit"
  /\ x.pc \in {"clear", "hash"} => x.op \in {"resolve", "edit"}
  /\ x.pc = "put" /\ x.row # Null => x.op \in {"resolve", "edit"}
  /\ x.op \in {"resolve", "edit"} => x.edit \in Edit

\* An edit that is about to be made is new to everybody else.
Fresh ==
  \A r \in Request : At(r, "edit") =>
    /\ edits[requests[r].edit].status = "none"
    /\ \A q \in Request \ {r} : requests[q].edit # requests[r].edit

Statuses == {"none", "drawn", "pending", "resolved"}
Places == {"none", "resolve", "status", "edit", "edits", "clear", "put", "hash", "number",
           "insert", "point", "rows", "repoint", "remove", "wipe"}

RowType == [state : {"none", "live", "deleted"}, number : 0 .. Cardinality(Version),
            hash : Contents \cup {Null}]
EditType == [status : Statuses, id : 0 .. Cardinality(Edit)]
RequestType == [op : {"none", "resolve", "edit", "copy", "delete"}, pc : Places,
                edit : Edit \cup {Null}, row : Version \cup {Null},
                path : Version \cup {Null}, bytes : Contents \cup {Null},
                number : 0 .. Cardinality(Version)]

\* Finite is what the bounds on versions and edits are.
DataInv ==
  /\ versions \in [Version -> RowType]
  /\ current \in Version
  /\ edits \in [Edit -> EditType]
  /\ DOMAIN objects \subseteq Version /\ \A v \in DOMAIN objects : Good(objects[v], Drawn)
  /\ requests \in [Request -> RequestType] /\ \A r \in Request : Work(requests[r], Drawn)
  /\ turns \in [Request -> Version \cup {Null}]
  /\ overlapped \in BOOLEAN
  /\ Fresh

Bounded == IsFiniteSet(Version) /\ IsFiniteSet(Edit)

LEMMA DataIsTyped == DataInv => TypeOK
BY DEF DataInv, TypeOK, Good, RowType, EditType, RequestType, Statuses, Places

LEMMA Counts == Bounded => Cardinality(Version) \in Nat /\ Cardinality(Edit) \in Nat
BY FS_CardinalityType DEF Bounded

\* A bounded set of numbers has a maximum: were there always a greater one, the
\* numbers up to some member would be closed under successor, and the successor
\* would be an injection into them that misses zero.
LEMMA MaxOfBounded ==
  ASSUME NEW n \in Nat, NEW S \in SUBSET (0 .. n), S # {}
  PROVE  Max(S) \in S /\ \A y \in S : Max(S) >= y
<1> DEFINE U == {i \in 0 .. n : \E x \in S : x >= i}
           next == [i \in U |-> i + 1]
<1>1. SUFFICES \E x \in S : \A y \in S : x >= y
  BY DEF Max
<1>2. SUFFICES ASSUME \A x \in S : \E y \in S : ~(x >= y) PROVE FALSE
  OBVIOUS
<1>3. IsFiniteSet(U)
  <2>1. IsFiniteSet(0 .. n)
    BY FS_Interval
  <2>. QED BY <2>1, FS_Subset
<1>4. next \in [U -> U]
  <2> SUFFICES ASSUME NEW i \in U PROVE i + 1 \in U
    OBVIOUS
  <2>1. PICK x \in S : x >= i
    OBVIOUS
  <2>2. PICK y \in S : ~(x >= y)
    BY <1>2
  <2>3. x \in 0 .. n /\ y \in 0 .. n /\ i \in 0 .. n
    OBVIOUS
  <2>4. y >= i + 1 /\ i + 1 \in 0 .. n
    BY <2>1, <2>2, <2>3
  <2>. QED BY <2>4
<1>5. next \in Injection(U, U)
  <2>1. ASSUME NEW i \in U, NEW j \in U, next[i] = next[j] PROVE i = j
    <3>1. i \in Nat /\ j \in Nat
      OBVIOUS
    <3>2. i + 1 = j + 1
      BY <2>1
    <3>. QED BY <3>1, <3>2
  <2> HIDE DEF next, U
  <2>2. DOMAIN next = U
    BY <1>4
  <2>. QED BY <1>4, <2>1, <2>2 DEF Injection, IsInjective
<1>6. next \in Surjection(U, U)
  BY <1>3, <1>5, FS_Injection
<1>7. 0 \in U
  <2>1. PICK x \in S : x \in 0 .. n
    OBVIOUS
  <2>. QED BY <2>1
<1>8. PICK i \in U : next[i] = 0
  BY <1>6, <1>7 DEF Surjection
<1>. QED BY <1>8

-----------------------------------------------------------------------------

\* Deciding marks of a file changes who holds an edit, not which it has seen.
LEMMA CollapsedIsGood ==
  ASSUME NEW drawn, NEW b, Good(b, drawn), NEW marks \in SUBSET b.open
  PROVE  /\ Good(Collapsed(b, marks), drawn)
         /\ Collapsed(b, marks).open = b.open \ marks
<1> DEFINE open == b.open \ marks
           decided == b.decided \cup {m.edit : m \in marks}
           c == Collapsed(b, marks)
<1>1. b \in Contents /\ b.open \in SUBSET Marks /\ b.decided \in SUBSET Edit
  BY DEF Good, Contents
<1>2. open \in SUBSET Marks /\ decided \in SUBSET Edit
  BY <1>1 DEF Marks
<1>3. Seen(b) = {m.edit : m \in open} \cup decided
  BY DEF Seen
<1>4. c = [b EXCEPT !.open = open, !.decided = decided]
  BY DEF Collapsed
<1>5. open \subseteq b.open
  OBVIOUS
<1> HIDE DEF open, decided, c
<1>6. c \in Contents
  BY <1>1, <1>2, <1>4 DEF Contents
<1>7. b = [base |-> b.base, open |-> b.open, decided |-> b.decided]
  BY <1>1 DEF Contents
<1>8. c.open = open /\ c.decided = decided
  BY <1>4, <1>7
<1>9. Good(c, drawn)
  BY <1>3, <1>5, <1>6, <1>8 DEF Good, Seen
<1>. QED BY <1>8, <1>9 DEF c, open

Added(b, e) == [id |-> NextId(b), edit |-> e]

\* A new mark's id is one more than the greatest of the open ones, and the file
\* has seen one edit more.
LEMMA MarkedIsGood ==
  ASSUME Bounded, NEW drawn \in SUBSET Edit, NEW b, Good(b, drawn), NEW e \in Edit \ drawn
  PROVE  /\ Good(Marked(b, e), drawn \cup {e})
         /\ b.open \subseteq Marked(b, e).open
         /\ Added(b, e) \in Marked(b, e).open \ b.open
<1> DEFINE ids == {0} \cup {m.id : m \in b.open}
           mark == Added(b, e)
           c == [base |-> b.base, open |-> b.open \cup {mark}, decided |-> b.decided]
<1>1. /\ b \in Contents /\ b.open \in SUBSET Marks /\ b.decided \in SUBSET Edit
      /\ Seen(b) \subseteq drawn
  BY DEF Good, Contents
<1>2. Cardinality(Edit) \in Nat /\ IsFiniteSet(Seen(b)) /\ Cardinality(Seen(b)) \in Nat
  <2>1. IsFiniteSet(Seen(b))
    BY <1>1, FS_Subset DEF Bounded
  <2>. QED BY <2>1, Counts, FS_CardinalityType
<1>3. \A m \in b.open : m.id \in 1 .. Cardinality(Edit) /\ m.edit \in Seen(b)
  BY <1>1, <1>2 DEF Marks, Seen
<1>4. ids \in SUBSET (0 .. Cardinality(Seen(b))) /\ ids # {}
  BY <1>2, <1>3 DEF Good
<1>5. Max(ids) \in 0 .. Cardinality(Seen(b))
  <2> HIDE DEF ids
  <2>. QED BY <1>2, <1>4, MaxOfBounded
<1>6. NextId(b) \in 1 .. Cardinality(Seen(b)) + 1
  BY <1>2, <1>5 DEF NextId
<1>7. /\ Seen(c) = Seen(b) \cup {e}
      /\ e \notin Seen(b)
      /\ Seen(c) \subseteq Edit
  <2>1. mark.edit = e
    BY DEF Added
  <2> HIDE DEF mark
  <2>2. {m.edit : m \in b.open \cup {mark}} = {m.edit : m \in b.open} \cup {mark.edit}
    OBVIOUS
  <2>. QED BY <1>1, <2>1, <2>2 DEF Seen
<1>8. Cardinality(Seen(c)) = Cardinality(Seen(b)) + 1 /\ Cardinality(Seen(c)) <= Cardinality(Edit)
  <2> HIDE DEF c
  <2>1. Cardinality(Seen(c)) = Cardinality(Seen(b)) + 1
    BY <1>2, <1>7, FS_AddElement
  <2>2. Cardinality(Seen(c)) <= Cardinality(Edit)
    BY <1>7, FS_Subset DEF Bounded
  <2>. QED BY <2>1, <2>2
<1>9. Marked(b, e) = c
  BY <1>1 DEF Marked, Added, Contents
<1>10. mark \in Marks /\ mark \notin b.open /\ mark.edit = e /\ mark.id <= Cardinality(Seen(b)) + 1
  <2> HIDE DEF c
  <2>1. NextId(b) \in 1 .. Cardinality(Edit)
    BY <1>2, <1>6, <1>8
  <2>. QED BY <2>1, <1>2, <1>3, <1>6, <1>7 DEF Marks, Added
<1>11. c \in Contents
  BY <1>1, <1>10 DEF Contents
<1>12. \A m \in c.open : m.id <= Cardinality(Seen(c))
  <2> SUFFICES ASSUME NEW m \in c.open PROVE m.id <= Cardinality(Seen(b)) + 1
    BY <1>8
  <2>1. CASE m = mark
    BY <2>1, <1>10
  <2>2. CASE m \in b.open
    BY <2>2, <1>2, <1>3 DEF Good
  <2>. QED BY <2>1, <2>2
<1>13. Good(c, drawn \cup {e})
  <2> HIDE DEF c
  <2>. QED BY <1>1, <1>7, <1>11, <1>12 DEF Good
<1>. QED BY <1>9, <1>10, <1>13

\* What is good stays good when more edits are drawn.
LEMMA GoodStays ==
  ASSUME NEW drawn, NEW more, drawn \subseteq more
  PROVE  /\ \A b : Good(b, drawn) => Good(b, more)
         /\ \A x : Work(x, drawn) => Work(x, more)
<1>1. \A b : Good(b, drawn) => Good(b, more)
  BY DEF Good
<1>. QED BY <1>1 DEF Work

LEMMA InitData == Bounded /\ Init => DataInv
<1> SUFFICES ASSUME Bounded, Init PROVE DataInv
  OBVIOUS
<1>1. Cardinality(Version) \in Nat /\ Cardinality(Edit) \in Nat
  BY Counts
<1>2. 1 \in 0 .. Cardinality(Version) /\ 0 \in 0 .. Cardinality(Version) /\ 0 \in 0 .. Cardinality(Edit)
  <2>1. Cardinality(Version) # 0
    BY FS_EmptySet, VersionsAssumption DEF Bounded
  <2>. QED BY <1>1, <2>1
<1>3. Original \in Contents /\ Original.open = {} /\ Seen(Original) = {}
  BY VersionsAssumption DEF Original, Contents, Seen
<1>4. \A drawn : Good(Original, drawn)
  BY <1>3 DEF Good
<1>5. versions \in [Version -> RowType]
  BY <1>2, <1>3 DEF Init, RowType
<1>6. edits \in [Edit -> EditType]
  BY <1>2 DEF Init, EditType, Statuses
<1>7. Idle \in RequestType
  BY <1>2 DEF Idle, RequestType, Places
<1>8. \A drawn : Work(Idle, drawn)
  BY DEF Idle, Work, Writing
<1>9. \A r \in Request : ~At(r, "edit")
  BY DEF Init, At, Idle
<1>. QED
  BY <1>4, <1>5, <1>6, <1>7, <1>8, <1>9, VersionsAssumption DEF Init, DataInv, Fresh

\* What a step of one request has to show.
LEMMA DataStep ==
  ASSUME DataInv, NEW r \in Request, NEW x \in RequestType,
         requests' = [requests EXCEPT ![r] = x],
         versions' \in [Version -> RowType], edits' \in [Edit -> EditType],
         Drawn \subseteq Drawn', Work(x, Drawn'),
         x.pc = "edit" => /\ edits'[x.edit].status = "none"
                          /\ \A q \in Request \ {r} : requests[q].edit # x.edit,
         \A q \in Request \ {r} : At(q, "edit") =>
           x.edit # requests[q].edit /\ edits'[requests[q].edit].status = "none",
         DOMAIN objects' \subseteq Version, \A v \in DOMAIN objects' : Good(objects'[v], Drawn'),
         current' \in Version, turns' \in [Request -> Version \cup {Null}], overlapped' \in BOOLEAN
  PROVE  DataInv'
<1>1. requests \in [Request -> RequestType] /\ \A q \in Request : Work(requests[q], Drawn)
  BY DEF DataInv
<1>2. requests' \in [Request -> RequestType]
  BY <1>1
<1>3. requests'[r] = x /\ \A q \in Request \ {r} : requests'[q] = requests[q]
  BY <1>1
<1>4. \A q \in Request : Work(requests'[q], Drawn')
  BY <1>1, <1>3, GoodStays
<1>5. Fresh'
  <2> SUFFICES ASSUME NEW q \in Request, requests'[q].pc = "edit"
               PROVE  /\ edits'[requests'[q].edit].status = "none"
                      /\ \A p \in Request \ {q} : requests'[p].edit # requests'[q].edit
    BY DEF Fresh, At
  <2>1. CASE q = r
    BY <1>3, <2>1
  <2>2. CASE q # r
    <3>1. requests'[q] = requests[q] /\ At(q, "edit")
      BY <1>3, <2>2 DEF At
    <3>2. \A p \in Request \ {q} : requests[p].edit # requests[q].edit
      BY <3>1 DEF DataInv, Fresh
    <3>. QED BY <1>3, <2>2, <3>1, <3>2
  <2>. QED BY <2>1, <2>2
<1>. QED BY <1>2, <1>4, <1>5 DEF DataInv

\* The same for a step that leaves the rows of edits alone, and whose request
\* keeps its edit, drops it, or takes one that somebody has made.
LEMMA DataMove ==
  ASSUME DataInv, NEW r \in Request, NEW x \in RequestType,
         requests' = [requests EXCEPT ![r] = x], UNCHANGED edits,
         Work(x, Drawn), x.pc # "edit",
         \/ x.edit \in {requests[r].edit, Null}
         \/ edits[x.edit].status # "none",
         versions' \in [Version -> RowType],
         DOMAIN objects' \subseteq Version, \A v \in DOMAIN objects' : Good(objects'[v], Drawn),
         current' \in Version, turns' \in [Request -> Version \cup {Null}], overlapped' \in BOOLEAN
  PROVE  DataInv'
<1>1. Drawn' = Drawn
  BY DEF Drawn
<1>2. \A q \in Request \ {r} : At(q, "edit") =>
        /\ edits[requests[q].edit].status = "none"
        /\ requests[q].edit \in Edit /\ requests[r].edit # requests[q].edit
  BY DEF DataInv, Fresh, Work, At
<1>3. \A q \in Request \ {r} : At(q, "edit") =>
        x.edit # requests[q].edit /\ edits'[requests[q].edit].status = "none"
  BY <1>2, VersionsAssumption
<1>4. edits' \in [Edit -> EditType]
  BY DEF DataInv
<1>. QED BY <1>1, <1>3, <1>4, DataStep

\* What is there to go on with.
LEMMA DataFacts ==
  ASSUME DataInv, NEW r \in Request
  PROVE  /\ requests[r] \in RequestType /\ Work(requests[r], Drawn)
         /\ versions \in [Version -> RowType] /\ edits \in [Edit -> EditType]
         /\ current \in Version /\ turns \in [Request -> Version \cup {Null}]
         /\ overlapped \in BOOLEAN
         /\ DOMAIN objects \subseteq Version /\ \A v \in DOMAIN objects : Good(objects[v], Drawn)
         /\ Drawn \subseteq Edit
BY DEF DataInv, Drawn

LEMMA IdleType == Bounded => Idle \in RequestType
<1>1. Bounded => 0 \in 0 .. Cardinality(Version)
  BY Counts
<1>. QED BY <1>1 DEF Idle, RequestType, Places

LEMMA DataEnds ==
  ASSUME Bounded, DataInv, NEW r \in Request, Ends(r), UNCHANGED edits,
         versions' \in [Version -> RowType],
         DOMAIN objects' \subseteq Version, \A v \in DOMAIN objects' : Good(objects'[v], Drawn),
         current' \in Version, turns' \in [Request -> Version \cup {Null}], overlapped' \in BOOLEAN
  PROVE  DataInv'
<1>1. Work(Idle, Drawn) /\ Idle.pc = "none" /\ Idle.edit = Null
  BY DEF Idle, Work, Writing
<1>. QED BY <1>1, IdleType, DataMove DEF Ends

-----------------------------------------------------------------------------

\* Requests begin.
LEMMA BeginningsKeepData ==
  ASSUME Bounded, DataInv, NEW r \in Request,
         \/ \E e \in Edit : Resolve(r, e) \/ RunEditDocument(r, e)
         \/ \E v \in Version : CopyIntoVersion(r, v) \/ DeleteVersion(r, v)
  PROVE  DataInv'
<1>. USE DataFacts, IdleType
<1>u. ASSUME UNCHANGED <<versions, current, objects, turns>>
      PROVE  /\ versions' \in [Version -> RowType]
             /\ DOMAIN objects' \subseteq Version /\ \A v \in DOMAIN objects' : Good(objects'[v], Drawn)
             /\ current' \in Version /\ turns' \in [Request -> Version \cup {Null}]
  BY <1>u
<1>1. ASSUME NEW e \in Edit, Resolve(r, e) PROVE DataInv'
  <2> DEFINE x == [Idle EXCEPT !.op = "resolve", !.pc = "resolve", !.edit = e, !.row = current]
  <2>1. x \in RequestType
    BY DEF RequestType, Places
  <2>2. x.op = "resolve" /\ x.pc = "resolve" /\ x.edit = e
    BY DEF Idle
  <2>3. /\ requests' = [requests EXCEPT ![r] = x] /\ overlapped' \in BOOLEAN
        /\ edits[e].status # "none" /\ UNCHANGED edits
        /\ UNCHANGED <<versions, current, objects, turns>>
    BY <1>1 DEF Resolve, Starts
  <2> HIDE DEF x
  <2>4. Work(x, Drawn)
    BY <2>2 DEF Work, Writing
  <2>. QED BY <1>u, <2>1, <2>2, <2>3, <2>4, DataMove
<1>2. ASSUME NEW e \in Edit, RunEditDocument(r, e) PROVE DataInv'
  <2> DEFINE x == [Idle EXCEPT !.op = "edit", !.pc = "edit", !.edit = e,
                               !.row = turns[r], !.path = turns[r]]
  <2>1. x \in RequestType
    BY DEF RequestType, Places
  <2>2. x.op = "edit" /\ x.pc = "edit" /\ x.edit = e
    BY DEF Idle
  <2>3. /\ requests' = [requests EXCEPT ![r] = x] /\ overlapped' \in BOOLEAN
        /\ edits[e].status = "none" /\ UNCHANGED edits
        /\ \A q \in Request : requests[q].edit # e
        /\ UNCHANGED <<versions, current, objects, turns>>
    BY <1>2 DEF RunEditDocument, Starts
  <2> HIDE DEF x
  <2>4. Work(x, Drawn) /\ Drawn' = Drawn
    BY <2>2, <2>3 DEF Work, Writing, Drawn
  <2>5. \A q \in Request \ {r} : At(q, "edit") =>
          x.edit # requests[q].edit /\ edits'[requests[q].edit].status = "none"
    BY <2>2, <2>3 DEF DataInv, Fresh
  <2>. QED BY <1>u, <2>1, <2>2, <2>3, <2>4, <2>5, DataStep
<1>3. ASSUME NEW v \in Version, CopyIntoVersion(r, v) PROVE DataInv'
  <2> DEFINE bytes == [base |-> v, open |-> {}, decided |-> {}]
             x == [Idle EXCEPT !.op = "copy", !.pc = "put", !.path = v, !.bytes = bytes]
  <2>0. bytes \in Contents /\ bytes.open = {} /\ Seen(bytes) = {}
    BY DEF Contents, Seen
  <2>2. x.op = "copy" /\ x.pc = "put" /\ x.edit = Null /\ x.row = Null /\ x.bytes = bytes
    BY DEF Idle
  <2>3. /\ requests' = [requests EXCEPT ![r] = x] /\ overlapped' \in BOOLEAN /\ UNCHANGED edits
        /\ UNCHANGED <<versions, current, objects, turns>>
    BY <1>3 DEF CopyIntoVersion, Starts
  <2> HIDE DEF bytes
  <2>1. x \in RequestType
    BY <2>0 DEF RequestType, Places
  <2> HIDE DEF x
  <2>4. Work(x, Drawn)
    BY <2>0, <2>2 DEF Work, Good
  <2>. QED BY <1>u, <2>1, <2>2, <2>3, <2>4, DataMove
<1>4. ASSUME NEW v \in Version, DeleteVersion(r, v) PROVE DataInv'
  <2> DEFINE x == [Idle EXCEPT !.op = "delete", !.pc = "rows", !.path = v, !.row = current]
  <2>1. x \in RequestType
    BY DEF RequestType, Places
  <2>2. x.op = "delete" /\ x.pc = "rows" /\ x.edit = Null
    BY DEF Idle
  <2>3. /\ requests' = [requests EXCEPT ![r] = x] /\ overlapped' \in BOOLEAN /\ UNCHANGED edits
        /\ UNCHANGED <<versions, current, objects, turns>>
    BY <1>4 DEF DeleteVersion, Starts
  <2> HIDE DEF x
  <2>4. Work(x, Drawn)
    BY <2>2 DEF Work, Writing
  <2>. QED BY <1>u, <2>1, <2>2, <2>3, <2>4, DataMove
<1>. QED BY <1>1, <1>2, <1>3, <1>4

\* The bytes that a resolution and an edit prepare.
LEMMA LoadsKeepData ==
  ASSUME Bounded, DataInv, NEW r \in Request, LoadForResolution(r) \/ LoadForEdit(r)
  PROVE  DataInv'
<1>. USE DataFacts
<1>u. UNCHANGED <<versions, current, objects, turns, overlapped>>
  BY DEF LoadForResolution, LoadForEdit
<1>t. /\ versions' \in [Version -> RowType]
      /\ DOMAIN objects' \subseteq Version /\ \A v \in DOMAIN objects' : Good(objects'[v], Drawn)
      /\ current' \in Version /\ turns' \in [Request -> Version \cup {Null}] /\ overlapped' \in BOOLEAN
  BY <1>u
<1>e. ASSUME Ends(r), UNCHANGED edits PROVE DataInv'
  BY <1>e, <1>t, DataEnds
<1>1. CASE LoadForResolution(r)
  <2> DEFINE found == {m \in objects[current].open : m.id = edits[requests[r].edit].id}
             bytes == Collapsed(objects[current], found)
             x == [requests[r] EXCEPT !.pc = "status"]
             y == [requests[r] EXCEPT !.pc = "clear", !.path = current, !.bytes = bytes]
  <2>1. UNCHANGED edits /\ requests[r].pc = "resolve" /\ requests[r].op = "resolve"
    BY <1>1 DEF LoadForResolution, At, Work
  <2>2. CASE requests' = [requests EXCEPT ![r] = x]
    <3>1. x \in RequestType /\ x.pc = "status" /\ x.op = "resolve" /\ x.edit = requests[r].edit
      BY <2>1 DEF RequestType, Places
    <3> HIDE DEF x
    <3>2. Work(x, Drawn)
      BY <2>1, <3>1 DEF Work, Writing
    <3>. QED BY <1>t, <2>1, <2>2, <3>1, <3>2, DataMove
  <2>3. CASE Readable /\ requests' = [requests EXCEPT ![r] = y]
    <3>1. Good(objects[current], Drawn)
      BY <2>3 DEF Readable
    <3>2. Good(bytes, Drawn)
      BY <3>1, CollapsedIsGood
    <3> HIDE DEF bytes
    <3>3. /\ y.pc = "clear" /\ y.op = "resolve" /\ y.edit = requests[r].edit
          /\ y.bytes = bytes
      BY <2>1 DEF RequestType
    <3>4. y \in RequestType
      BY <3>2 DEF RequestType, Places, Good
    <3> HIDE DEF y
    <3>5. Work(y, Drawn)
      BY <2>1, <3>2, <3>3 DEF Work
    <3>. QED BY <1>t, <2>1, <2>3, <3>3, <3>4, <3>5, DataMove
  <2>. QED BY <1>1, <1>e, <2>1, <2>2, <2>3 DEF LoadForResolution, Goes
<1>2. CASE LoadForEdit(r)
  <2> DEFINE e == requests[r].edit
             pc == IF requests[r].row = Null THEN "put" ELSE "clear"
  <2>1. requests[r].pc = "edit" /\ requests[r].op = "edit" /\ e \in Edit
    BY <1>2 DEF LoadForEdit, At, Work
  <2>2. /\ edits[e].status = "none" /\ e \notin Drawn
        /\ \A q \in Request \ {r} : requests[q].edit # e
    BY <2>1 DEF DataInv, Fresh, At, Drawn
  <2>3. ASSUME Readable, edits' = [edits EXCEPT ![e].status = "drawn"],
               NEW swallowed \in SUBSET objects[current].open, NEW v \in Version,
               requests' = [requests EXCEPT
                 ![r].pc = pc, ![r].path = v,
                 ![r].bytes = Collapsed(Marked(objects[current], e), swallowed)]
        PROVE  DataInv'
    <3> DEFINE old == objects[current]
               marked == Marked(old, e)
               bytes == Collapsed(marked, swallowed)
               x == [requests[r] EXCEPT !.pc = pc, !.path = v, !.bytes = bytes]
    <3>0. requests' = [requests EXCEPT ![r] = x]
      BY <2>3
    <3>1. Good(old, Drawn)
      BY <2>3 DEF Readable
    <3>a. swallowed \in SUBSET old.open
      OBVIOUS
    <3> HIDE DEF old
    <3>b. Drawn \in SUBSET Edit /\ e \in Edit \ Drawn
      BY <2>1, <2>2
    <3>2. /\ Good(marked, Drawn \cup {e})
          /\ old.open \subseteq marked.open
          /\ Added(old, e) \in marked.open \ old.open
      BY <3>1, <3>b, MarkedIsGood
    <3> HIDE DEF marked
    <3>4. Good(bytes, Drawn \cup {e}) /\ bytes.open = marked.open \ swallowed
      BY <3>2, <3>a, CollapsedIsGood
    <3>5. \E m \in bytes.open : m.edit = e
      <4>1. Added(old, e).edit = e
        BY DEF Added
      <4>. QED BY <3>2, <3>a, <3>4, <4>1
    <3> HIDE DEF bytes
    <3>6. /\ edits' \in [Edit -> EditType] /\ Drawn' = Drawn \cup {e}
          /\ \A d \in Edit \ {e} : edits'[d] = edits[d]
      BY <2>1, <2>3 DEF EditType, Statuses, Drawn
    <3>7. /\ x.pc = pc /\ x.op = "edit" /\ x.edit = e /\ x.row = requests[r].row
          /\ x.bytes = bytes
      BY <2>1 DEF RequestType
    <3>8. x \in RequestType
      BY <3>4 DEF RequestType, Places, Good
    <3> HIDE DEF x
    <3>9. Work(x, Drawn')
      BY <2>1, <3>4, <3>5, <3>6, <3>7 DEF Work
    <3>10. \A q \in Request \ {r} : At(q, "edit") =>
             x.edit # requests[q].edit /\ edits'[requests[q].edit].status = "none"
      BY <2>2, <3>6, <3>7 DEF DataInv, Fresh, Work, At
    <3>11. \A u \in DOMAIN objects' : Good(objects'[u], Drawn')
      BY <1>t, <3>6, GoodStays
    <3>. QED BY <1>t, <3>0, <3>6, <3>7, <3>8, <3>9, <3>10, <3>11, DataStep
  <2>. QED BY <1>2, <1>e, <2>3 DEF LoadForEdit
<1>. QED BY <1>1, <1>2

\* While a version has no row, there is a number left for it.
LEMMA NumbersFit ==
  ASSUME Bounded, NEW k \in Nat \ {0}, Numbered(k), NEW v \in Version \ Rows
  PROVE  k + 1 \in 0 .. Cardinality(Version)
<1> DEFINE f == [u \in Rows |-> versions[u].number]
<1>1. Rows \in SUBSET (Version \ {v})
  BY DEF Rows
<1>2. IsFiniteSet(Version \ {v}) /\ Cardinality(Version \ {v}) = Cardinality(Version) - 1
  BY FS_RemoveElement DEF Bounded
<1>3. IsFiniteSet(Rows) /\ Cardinality(Rows) <= Cardinality(Version \ {v})
  BY <1>1, <1>2, FS_Subset
<1>4. f \in Surjection(Rows, 1 .. k)
  <2>1. f \in [Rows -> 1 .. k]
    BY DEF Numbered
  <2>2. \A n \in 1 .. k : \E u \in Rows : f[u] = n
    BY DEF Numbered
  <2>. QED BY <2>1, <2>2 DEF Surjection
<1>5. Cardinality(1 .. k) <= Cardinality(Rows)
  BY <1>3, <1>4, FS_Surjection
<1>6. Cardinality(1 .. k) = k
  BY FS_Interval
<1>7. Cardinality(Rows) \in Nat /\ Cardinality(Version) \in Nat
  BY <1>3, Counts, FS_CardinalityType
<1>. QED BY <1>2, <1>3, <1>5, <1>6, <1>7

\* A request goes on with what it has.
LEMMA GoesOn ==
  ASSUME DataInv, NEW r \in Request, NEW pc \in Places, Goes(r, pc), UNCHANGED edits, pc # "edit",
         pc \in Writing => requests[r].pc \in Writing,
         pc \in {"resolve", "status"} => requests[r].op = "resolve",
         pc = "edits" => requests[r].op = "edit",
         pc \in {"clear", "hash"} => requests[r].op \in {"resolve", "edit"},
         pc = "put" /\ requests[r].row # Null => requests[r].op \in {"resolve", "edit"},
         versions' \in [Version -> RowType],
         DOMAIN objects' \subseteq Version, \A v \in DOMAIN objects' : Good(objects'[v], Drawn),
         current' \in Version, turns' \in [Request -> Version \cup {Null}], overlapped' \in BOOLEAN
  PROVE  DataInv'
<1> DEFINE x == [requests[r] EXCEPT !.pc = pc]
<1>1. /\ x \in RequestType /\ x.pc = pc /\ x.op = requests[r].op /\ x.edit = requests[r].edit
      /\ x.row = requests[r].row /\ x.bytes = requests[r].bytes
  BY DataFacts DEF RequestType
<1>2. requests' = [requests EXCEPT ![r] = x]
  BY DEF Goes
<1> HIDE DEF x
<1>3. Work(x, Drawn)
  BY <1>1, DataFacts DEF Work
<1>. QED BY <1>1, <1>2, <1>3, DataMove

\* Rows of edits are written.
LEMMA EditRowsKeepData ==
  ASSUME Bounded, DataInv, NEW r \in Request, InsertEdits(r) \/ SetStatus(r)
  PROVE  DataInv'
<1>. USE DataFacts
<1> DEFINE e == requests[r].edit
<1>u. UNCHANGED <<versions, current, objects, turns, overlapped>>
  BY DEF InsertEdits, SetStatus
<1>t. /\ versions' \in [Version -> RowType]
      /\ DOMAIN objects' \subseteq Version /\ \A v \in DOMAIN objects' : Good(objects'[v], Drawn)
      /\ current' \in Version /\ turns' \in [Request -> Version \cup {Null}] /\ overlapped' \in BOOLEAN
  BY <1>u
<1>e. e \in Edit
  BY DEF InsertEdits, SetStatus, At, Work
<1>m. ASSUME NEW x \in RequestType, requests' = [requests EXCEPT ![r] = x],
             Work(x, Drawn), x.pc # "edit", x.edit \in {e, Null},
             NEW y \in EditType, edits' = [edits EXCEPT ![e] = y], y.status # "none"
      PROVE  DataInv'
  <2>1. edits' \in [Edit -> EditType] /\ \A d \in Edit \ {e} : edits'[d] = edits[d]
    BY <1>e, <1>m
  <2>2. Drawn \subseteq Drawn'
    BY <1>e, <1>m DEF Drawn
  <2>3. Work(x, Drawn') /\ \A v \in DOMAIN objects' : Good(objects'[v], Drawn')
    BY <1>m, <1>t, <2>2, GoodStays
  <2>4. \A q \in Request \ {r} : At(q, "edit") =>
          /\ x.edit # requests[q].edit
          /\ edits'[requests[q].edit].status = "none"
    BY <1>m, <2>1, VersionsAssumption DEF DataInv, Fresh, Work, At
  <2>. QED BY <1>m, <1>t, <2>1, <2>2, <2>3, <2>4, DataStep
<1>1. CASE InsertEdits(r)
  <2> DEFINE mark == CHOOSE m \in requests[r].bytes.open : m.edit = e
             x == [requests[r] EXCEPT !.pc = "point"]
             y == [status |-> "pending", id |-> mark.id]
  <2>1. /\ requests[r].pc = "edits" /\ requests[r].op = "edit" /\ Good(requests[r].bytes, Drawn)
        /\ \E m \in requests[r].bytes.open : m.edit = e
    BY <1>1 DEF InsertEdits, At, Work, Writing
  <2>2. mark \in requests[r].bytes.open
    BY <2>1
  <2>3. mark \in Marks
    BY <2>1, <2>2 DEF Good, Contents
  <2>4. requests' = [requests EXCEPT ![r] = x] /\ edits' = [edits EXCEPT ![e] = y]
    BY <1>1 DEF InsertEdits, Goes
  <2> HIDE DEF mark
  <2>5. y \in EditType /\ y.status = "pending"
    BY <2>3, Counts DEF EditType, Statuses, Marks
  <2>6. x \in RequestType /\ x.pc = "point" /\ x.op = "edit" /\ x.edit = e
    BY <2>1 DEF RequestType, Places
  <2> HIDE DEF x, y, e
  <2>7. Work(x, Drawn)
    BY <1>e, <2>6 DEF Work, Writing
  <2>. QED BY <1>m, <2>4, <2>5, <2>6, <2>7
<1>2. CASE SetStatus(r)
  <2> DEFINE y == [edits[e] EXCEPT !.status = "resolved"]
  <2>1. requests' = [requests EXCEPT ![r] = Idle] /\ edits' = [edits EXCEPT ![e] = y]
    BY <1>2 DEF SetStatus, Ends
  <2>2. y \in EditType /\ y.status = "resolved"
    BY <1>e DEF EditType, Statuses
  <2>3. Work(Idle, Drawn) /\ Idle.pc = "none" /\ Idle.edit = Null
    BY DEF Idle, Work, Writing
  <2> HIDE DEF y, e
  <2>. QED BY <1>m, <2>1, <2>2, <2>3, IdleType
<1>. QED BY <1>1, <1>2

\* Versions are read, for a number or for another current one.
LEMMA ReadsKeepData ==
  ASSUME Bounded, DataInv, NumberInv, NEW r \in Request, ReadNumber(r) \/ ReadRows(r)
  PROVE  DataInv'
<1>. USE DataFacts
<1>u. UNCHANGED <<versions, current, edits, objects, turns, overlapped>>
  BY DEF ReadNumber, ReadRows
<1>t. /\ versions' \in [Version -> RowType]
      /\ DOMAIN objects' \subseteq Version /\ \A v \in DOMAIN objects' : Good(objects'[v], Drawn)
      /\ current' \in Version /\ turns' \in [Request -> Version \cup {Null}] /\ overlapped' \in BOOLEAN
  BY <1>u
<1>1. CASE ReadNumber(r)
  <2>1. BytesInv
    BY DEF NumberInv
  <2>2. requests[r].path \in Version \ Rows
    BY <1>1, <2>1, Known, VersionsAssumption DEF Sound, ReadNumber, At
  <2>3. PICK k \in Nat \ {0} : Numbered(k)
    BY DEF NumberInv
  <2>4. 1 + Max({versions[v].number : v \in Rows}) = 1 + k
    BY <2>3, MaxOfInterval DEF Numbered
  <2>5. 1 + k \in 0 .. Cardinality(Version)
    BY <2>2, <2>3, NumbersFit
  <2> DEFINE n == 1 + k
             x == [requests[r] EXCEPT !.pc = "insert", !.number = n]
  <2>6. requests' = [requests EXCEPT ![r] = x] /\ requests[r].pc = "number"
    BY <1>1, <2>4 DEF ReadNumber, At
  <2> HIDE DEF n
  <2>7. n \in 0 .. Cardinality(Version)
    BY <2>5 DEF n
  <2>8. /\ x \in RequestType /\ x.pc = "insert" /\ x.op = requests[r].op
        /\ x.edit = requests[r].edit /\ x.bytes = requests[r].bytes
    BY <2>7 DEF RequestType, Places
  <2> HIDE DEF x
  <2>9. Work(x, Drawn)
    BY <2>6, <2>8 DEF Work, Writing
  <2>. QED BY <1>u, <1>t, <2>6, <2>8, <2>9, DataMove
<1>2. CASE ReadRows(r)
  <2>1. CASE Ends(r)
    BY <1>u, <1>t, <2>1, DataEnds
  <2>2. CASE Goes(r, "remove")
    BY <1>u, <1>t, <2>2, GoesOn DEF Places, Writing
  <2>3. ASSUME NEW next \in Live,
               requests' = [requests EXCEPT ![r].pc = "repoint", ![r].row = next]
        PROVE  DataInv'
    <3> DEFINE x == [requests[r] EXCEPT !.pc = "repoint", !.row = next]
    <3>1. requests' = [requests EXCEPT ![r] = x]
      BY <2>3
    <3>2. next \in Version
      BY DEF Live
    <3>3. x \in RequestType /\ x.pc = "repoint" /\ x.op = requests[r].op /\ x.edit = requests[r].edit
      BY <3>2 DEF RequestType, Places
    <3> HIDE DEF x
    <3>4. Work(x, Drawn)
      BY <3>3 DEF Work, Writing
    <3>. QED BY <1>u, <1>t, <3>1, <3>3, <3>4, DataMove
  <2>. QED BY <1>2, <2>1, <2>2, <2>3 DEF ReadRows
<1>. QED BY <1>1, <1>2

\* Rows of versions and objects are written.
LEMMA WritesKeepData ==
  ASSUME Bounded, DataInv, BytesInv, NEW r \in Request,
         \/ ClearHash(r) \/ Put(r) \/ SetHash(r) \/ InsertVersion(r) \/ Point(r)
         \/ Repoint(r) \/ SoftDelete(r) \/ Wipe(r) \/ Dies(r)
  PROVE  DataInv'
<1>. USE DataFacts, Known
<1>k. Rows \subseteq Version
  BY DEF Rows
<1>w. ASSUME NEW v \in Version, NEW hash \in Contents \cup {Null},
             versions' = [versions EXCEPT ![v].hash = hash]
      PROVE  versions' \in [Version -> RowType]
  BY <1>w DEF RowType
<1>1. CASE ClearHash(r)
  <2>1. requests[r].row \in Version
    BY <1>1, <1>k DEF ClearHash, At, Sound
  <2>2. versions' \in [Version -> RowType]
    BY <1>1, <1>w, <2>1 DEF ClearHash
  <2>. QED BY <1>1, <2>2, GoesOn DEF ClearHash, At, Work, Places, Writing
<1>2. CASE Put(r)
  <2> DEFINE pc == IF requests[r].row = Null THEN "number" ELSE "hash"
  <2>1. requests[r].pc = "put" /\ requests[r].path \in Version /\ Good(requests[r].bytes, Drawn)
    BY <1>2 DEF Put, At, Sound, Work, Writing
  <2>2. DOMAIN objects' \subseteq Version /\ \A v \in DOMAIN objects' : Good(objects'[v], Drawn)
    BY <1>2, <2>1 DEF Put
  <2>3. Goes(r, pc) /\ UNCHANGED <<versions, current, edits, turns, overlapped>>
    BY <1>2 DEF Put
  <2>4. pc = "number" \/ (pc = "hash" /\ requests[r].op \in {"resolve", "edit"})
    BY <2>1 DEF Work
  <2> HIDE DEF pc
  <2>. QED BY <2>1, <2>2, <2>3, <2>4, GoesOn DEF Places, Writing
<1>3. CASE SetHash(r)
  <2> DEFINE pc == IF requests[r].op = "resolve" THEN "status" ELSE "edits"
  <2>1. /\ requests[r].pc = "hash" /\ requests[r].row \in Version
        /\ requests[r].bytes \in Contents /\ requests[r].op \in {"resolve", "edit"}
    BY <1>3, <1>k DEF SetHash, At, Sound, Work, Writing, Good
  <2>2. versions' \in [Version -> RowType]
    BY <1>3, <1>w, <2>1 DEF SetHash
  <2>3. Goes(r, pc) /\ UNCHANGED <<current, edits, objects, turns, overlapped>>
    BY <1>3 DEF SetHash
  <2>4. \/ pc = "status" /\ requests[r].op = "resolve"
        \/ pc = "edits" /\ requests[r].op = "edit"
    BY <2>1
  <2> HIDE DEF pc
  <2>. QED BY <2>1, <2>2, <2>3, <2>4, GoesOn DEF Places, Writing
<1>4. CASE InsertVersion(r)
  <2> DEFINE path == requests[r].path
             pc == IF requests[r].op = "edit" THEN "edits" ELSE "point"
             x == [requests[r] EXCEPT !.pc = pc, !.row = path]
  <2>1. /\ requests[r].pc = "insert" /\ path \in Version /\ Good(requests[r].bytes, Drawn)
        /\ UNCHANGED <<current, edits, objects, turns, overlapped>>
    BY <1>4 DEF InsertVersion, At, Sound, Work, Writing
  <2>2. CASE Ends(r) /\ UNCHANGED versions
    BY <2>1, <2>2, DataEnds
  <2>3. CASE /\ versions' = [versions EXCEPT ![path] =
                  [state |-> "live", number |-> requests[r].number, hash |-> requests[r].bytes]]
             /\ requests' = [requests EXCEPT ![r] = x]
    <3>1. versions' \in [Version -> RowType]
      BY <2>1, <2>3 DEF RowType, RequestType, Good
    <3>2. /\ x \in RequestType /\ x.pc = pc /\ x.op = requests[r].op
          /\ x.edit = requests[r].edit /\ x.bytes = requests[r].bytes
      BY <2>1 DEF RequestType, Places
    <3> HIDE DEF x
    <3>3. Work(x, Drawn)
      BY <2>1, <3>2 DEF Work, Writing
    <3>. QED BY <2>1, <2>3, <3>1, <3>2, <3>3, DataMove
  <2>. QED BY <1>4, <2>2, <2>3 DEF InsertVersion
<1>5. CASE Point(r)
  <2>1. requests[r].row \in Version
    BY <1>5, <1>k DEF Point, At, Sound
  <2>2. turns' \in [Request -> Version \cup {Null}] /\ current' \in Version
    BY <1>5, <2>1 DEF Point
  <2>. QED BY <1>5, <2>2, DataEnds DEF Point
<1>6. CASE Repoint(r)
  <2>1. requests[r].row \in Version
    BY <1>6, <1>k DEF Repoint, At, Sound
  <2>. QED BY <1>6, <2>1, GoesOn DEF Repoint, Places, Writing
<1>7. CASE SoftDelete(r)
  <2>1. requests[r].path \in Version
    BY <1>7, <1>k DEF SoftDelete, At, Sound
  <2>2. versions' \in [Version -> RowType]
    BY <1>7, <2>1 DEF SoftDelete, RowType
  <2>. QED BY <1>7, <2>2, GoesOn DEF SoftDelete, Places, Writing
<1>8. CASE Wipe(r)
  <2>1. DOMAIN objects' \subseteq Version /\ \A v \in DOMAIN objects' : Good(objects'[v], Drawn)
    BY <1>8 DEF Wipe
  <2>. QED BY <1>8, <2>1, DataEnds DEF Wipe
<1>9. CASE Dies(r)
  BY <1>9, DataEnds DEF Dies
<1>. QED BY <1>1, <1>2, <1>3, <1>4, <1>5, <1>6, <1>7, <1>8, <1>9

LEMMA TurnKeepsData ==
  ASSUME DataInv, NEW r \in Request, TurnEnds(r)
  PROVE  DataInv'
<1>1. turns' \in [Request -> Version \cup {Null}]
  BY DataFacts DEF TurnEnds
<1>2. UNCHANGED <<versions, current, edits, objects, requests, overlapped>> /\ Drawn' = Drawn
  BY DEF TurnEnds, Drawn
<1>. QED BY <1>1, <1>2 DEF DataInv, Fresh, At

LEMMA NextData == Bounded /\ NumberInv /\ DataInv /\ [Next]_vars => DataInv'
<1> SUFFICES ASSUME Bounded, NumberInv, DataInv, [Next]_vars PROVE DataInv'
  OBVIOUS
<1>1. BytesInv
  BY DEF NumberInv
<1>2. CASE Next
  BY <1>1, <1>2, BeginningsKeepData, LoadsKeepData, EditRowsKeepData, ReadsKeepData,
     WritesKeepData, TurnKeepsData DEF Next
<1>3. CASE UNCHANGED vars
  <2>1. UNCHANGED <<versions, current, edits, objects, requests, turns, overlapped>> /\ Drawn' = Drawn
    BY <1>3 DEF vars, Drawn
  <2>. QED BY <2>1 DEF DataInv, Fresh, At
<1>. QED BY <1>2, <1>3

\* Everything keeps to its type for every finite bound on versions and edits:
\* above all, a w:id never exceeds the number of edits proposed, although the
\* numbers of decided changes are given again, and no version's number exceeds
\* the number of versions.
THEOREM TypeCorrect == Bounded => (Spec => []TypeOK)
<1> SUFFICES ASSUME Bounded PROVE Spec => []TypeOK
  OBVIOUS
<1>1. NumberInv /\ DataInv /\ [Next]_vars => NumberInv' /\ DataInv'
  BY NextNumbers, NextData
<1>2. Init => NumberInv /\ DataInv
  BY InitNumbers, InitData
<1>. QED BY <1>1, <1>2, DataIsTyped, PTL DEF Spec
=============================================================================
