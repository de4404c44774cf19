------------------------- MODULE WorkspaceUndoProofs --------------------------
(***************************************************************************)
(* Theorems about WorkspaceUndo, for every set of paths, identities,       *)
(* contents and operations, in both builds, with any number of changes by  *)
(* other programs.                                                         *)
(***************************************************************************)
EXTENDS WorkspaceUndo, TLAPS

-----------------------------------------------------------------------------
(* The state is typed.                                                     *)

\* A row of a call names the paths its operation needs.
Requested == \A c \in Checkpoints :
    rows[c].status # "none" =>
        /\ rows[c].op \in Operations
        /\ rows[c].src \in Paths
        /\ rows[c].op \in Renames => rows[c].dst \in Paths /\ rows[c].dst # rows[c].src
        /\ rows[c].op \notin Renames => rows[c].dst = NoPath
        /\ rows[c].op \in {"create_file", "update_file"} => rows[c].body \in Bodies

\* The step a call is at and the status of its row.
Placed ==
    /\ ~up => job = Idle
    /\ \A c \in Checkpoints :
          /\ At(c, "intent") => rows[c].status = "intent"
          /\ At(c, "prepared") \/ At(c, "checked") => rows[c].status = "prepared"
          /\ At(c, "started") \/ At(c, "mutated") \/ At(c, "broken")
                => rows[c].status = "effect_started"
          /\ At(c, "claimed") \/ At(c, "armed") \/ At(c, "reverted")
                => rows[c].status = "undo_started"
          /\ At(c, "armed") /\ rows[c].op \in Restores => rows[c].preimage \in Contents

TypeInv == TypeOK /\ Requested /\ Placed

LEMMA FileObject ==
    ASSUME NEW o \in Object, o.kind = "file"
    PROVE  /\ o.id \in Ids /\ o.data \in Contents
           /\ \A d \in Contents : [o EXCEPT !.data = d] \in Object
<1>1. PICK i \in Ids : \E d \in Contents : o = File(i, d)
  BY DEF Object, Missing, Directory
<1>2. PICK d0 \in Contents : o = File(i, d0)
  BY <1>1
<1>3. ASSUME NEW d \in Contents PROVE [o EXCEPT !.data = d] = File(i, d)
  BY <1>2 DEF File
<1> QED BY <1>2, <1>3 DEF File, Object

LEMMA FolderObject ==
    ASSUME NEW o \in Object, o.kind = "directory"
    PROVE  /\ o.id \in Ids /\ o.data \in Folder
           /\ \A d \in Folder : [o EXCEPT !.data = d] \in Object
           /\ [o EXCEPT !.data = NoData] \in Seen
<1>1. PICK i \in Ids : \E d \in Folder : o = Directory(i, d)
  BY DEF Object, Missing, File
<1>2. PICK d0 \in Folder : o = Directory(i, d0)
  BY <1>1
<1>3. ASSUME NEW d PROVE [o EXCEPT !.data = d] = Directory(i, d)
  BY <1>2 DEF Directory
<1> QED BY <1>2, <1>3 DEF Directory, Object, Seen

\* What a capture returns.
LEMMA SeenTyped ==
    ASSUME TypeOK, NEW p \in Paths \cup {NoPath}
    PROVE  SeenAt(p) \in Seen
<1>1. CASE p = NoPath
  BY <1>1 DEF SeenAt, Seen
<1>2. CASE p # NoPath
  <2>1. fs[p] \in Object
    BY <1>2 DEF TypeOK
  <2>2. CASE fs[p].kind = "directory"
    BY <1>2, <2>1, <2>2, FolderObject DEF SeenAt, Snapshot
  <2>3. CASE fs[p].kind # "directory"
    BY <1>2, <2>1, <2>3 DEF SeenAt, Snapshot, Object, Seen, Directory
  <2> QED BY <2>2, <2>3
<1> QED BY <1>1, <1>2

\* Putting or moving an object keeps the files typed.
LEMMA PutTyped ==
    ASSUME TypeOK, NEW c, NEW p \in Paths, NEW o \in Object, Put(c, p, o)
    PROVE  fs' \in [Paths -> Object] /\ clean' \subseteq clean
BY DEF TypeOK, Put, Change

LEMMA MoveTyped ==
    ASSUME TypeOK, NEW c, NEW p \in Paths, NEW q \in Paths, Move(c, p, q)
    PROVE  fs' \in [Paths -> Object] /\ clean' \subseteq clean
<1>1. Missing \in Object /\ fs[p] \in Object
  BY DEF TypeOK, Object
<1> QED BY <1>1 DEF TypeOK, Move, Change

LEMMA ObjectMembers ==
    /\ Missing \in Object
    /\ \A i \in FreeIds, d \in Contents : File(i, d) \in Object
    /\ \A i \in FreeIds, d \in Folder : Directory(i, d) \in Object
BY DEF Object, FreeIds

LEMMA EffectTyped ==
    ASSUME TypeInv, NEW c \in Checkpoints, rows[c].status # "none",
           Effect(c, rows[c]) \/ Torn(c, rows[c])
    PROVE  fs' \in [Paths -> Object] /\ clean' \subseteq clean
<1> DEFINE r == rows[c]
<1>1. /\ r.src \in Paths
      /\ r.op \in Renames => r.dst \in Paths
      /\ r.op \in {"create_file", "update_file"} => r.body \in Contents
      /\ fs[r.src] \in Object
  BY UndoAssumption DEF TypeInv, TypeOK, Requested
<1>2. TypeOK
  BY DEF TypeInv
<1> HIDE DEF r
<1>3. ASSUME Change(c, fs) PROVE fs' \in [Paths -> Object] /\ clean' \subseteq clean
  BY <1>2, <1>3 DEF Change, TypeOK
<1>4. ASSUME NEW o \in Object, Put(c, r.src, o)
      PROVE fs' \in [Paths -> Object] /\ clean' \subseteq clean
  BY <1>1, <1>2, <1>4, PutTyped
<1>5. ASSUME r.op \in Renames, Move(c, r.src, r.dst)
      PROVE fs' \in [Paths -> Object] /\ clean' \subseteq clean
  BY <1>1, <1>2, <1>5, MoveTyped
<1>6. CASE Effect(c, r)
  BY <1>1, <1>3, <1>4, <1>5, <1>6, ObjectMembers, FileObject DEF Effect, Renames, Folder
<1>7. CASE Torn(c, r)
  BY <1>1, <1>3, <1>4, <1>7, ObjectMembers, FileObject, FolderObject DEF Torn, Folder
<1> QED BY <1>6, <1>7 DEF r

LEMMA InverseTyped ==
    ASSUME TypeInv, NEW c \in Checkpoints, At(c, "armed"), Inverse(c, rows[c])
    PROVE  fs' \in [Paths -> Object] /\ clean' \subseteq clean
<1> DEFINE r == rows[c]
<1>1. /\ r.src \in Paths
      /\ r.op \in Renames => r.dst \in Paths
      /\ r.op \in Restores => r.preimage \in Contents
  BY DEF TypeInv, Requested, Placed
<1>2. TypeOK
  BY DEF TypeInv
<1> HIDE DEF r
<1>3. ASSUME NEW o \in Object, Put(c, r.src, o)
      PROVE fs' \in [Paths -> Object] /\ clean' \subseteq clean
  BY <1>1, <1>2, <1>3, PutTyped
<1>4. ASSUME r.op \in Renames, Move(c, r.dst, r.src)
      PROVE fs' \in [Paths -> Object] /\ clean' \subseteq clean
  BY <1>1, <1>2, <1>4, MoveTyped
<1>5. Inverse(c, r)
  BY DEF r
<1> QED
  BY <1>1, <1>3, <1>4, <1>5, ObjectMembers DEF Inverse, Restores

\* A row after a write: typed, and the same call.
LEMMA StatusWrite ==
    ASSUME rows \in [Checkpoints -> Row], NEW c \in Checkpoints, NEW s \in Status,
           SetStatus(c, s)
    PROVE  /\ rows' \in [Checkpoints -> Row]
           /\ rows'[c] = [rows[c] EXCEPT !.status = s]
           /\ \A k \in Checkpoints \ {c} : rows'[k] = rows[k]
           /\ rows'[c].status = s
           /\ rows'[c].op = rows[c].op /\ rows'[c].src = rows[c].src
           /\ rows'[c].dst = rows[c].dst /\ rows'[c].body = rows[c].body
<1>1. rows[c] \in Row
  OBVIOUS
<1>2. [rows[c] EXCEPT !.status = s] \in Row
  BY <1>1 DEF Row
<1> QED BY <1>1, <1>2 DEF SetStatus, Row

LEMMA SeenFile ==
    ASSUME NEW o \in Seen, o.kind = "file"
    PROVE  o.id \in Ids /\ o.data \in Contents
<1>1. PICK i \in Ids : \E d \in Contents : o = File(i, d)
  BY DEF Seen, Missing, Directory
<1>2. PICK d \in Contents : o = File(i, d)
  BY <1>1
<1> QED BY <1>2 DEF File

\* A step that starts no call leaves what the rows ask for.
SameCalls == \A k \in Checkpoints :
    /\ rows'[k].status # "none" => rows[k].status # "none"
    /\ rows'[k].op = rows[k].op /\ rows'[k].src = rows[k].src
    /\ rows'[k].dst = rows[k].dst /\ rows'[k].body = rows[k].body

LEMMA SameCallsRequested == Requested /\ SameCalls => Requested'
BY DEF Requested, SameCalls

LEMMA TypeStep ==
    ASSUME TypeInv, Next
    PROVE  TypeInv'
<1> USE DEF At, Goto, SetStatus, Untouched, Idle
<1>0. /\ fs \in [Paths -> Object]
      /\ rows \in [Checkpoints -> Row]
      /\ job \in {Idle} \cup [c : Checkpoints, at : Steps]
      /\ up \in BOOLEAN
      /\ acked \subseteq Checkpoints
      /\ made \in [Checkpoints -> Nat]
      /\ undone \in [Checkpoints -> Nat]
      /\ clean \subseteq Checkpoints
      /\ calm \in BOOLEAN
      /\ edits \in Nat
      /\ NoOne \notin Checkpoints
  BY UndoAssumption DEF TypeInv, TypeOK
<1>1. ASSUME NEW c \in Checkpoints, NEW op \in Operations, NEW s \in Paths,
             NEW d \in Paths \cup {NoPath}, NEW b \in Bodies \cup {NoData},
             Begin(c, op, s, d, b)
      PROVE  TypeInv'
  <2> DEFINE row == [Blank EXCEPT !.status = "intent", !.op = op, !.src = s,
                                  !.dst = d, !.body = b]
  <2>1. /\ row \in Row
        /\ row.status = "intent" /\ row.op = op /\ row.src = s
        /\ row.dst = d /\ row.body = b
    <3>1. Missing \in Seen /\ "intent" \in Status
      BY DEF Seen, Status
    <3> QED BY <3>1 DEF Blank, Row
  <2>2. /\ rows' = [rows EXCEPT ![c] = row] /\ Goto(c, "intent") /\ up
        /\ UNCHANGED <<fs, clean, made, undone, up, acked, calm, edits>>
        /\ (d = NoPath) <=> (op \notin Renames)
        /\ (b = NoData) <=> (op \notin {"create_file", "update_file"})
        /\ d # s
    BY <1>1 DEF Begin
  <2> HIDE DEF row
  <2>3. TypeOK'
    BY <1>0, <2>1, <2>2 DEF TypeOK, Steps
  <2>4. Requested'
    BY <1>0, <2>1, <2>2, UndoAssumption DEF TypeInv, Requested
  <2>5. Placed'
    BY <1>0, <2>1, <2>2 DEF TypeInv, Placed
  <2> QED BY <2>3, <2>4, <2>5 DEF TypeInv
<1>2. ASSUME NEW c \in Checkpoints, Prepare(c) PROVE TypeInv'
  <2> DEFINE source == SeenAt(rows[c].src)
             destination == SeenAt(rows[c].dst)
             preimage == Preimage(rows[c].op, source)
  <2>1. source \in Seen /\ destination \in Seen
    BY <1>0, SeenTyped DEF TypeInv, Row
  <2>2. preimage \in Contents \cup {NoData}
    <3>1. source.kind = "file" => source.data \in Contents
      BY <2>1, SeenFile
    <3> QED BY <3>1 DEF Preimage
  <2>3. Exact(rows[c].op, source, destination, preimage) \in BOOLEAN
    BY DEF Exact
  <2>4. rows' = [rows EXCEPT ![c].status = "prepared", ![c].pre = source,
                    ![c].preDst = destination, ![c].preimage = preimage,
                    ![c].exact = Exact(rows[c].op, source, destination, preimage)]
    BY <1>2 DEF Prepare
  <2> HIDE DEF source, destination, preimage
  <2> DEFINE row == [rows[c] EXCEPT !.status = "prepared", !.pre = source,
                       !.preDst = destination, !.preimage = preimage,
                       !.exact = Exact(rows[c].op, source, destination, preimage)]
  <2>5. rows[c] \in Row /\ "prepared" \in Status
    BY <1>0 DEF Status
  <2>6. /\ row \in Row
        /\ row.status = "prepared" /\ row.op = rows[c].op /\ row.src = rows[c].src
        /\ row.dst = rows[c].dst /\ row.body = rows[c].body
    BY <2>1, <2>2, <2>3, <2>5 DEF Row
  <2>7. rows' = [rows EXCEPT ![c] = row]
    BY <2>4
  <2> HIDE DEF row
  <2>8. /\ At(c, "intent") /\ Goto(c, "prepared") /\ clean' = clean \cup {c}
        /\ UNCHANGED <<fs, made, undone, up, acked, calm, edits>>
        /\ rows[c].status = "intent"
    BY <1>2 DEF Prepare, TypeInv, Placed
  <2>9. TypeOK'
    BY <1>0, <2>6, <2>7, <2>8 DEF TypeOK, Steps
  <2>10. SameCalls
    BY <1>0, <2>6, <2>7, <2>8 DEF SameCalls
  <2>11. Placed'
    BY <1>0, <2>6, <2>7, <2>8 DEF TypeInv, Placed
  <2> QED BY <2>9, <2>10, <2>11, SameCallsRequested DEF TypeInv
<1>3. ASSUME NEW c \in Checkpoints, Recheck(c) PROVE TypeInv'
  <2>1. TypeOK'
    BY <1>0, <1>3 DEF Recheck, TypeOK, Steps
  <2>2. Requested' /\ Placed'
    BY <1>0, <1>3 DEF Recheck, TypeInv, Requested, Placed
  <2> QED BY <2>1, <2>2 DEF TypeInv
<1>4. ASSUME NEW c \in Checkpoints, Refuse(c) \/ Repair(c) PROVE TypeInv'
  <2>1. PICK s \in {"failed", "repair_required"} : SetStatus(c, s)
    BY <1>4 DEF Refuse, Repair
  <2>2. s \in Status
    BY DEF Status
  <2> HIDE DEF SetStatus
  <2>3. /\ job.c = c /\ job # Idle /\ job' = Idle
        /\ UNCHANGED <<fs, clean, made, undone, up, acked, calm, edits>>
    BY <1>0, <1>4 DEF Refuse, Repair
  <2>4. TypeOK'
    BY <1>0, <2>1, <2>2, <2>3, StatusWrite DEF TypeOK
  <2>5. rows[c].status # "none"
    BY <1>4 DEF Refuse, Repair, TypeInv, Placed
  <2>6. SameCalls
    BY <1>0, <2>1, <2>2, <2>5, StatusWrite DEF SameCalls
  <2>7. Placed'
    BY <1>0, <2>1, <2>2, <2>3, StatusWrite DEF TypeInv, Placed
  <2> QED BY <2>4, <2>6, <2>7, SameCallsRequested DEF TypeInv
<1>5. ASSUME NEW c \in Checkpoints, Start(c) PROVE TypeInv'
  <2>1. "effect_started" \in Status /\ SetStatus(c, "effect_started")
    BY <1>5 DEF Start, Status
  <2>2. /\ At(c, "checked") /\ Goto(c, "started")
        /\ UNCHANGED <<fs, clean, made, undone, up, acked, calm, edits>>
        /\ rows[c].status = "prepared"
    BY <1>5 DEF Start, TypeInv, Placed
  <2> HIDE DEF SetStatus
  <2>3. TypeOK'
    BY <1>0, <2>1, <2>2, StatusWrite DEF TypeOK, Steps
  <2>4. SameCalls
    BY <1>0, <2>1, <2>2, StatusWrite DEF SameCalls
  <2>5. Placed'
    <3>1. \A k, step : At(k, step)' <=> (k = c /\ step = "started")
      BY <2>2
    <3>2. rows'[c].status = "effect_started"
      BY <1>0, <2>1, StatusWrite
    <3>3. ~up' => job' = Idle
      BY <2>2 DEF TypeInv, Placed, At, Idle
    <3> HIDE DEF At, Goto
    <3> QED BY <3>1, <3>2, <3>3 DEF Placed
  <2> QED BY <2>3, <2>4, <2>5, SameCallsRequested DEF TypeInv
<1>6. ASSUME NEW c \in Checkpoints, Mutate(c) \/ MutateFails(c) PROVE TypeInv'
  <2>1. At(c, "started") /\ rows[c].status # "none"
    BY <1>6 DEF Mutate, MutateFails, TypeInv, Placed
  <2>2. fs' \in [Paths -> Object] /\ clean' \subseteq clean
    BY <1>6, <2>1, EffectTyped DEF Mutate, MutateFails
  <2>3. /\ made' \in [Checkpoints -> Nat]
        /\ UNCHANGED <<rows, undone, up, acked, calm, edits>>
        /\ job' = [c |-> c, at |-> "mutated"] \/ job' = [c |-> c, at |-> "broken"]
    BY <1>0, <1>6 DEF Mutate, MutateFails, Begun
  <2>4. TypeOK'
    BY <1>0, <2>2, <2>3 DEF TypeOK, Steps
  <2>5. SameCalls
    BY <2>3 DEF SameCalls
  <2>6. Placed'
    <3>1. PICK a \in {"mutated", "broken"} : job' = [c |-> c, at |-> a]
      BY <2>3
    <3>2. \A k, step : At(k, step)' <=> (k = c /\ step = a)
      BY <3>1
    <3>3. rows'[c].status = "effect_started" /\ (~up' => job' = Idle)
      BY <1>0, <2>1, <2>3 DEF TypeInv, Placed
    <3> HIDE DEF At
    <3> QED BY <3>2, <3>3 DEF Placed
  <2> QED BY <2>4, <2>5, <2>6, SameCallsRequested DEF TypeInv
<1>7. ASSUME NEW c \in Checkpoints, Finish(c) PROVE TypeInv'
  <2> DEFINE post == SeenAt(Target(rows[c]))
             next == IF rows[c].exact THEN "ready" ELSE "not_undoable"
             row == [rows[c] EXCEPT !.post = post, !.status = next]
  <2>1. Target(rows[c]) \in Paths \cup {NoPath}
    BY <1>0 DEF Target, Row
  <2>2. post \in Seen /\ next \in Status /\ next # "none"
    BY <2>1, SeenTyped DEF TypeInv, Status
  <2>3. rows' = [rows EXCEPT ![c] = row]
    BY <1>7 DEF Finish
  <2>4. /\ At(c, "mutated") /\ job' = Idle
        /\ UNCHANGED <<fs, clean, made, undone, up, acked, calm, edits>>
        /\ rows[c].status = "effect_started" /\ rows[c] \in Row
    BY <1>0, <1>7 DEF Finish, TypeInv, Placed
  <2> HIDE DEF post, next
  <2>5. /\ row \in Row
        /\ row.status = next /\ row.op = rows[c].op /\ row.src = rows[c].src
        /\ row.dst = rows[c].dst /\ row.body = rows[c].body
    BY <2>2, <2>4 DEF Row
  <2> HIDE DEF row
  <2>6. TypeOK'
    BY <1>0, <2>3, <2>4, <2>5 DEF TypeOK
  <2>7. Requested' /\ Placed'
    BY <1>0, <2>3, <2>4, <2>5 DEF TypeInv, Requested, Placed
  <2> QED BY <2>6, <2>7 DEF TypeInv
<1>8. ASSUME NEW c \in Checkpoints, Claim(c) PROVE TypeInv'
  <2> DEFINE row == [rows[c] EXCEPT !.status = "undo_started", !.consumed = TRUE]
  <2>1. rows' = [rows EXCEPT ![c] = row]
    BY <1>8 DEF Claim
  <2>2. /\ Goto(c, "claimed") /\ up
        /\ UNCHANGED <<fs, clean, made, undone, up, acked, calm, edits>>
        /\ rows[c].status = "ready" /\ rows[c] \in Row /\ "undo_started" \in Status
    BY <1>0, <1>8 DEF Claim, Status
  <2>3. /\ row \in Row
        /\ row.status = "undo_started" /\ row.op = rows[c].op /\ row.src = rows[c].src
        /\ row.dst = rows[c].dst /\ row.body = rows[c].body
    BY <2>2 DEF Row
  <2> HIDE DEF row
  <2>4. TypeOK'
    BY <1>0, <2>1, <2>2, <2>3 DEF TypeOK, Steps
  <2>5. Requested' /\ Placed'
    BY <1>0, <2>1, <2>2, <2>3 DEF TypeInv, Requested, Placed
  <2> QED BY <2>4, <2>5 DEF TypeInv
<1>9. ASSUME NEW c \in Checkpoints, Answer(c) PROVE TypeInv'
  <2>1. TypeOK'
    BY <1>0, <1>9 DEF Answer, TypeOK
  <2>2. Requested' /\ Placed'
    BY <1>9 DEF Answer, TypeInv, Requested, Placed
  <2> QED BY <2>1, <2>2 DEF TypeInv
<1>10. ASSUME NEW c \in Checkpoints, Arm(c) PROVE TypeInv'
  <2>1. TypeOK'
    BY <1>0, <1>10 DEF Arm, TypeOK, Steps
  <2>2. Requested' /\ Placed'
    BY <1>0, <1>10 DEF Arm, TypeInv, Requested, Placed, Row
  <2> QED BY <2>1, <2>2 DEF TypeInv
<1>11. ASSUME NEW c \in Checkpoints, Revert(c) PROVE TypeInv'
  <2>1. fs' \in [Paths -> Object] /\ clean' \subseteq clean
    BY <1>11, InverseTyped DEF Revert
  <2>2. TypeOK'
    BY <1>0, <1>11, <2>1 DEF Revert, TypeOK, Steps
  <2>3. Requested' /\ Placed'
    BY <1>0, <1>11 DEF Revert, TypeInv, Requested, Placed
  <2> QED BY <2>2, <2>3 DEF TypeInv
<1>12. ASSUME NEW c \in Checkpoints, FinishUndo(c) PROVE TypeInv'
  <2>1. "undone" \in Status /\ SetStatus(c, "undone")
    BY <1>12 DEF FinishUndo, Status
  <2>2. /\ At(c, "reverted") /\ job' = Idle /\ acked' = acked \cup {c}
        /\ UNCHANGED <<fs, clean, made, undone, up, calm, edits>>
        /\ rows[c].status = "undo_started"
    BY <1>12 DEF FinishUndo, TypeInv, Placed
  <2> HIDE DEF SetStatus
  <2>3. TypeOK'
    BY <1>0, <2>1, <2>2, StatusWrite DEF TypeOK
  <2>4. SameCalls
    BY <1>0, <2>1, <2>2, StatusWrite DEF SameCalls
  <2>5. Placed'
    BY <1>0, <2>1, <2>2, StatusWrite DEF TypeInv, Placed
  <2> QED BY <2>3, <2>4, <2>5, SameCallsRequested DEF TypeInv
<1>13. ASSUME StoreFails \/ Crash PROVE TypeInv'
  <2>1. TypeOK'
    BY <1>0, <1>13 DEF StoreFails, Crash, TypeOK
  <2>2. Requested' /\ Placed'
    BY <1>0, <1>13 DEF StoreFails, Crash, TypeInv, Requested, Placed
  <2> QED BY <2>1, <2>2 DEF TypeInv
<1>14. ASSUME Restart PROVE TypeInv'
  <2>1. \A s \in Status : Recovered(s) \in Status /\ (Recovered(s) # "none" => s # "none")
    BY DEF Recovered, Status
  <2>2. \A c \in Checkpoints :
          [rows[c] EXCEPT !.status = Recovered(rows[c].status)] \in Row
    BY <1>0, <2>1 DEF Row
  <2>3. TypeOK'
    BY <1>0, <1>14, <2>2 DEF Restart, TypeOK
  <2>4. job = Idle /\ job' = Idle
    BY <1>14 DEF Restart, TypeInv, Placed
  <2>5. SameCalls
    <3> SUFFICES ASSUME NEW k \in Checkpoints
                 PROVE  /\ rows'[k].status # "none" => rows[k].status # "none"
                        /\ rows'[k].op = rows[k].op /\ rows'[k].src = rows[k].src
                        /\ rows'[k].dst = rows[k].dst /\ rows'[k].body = rows[k].body
      BY DEF SameCalls
    <3>1. rows'[k] = [rows[k] EXCEPT !.status = Recovered(rows[k].status)]
      BY <1>14 DEF Restart
    <3>2. rows[k] \in Row
      BY <1>0
    <3> QED BY <2>1, <3>1, <3>2 DEF Row
  <2>6. Placed'
    BY <1>0, <1>14, <2>4 DEF Restart, Placed
  <2> QED BY <2>3, <2>5, <2>6, SameCallsRequested DEF TypeInv
<1>15. ASSUME Elsewhere, fs' \in [Paths -> Object], clean' \subseteq clean PROVE TypeInv'
  <2>1. TypeOK'
    BY <1>0, <1>15 DEF Elsewhere, TypeOK
  <2>2. Requested' /\ Placed'
    BY <1>15 DEF Elsewhere, TypeInv, Requested, Placed
  <2> QED BY <2>1, <2>2 DEF TypeInv
<1>16. ASSUME NEW p \in Paths, OthersCreate(p) \/ OthersWrite(p) \/ OthersRemove(p)
       PROVE  TypeInv'
  <2>1. TypeOK /\ fs[p] \in Object
    BY <1>0 DEF TypeInv
  <2>2. \E o \in Object : Put(NoOne, p, o)
    BY <1>16, <2>1, ObjectMembers, FileObject, FolderObject
    DEF OthersCreate, OthersWrite, OthersRemove
  <2> QED BY <1>15, <1>16, <2>1, <2>2, PutTyped DEF OthersCreate, OthersWrite, OthersRemove
<1>17. ASSUME NEW p \in Paths, NEW q \in Paths, OthersMove(p, q) PROVE TypeInv'
  BY <1>15, <1>17, MoveTyped DEF OthersMove, TypeInv
<1> QED
  BY <1>1, <1>2, <1>3, <1>4, <1>5, <1>6, <1>7, <1>8, <1>9, <1>10, <1>11, <1>12, <1>13,
     <1>14, <1>16, <1>17 DEF Next

LEMMA TypeInit == Init => TypeInv
BY DEF Init, TypeInv, TypeOK, Requested, Placed, Blank, Row, Status, Seen, At, Idle, Steps

\* The model is typed whatever its constants: rows, files and the call in
\* flight stay what the code's types make them, and a call is always at the
\* step that its row's status records.
THEOREM TypeCorrect == Spec => []TypeOK
<1>1. TypeInv /\ UNCHANGED vars => TypeInv'
  BY DEF TypeInv, TypeOK, Requested, Placed, At, vars
<1>2. TypeInv /\ [Next]_vars => TypeInv'
  BY <1>1, TypeStep
<1>3. TypeInv => TypeOK
  BY DEF TypeInv
<1> QED BY <1>2, <1>3, TypeInit, PTL DEF Spec

-----------------------------------------------------------------------------
(* What the rows say of their effects.                                      *)

\* How often a change and its inverse can have been begun, by the status of
\* the row and, while a call is in flight, by its step.
Count(c) ==
    LET s == rows[c].status IN
    /\ s \in {"none", "intent", "prepared", "failed"} => made[c] = 0 /\ undone[c] = 0
    /\ s = "effect_started" => made[c] \in {0, 1} /\ undone[c] = 0
    /\ s \in {"ready", "not_undoable"} => made[c] = 1 /\ undone[c] = 0
    /\ s = "undo_started" => made[c] = 1 /\ undone[c] \in {0, 1}
    /\ s = "undone" => made[c] = 1 /\ undone[c] = 1
    /\ s = "repair_required" =>
          /\ made[c] \in {0, 1} /\ undone[c] \in {0, 1}
          /\ undone[c] = 1 => made[c] = 1
    /\ At(c, "started") => made[c] = 0
    /\ At(c, "mutated") => made[c] = 1
    /\ At(c, "claimed") \/ At(c, "armed") => undone[c] = 0
    /\ At(c, "reverted") => undone[c] = 1
    /\ c \in acked => s = "undone"

Tally == \A c \in Checkpoints : Count(c)

LEMMA CountFrame ==
    ASSUME NEW k, Count(k), rows'[k].status = rows[k].status,
           made'[k] = made[k], undone'[k] = undone[k],
           k \in acked' => k \in acked,
           \A step : At(k, step)' => At(k, step)
    PROVE  Count(k)'
BY DEF Count

LEMMA TallyStep ==
    ASSUME TypeInv, Tally, Next
    PROVE  Tally'
<1> USE DEF Idle
<1>0. /\ rows \in [Checkpoints -> Row]
      /\ made \in [Checkpoints -> Nat]
      /\ undone \in [Checkpoints -> Nat]
      /\ NoOne \notin Checkpoints
      /\ \A k \in Checkpoints : \A step : ~(Idle = [c |-> k, at |-> step])
  BY UndoAssumption DEF TypeInv, TypeOK
<1>1. ASSUME NEW c \in Checkpoints, NEW op \in Operations, NEW s \in Paths,
             NEW d \in Paths \cup {NoPath}, NEW b \in Bodies \cup {NoData},
             Begin(c, op, s, d, b), NEW k \in Checkpoints
      PROVE  Count(k)'
  <2>1. /\ rows' = [rows EXCEPT ![c] = [Blank EXCEPT !.status = "intent", !.op = op,
                                        !.src = s, !.dst = d, !.body = b]]
        /\ rows[c] = Blank /\ job' = [c |-> c, at |-> "intent"]
        /\ UNCHANGED <<made, undone, acked>>
    BY <1>1 DEF Begin, Goto, Untouched
  <2>2. Count(k) /\ Count(c)
    BY DEF Tally
  <2>3. CASE k = c
    BY <1>0, <2>1, <2>2, <2>3 DEF Count, At, Blank
  <2>4. CASE k # c
    BY <1>0, <2>1, <2>2, <2>4, CountFrame DEF At
  <2> QED BY <2>3, <2>4
<1>2. ASSUME NEW c \in Checkpoints, Prepare(c), NEW k \in Checkpoints PROVE Count(k)'
  <2>1. /\ rows'[c].status = "prepared" /\ (k # c => rows'[k] = rows[k])
        /\ rows[c].status = "intent" /\ job' = [c |-> c, at |-> "prepared"]
        /\ UNCHANGED <<made, undone, acked>>
    BY <1>0, <1>2 DEF Prepare, Goto, TypeInv, Placed, Row
  <2>2. Count(k)
    BY DEF Tally
  <2>3. CASE k = c
    BY <2>1, <2>2, <2>3 DEF Count, At
  <2>4. CASE k # c
    BY <2>1, <2>2, <2>4, CountFrame DEF At
  <2> QED BY <2>3, <2>4
<1>3. ASSUME NEW c \in Checkpoints, NEW s \in Status, NEW k \in Checkpoints,
             SetStatus(c, s), UNCHANGED <<made, undone>>, acked' \subseteq acked \cup {c},
             Count(c)', \A step : At(k, step)' => k = c
      PROVE  Count(k)'
  <2>1. k # c => rows'[k] = rows[k]
    <3>1. \A j \in Checkpoints \ {c} : rows'[j] = rows[j]
      BY <1>0, <1>3, StatusWrite
    <3> QED BY <3>1
  <2>2. Count(k)
    BY DEF Tally
  <2> QED BY <1>3, <2>1, <2>2, CountFrame
<1>4. ASSUME NEW c \in Checkpoints, Recheck(c) \/ Arm(c), NEW k \in Checkpoints PROVE Count(k)'
  <2>1. /\ UNCHANGED <<rows, made, undone, acked>>
        /\ \/ At(c, "prepared") /\ job' = [c |-> c, at |-> "checked"]
           \/ At(c, "claimed") /\ job' = [c |-> c, at |-> "armed"]
    BY <1>4 DEF Recheck, Arm, Goto, Untouched
  <2>2. Count(k) /\ Count(c)
    BY DEF Tally
  <2>3. CASE k = c
    BY <2>1, <2>2, <2>3 DEF Count, At
  <2>4. CASE k # c
    BY <2>1, <2>2, <2>4, CountFrame DEF At
  <2> QED BY <2>3, <2>4
<1>5. ASSUME NEW c \in Checkpoints, Refuse(c) \/ Repair(c), NEW k \in Checkpoints PROVE Count(k)'
  <2>1. /\ UNCHANGED <<made, undone, acked>> /\ job' = Idle
        /\ \/ SetStatus(c, "failed") /\ rows[c].status \in {"intent", "prepared"}
           \/ SetStatus(c, "repair_required")
              /\ rows[c].status \in {"effect_started", "undo_started"}
    BY <1>5 DEF Refuse, Repair, Untouched, TypeInv, Placed
  <2>2. "failed" \in Status /\ "repair_required" \in Status
    BY DEF Status
  <2>3. Count(c)
    BY DEF Tally
  <2>4. \A j \in Checkpoints : \A step : ~At(j, step)'
    BY <1>0, <2>1 DEF At
  <2>5. CASE SetStatus(c, "failed") /\ rows[c].status \in {"intent", "prepared"}
    <3>1. rows'[c].status = "failed"
      BY <1>0, <2>2, <2>5, StatusWrite
    <3>2. Count(c)'
      BY <2>1, <2>3, <2>4, <2>5, <3>1 DEF Count
    <3> QED BY <1>3, <2>1, <2>2, <2>4, <2>5, <3>2
  <2>6. CASE SetStatus(c, "repair_required") /\ rows[c].status \in {"effect_started", "undo_started"}
    <3>1. rows'[c].status = "repair_required"
      BY <1>0, <2>2, <2>6, StatusWrite
    <3>2. Count(c)'
      BY <2>1, <2>3, <2>4, <2>6, <3>1 DEF Count
    <3> QED BY <1>3, <2>1, <2>2, <2>4, <2>6, <3>2
  <2> QED BY <2>1, <2>5, <2>6
<1>6. ASSUME NEW c \in Checkpoints, Start(c), NEW k \in Checkpoints PROVE Count(k)'
  <2>1. /\ UNCHANGED <<made, undone, acked>> /\ job' = [c |-> c, at |-> "started"]
        /\ SetStatus(c, "effect_started") /\ rows[c].status = "prepared"
        /\ "effect_started" \in Status
    BY <1>6 DEF Start, Goto, Untouched, TypeInv, Placed, Status
  <2>2. Count(c) /\ rows'[c].status = "effect_started"
    BY <1>0, <2>1, StatusWrite DEF Tally
  <2>3. Count(c)'
    BY <2>1, <2>2 DEF Count, At
  <2> QED BY <1>3, <2>1, <2>3 DEF At
<1>7. ASSUME NEW c \in Checkpoints, Mutate(c) \/ MutateFails(c), NEW k \in Checkpoints
      PROVE  Count(k)'
  <2>1. /\ UNCHANGED <<rows, undone, acked>> /\ At(c, "started")
        /\ made' = [made EXCEPT ![c] = @ + 1]
        /\ \/ job' = [c |-> c, at |-> "mutated"]
           \/ job' = [c |-> c, at |-> "broken"]
    BY <1>7 DEF Mutate, MutateFails, Begun, Goto
  <2>2. Count(k) /\ Count(c) /\ rows[c].status = "effect_started"
    BY <2>1 DEF Tally, TypeInv, Placed
  <2>3. CASE k = c
    <3>1. made'[c] = 1
      BY <1>0, <2>1, <2>2 DEF Count
    <3> QED BY <2>1, <2>2, <2>3, <3>1 DEF Count, At
  <2>4. CASE k # c
    BY <1>0, <2>1, <2>2, <2>4, CountFrame DEF At
  <2> QED BY <2>3, <2>4
<1>8. ASSUME NEW c \in Checkpoints, Finish(c), NEW k \in Checkpoints PROVE Count(k)'
  <2>1. /\ UNCHANGED <<made, undone, acked>> /\ job' = Idle
        /\ At(c, "mutated") /\ rows[c].status = "effect_started"
        /\ rows'[c].status \in {"ready", "not_undoable"} /\ (k # c => rows'[k] = rows[k])
    BY <1>0, <1>8 DEF Finish, Untouched, TypeInv, Placed, Row
  <2>2. Count(k)
    BY DEF Tally
  <2>3. \A step : ~At(k, step)'
    BY <1>0, <2>1 DEF At
  <2>4. CASE k = c
    BY <2>1, <2>2, <2>3, <2>4 DEF Count
  <2>5. CASE k # c
    BY <2>1, <2>2, <2>3, <2>5, CountFrame
  <2> QED BY <2>4, <2>5
<1>9. ASSUME NEW c \in Checkpoints, Claim(c), NEW k \in Checkpoints PROVE Count(k)'
  <2>1. /\ UNCHANGED <<made, undone, acked>> /\ job' = [c |-> c, at |-> "claimed"]
        /\ rows[c].status = "ready"
        /\ rows'[c].status = "undo_started" /\ (k # c => rows'[k] = rows[k])
    BY <1>0, <1>9 DEF Claim, Goto, Untouched, Row
  <2>2. Count(k)
    BY DEF Tally
  <2>3. CASE k = c
    BY <2>1, <2>2, <2>3 DEF Count, At
  <2>4. CASE k # c
    BY <2>1, <2>2, <2>4, CountFrame DEF At
  <2> QED BY <2>3, <2>4
<1>10. ASSUME NEW c \in Checkpoints, Answer(c), NEW k \in Checkpoints PROVE Count(k)'
  <2>1. /\ UNCHANGED <<rows, job, made, undone>> /\ acked' = acked \cup {c}
        /\ rows[c].status = "undone"
    BY <1>10 DEF Answer, Untouched
  <2> QED BY <2>1 DEF Tally, Count, At
<1>11. ASSUME NEW c \in Checkpoints, Revert(c), NEW k \in Checkpoints PROVE Count(k)'
  <2>1. /\ UNCHANGED <<rows, made, acked>> /\ At(c, "armed")
        /\ undone' = [undone EXCEPT ![c] = @ + 1]
        /\ job' = [c |-> c, at |-> "reverted"]
    BY <1>11 DEF Revert, Goto
  <2>2. Count(k) /\ Count(c) /\ rows[c].status = "undo_started"
    BY <2>1 DEF Tally, TypeInv, Placed
  <2>3. CASE k = c
    <3>1. undone'[c] = 1
      BY <1>0, <2>1, <2>2 DEF Count
    <3> QED BY <2>1, <2>2, <2>3, <3>1 DEF Count, At
  <2>4. CASE k # c
    BY <1>0, <2>1, <2>2, <2>4, CountFrame DEF At
  <2> QED BY <2>3, <2>4
<1>12. ASSUME NEW c \in Checkpoints, FinishUndo(c), NEW k \in Checkpoints PROVE Count(k)'
  <2>1. /\ UNCHANGED <<made, undone>> /\ job' = Idle /\ At(c, "reverted")
        /\ acked' = acked \cup {c} /\ SetStatus(c, "undone")
        /\ rows[c].status = "undo_started" /\ "undone" \in Status
    BY <1>12 DEF FinishUndo, Untouched, TypeInv, Placed, Status
  <2>2. Count(c) /\ rows'[c].status = "undone"
    BY <1>0, <2>1, StatusWrite DEF Tally
  <2>3. \A j \in Checkpoints : \A step : ~At(j, step)'
    BY <1>0, <2>1 DEF At
  <2>4. Count(c)'
    BY <2>1, <2>2, <2>3 DEF Count
  <2> QED BY <1>3, <2>1, <2>3, <2>4
<1>13. ASSUME StoreFails \/ Crash, NEW k \in Checkpoints PROVE Count(k)'
  <2>1. UNCHANGED <<rows, made, undone, acked>> /\ job' = Idle
    BY <1>13 DEF StoreFails, Crash, Untouched
  <2>2. \A step : ~At(k, step)'
    BY <1>0, <2>1 DEF At
  <2> QED BY <2>1, <2>2, CountFrame DEF Tally
<1>14. ASSUME Restart, NEW k \in Checkpoints PROVE Count(k)'
  <2>1. /\ UNCHANGED <<job, made, undone, acked>> /\ job = Idle
        /\ rows'[k] = [rows[k] EXCEPT !.status = Recovered(rows[k].status)]
        /\ rows[k] \in Row
    BY <1>0, <1>14 DEF Restart, Untouched, TypeInv, Placed
  <2>2. rows'[k].status = Recovered(rows[k].status)
    BY <2>1 DEF Row
  <2>3. \A step : ~At(k, step)'
    BY <1>0, <2>1 DEF At
  <2>4. Count(k)
    BY DEF Tally
  <2> QED BY <2>1, <2>2, <2>3, <2>4 DEF Count, Recovered
<1>15. ASSUME Elsewhere, NEW k \in Checkpoints PROVE Count(k)'
  <2>1. UNCHANGED <<rows, job, made, undone, acked>>
    BY <1>15 DEF Elsewhere
  <2> QED BY <2>1, CountFrame DEF Tally, At
<1> QED
  BY <1>1, <1>2, <1>4, <1>5, <1>6, <1>7, <1>8, <1>9, <1>10, <1>11, <1>12, <1>13, <1>14, <1>15
  DEF Next, Tally, OthersCreate, OthersWrite, OthersRemove, OthersMove

LEMMA TallyInit == Init => Tally
<1>1. Init => \A c \in Checkpoints :
        rows[c].status = "none" /\ made[c] = 0 /\ undone[c] = 0 /\ c \notin acked
  BY DEF Init, Blank
<1>2. Init => \A c \in Checkpoints : \A step : ~At(c, step)
  BY UndoAssumption DEF Init, At, Idle
<1> QED BY <1>1, <1>2 DEF Tally, Count

\* What the tally says of the three properties, over every behaviour.
LEMMA TallyKept == Spec => [](EffectTruth /\ OneShot /\ AckTruthful)
<1> DEFINE Inv == TypeInv /\ Tally
<1>1. Init => Inv
  BY TypeInit, TallyInit
<1>2. Inv /\ [Next]_vars => Inv'
  <2>1. Inv /\ UNCHANGED vars => Inv'
    BY DEF TypeInv, TypeOK, Requested, Placed, Tally, Count, At, vars
  <2> QED BY <2>1, TypeStep, TallyStep
<1>3. Inv => EffectTruth /\ OneShot /\ AckTruthful
  <2> SUFFICES ASSUME Inv, NEW c \in Checkpoints
               PROVE  /\ EffectOf(rows[c].status) = "no_effect" => made[c] = undone[c]
                      /\ EffectOf(rows[c].status) = "known_applied" => made[c] = 1 /\ undone[c] = 0
                      /\ made[c] <= 1 /\ undone[c] <= made[c]
                      /\ c \in acked => undone[c] = 1
    BY DEF EffectTruth, OneShot, AckTruthful, TypeInv, TypeOK
  <2>1. rows[c].status \in Status
    BY DEF TypeInv, TypeOK, Row
  <2>2. Count(c)
    BY DEF Tally
  <2> QED BY <2>1, <2>2 DEF Count, EffectOf, Status
<1> HIDE DEF Inv
<1> QED BY <1>1, <1>2, <1>3, PTL DEF Spec

\* Whatever crashes, store errors, retries and other programs do, the effect
\* state that a row shows (EffectOf) is the truth.
THEOREM EffectsKnown == Spec => []EffectTruth
BY TallyKept, PTL

\* No retry, second click or restart begins a change, or its inverse, twice.
THEOREM ChangesOnce == Spec => []OneShot
BY TallyKept, PTL

\* An undo that was reported done was done, though its record may have failed.
THEOREM AcksTrue == Spec => []AckTruthful
BY TallyKept, PTL

-----------------------------------------------------------------------------
(* What the files hold.                                                     *)

\* Before the effect, and after it, as long as nobody else touched the paths.
Before(r) == SeenAt(r.src) = r.pre /\ SeenAt(r.dst) = r.preDst

Left(r) ==
    /\ r.op = "create_directory" =>
          fs[r.src].kind = "directory" /\ fs[r.src].data = "empty"
    /\ r.op \in Renames => fs[r.src] = Missing /\ SeenAt(r.dst) = r.pre

\* What a row records whatever the files hold.
Recorded(c) ==
    LET r == rows[c] IN
    /\ r.exact =>
          /\ Exact(r.op, r.pre, r.preDst, r.preimage)
          /\ r.op \in Restores => r.preimage = r.pre.data
    /\ r.status \in {"ready", "undo_started", "undone"} => r.exact
    /\ r.status \in {"ready", "undo_started"} => Expected(r, r.post)

\* What a row says of files that only its own change touched.
Faithful(c) ==
    LET r == rows[c] IN
    c \in clean =>
        /\ r.status = "prepared" \/ At(c, "started") => Before(r)
        /\ At(c, "mutated") /\ r.exact => Left(r)
        /\ r.status = "ready" \/ At(c, "claimed") \/ At(c, "armed") =>
              Left(r) /\ SeenAt(Target(r)) = r.post
        /\ At(c, "reverted") /\ r.op \in Renames => SeenAt(r.src) = r.pre
        /\ r.status = "undone" => Restored(r)

\* An undo at its last step looked at its target after anyone else.
Looked == \A c \in Checkpoints : At(c, "armed") /\ calm => Agrees(rows[c])

FileInv == Looked /\ \A c \in Checkpoints : Recorded(c) /\ Faithful(c)

LEMMA SnapshotOf ==
    ASSUME NEW o \in Object
    PROVE  /\ Snapshot(o).kind = o.kind /\ Snapshot(o).id = o.id
           /\ o.kind # "directory" => Snapshot(o) = o
           /\ o.kind = "missing" => o = Missing
           /\ o.kind \in {"missing", "file", "directory"}
BY DEF Object, Snapshot, File, Directory, Missing

LEMMA RecordedFrame ==
    ASSUME NEW k, Recorded(k),
           rows'[k].op = rows[k].op, rows'[k].pre = rows[k].pre, rows'[k].body = rows[k].body,
           rows'[k].preDst = rows[k].preDst, rows'[k].post = rows[k].post,
           rows'[k].preimage = rows[k].preimage, rows'[k].exact = rows[k].exact,
           \/ rows'[k].status = rows[k].status
           \/ rows'[k].status \notin {"ready", "undo_started", "undone"}
           \/ rows'[k].status = "undo_started" /\ rows[k].status = "ready"
           \/ rows'[k].status = "undone" /\ rows[k].status = "undo_started"
    PROVE  Recorded(k)'
BY DEF Recorded, Exact, Expected

\* A checkpoint whose row and whose files a step leaves alone.
LEMMA FaithfulFrame ==
    ASSUME NEW k \in Checkpoints, Requested, Faithful(k), rows'[k] = rows[k],
           k \in clean' => k \in clean /\ \A p \in Reach(rows[k]) : fs'[p] = fs[p],
           \A step : At(k, step)' => At(k, step) /\ rows[k].status # "none"
    PROVE  Faithful(k)'
<1> SUFFICES ASSUME k \in clean', rows[k].status # "none"
             PROVE  Faithful(k)'
  BY DEF Faithful
<1> DEFINE r == rows[k]
<1>1. k \in clean /\ \A p \in Reach(r) : fs'[p] = fs[p]
  OBVIOUS
<1>2. /\ r.src \in Paths
      /\ r.op \in Renames => r.dst \in Paths
      /\ r.op \notin Renames => r.dst = NoPath
  BY DEF Requested
<1>3. fs'[r.src] = fs[r.src] /\ (r.dst # NoPath => fs'[r.dst] = fs[r.dst])
  BY <1>1, <1>2 DEF Reach
<1>4. /\ SeenAt(rows[k].src)' = SeenAt(rows[k].src)
      /\ SeenAt(rows[k].dst)' = SeenAt(rows[k].dst)
  BY <1>3 DEF SeenAt, Snapshot
<1>5. /\ Before(rows[k])' <=> Before(rows[k])
      /\ Left(rows[k])' <=> Left(rows[k])
      /\ Restored(rows[k])' <=> Restored(rows[k])
  BY <1>3, <1>4 DEF Before, Left, Restored
<1>6. SeenAt(Target(rows[k]))' = SeenAt(Target(rows[k]))
  BY <1>4 DEF Target
<1> QED
  BY <1>1, <1>4, <1>5, <1>6 DEF Faithful

\* A change spares the files of every other clean checkpoint.
LEMMA Spared ==
    ASSUME NEW c, NEW f, Change(c, f), NEW k, k # c, k \in clean'
    PROVE  k \in clean /\ \A p \in Reach(rows[k]) : fs'[p] = fs[p]
BY DEF Change

LEMMA IsChange ==
    ASSUME NEW c, NEW r, Effect(c, r) \/ Torn(c, r) \/ Inverse(c, r)
    PROVE  \E f : Change(c, f)
BY DEF Effect, Torn, Inverse, Put, Move

\* A step of one call: what remains to be shown is about its own row.
LEMMA OwnStep ==
    ASSUME TypeInv, FileInv, NEW c \in Checkpoints,
           \A k \in Checkpoints \ {c} : rows'[k] = rows[k],
           \A k \in Checkpoints \ {c} : k \in clean' =>
              k \in clean /\ \A p \in Reach(rows[k]) : fs'[p] = fs[p],
           \A k \in Checkpoints \ {c} : \A step : ~At(k, step)',
           At(c, "armed")' /\ calm' => Agrees(rows[c])',
           Recorded(c)', Faithful(c)'
    PROVE  FileInv'
<1>1. ASSUME NEW k \in Checkpoints \ {c} PROVE Recorded(k)' /\ Faithful(k)'
  <2>1. Recorded(k) /\ Faithful(k) /\ Requested
    BY DEF FileInv, TypeInv
  <2>2. Recorded(k)'
    BY <2>1, RecordedFrame
  <2>3. Faithful(k)'
    BY <2>1, FaithfulFrame
  <2> QED BY <2>2, <2>3
<1>2. Looked'
  BY DEF Looked
<1> QED BY <1>1, <1>2 DEF FileInv

\* What each step of a call leaves its row and files with.
LEMMA PrepareFiles ==
    ASSUME TypeInv, NEW c \in Checkpoints, Prepare(c)
    PROVE  Recorded(c)' /\ Faithful(c)'
<1> DEFINE r == rows[c]
           source == SeenAt(r.src)
           destination == SeenAt(r.dst)
           preimage == Preimage(r.op, source)
<1>1. /\ rows \in [Checkpoints -> Row] /\ r \in Row
      /\ rows' = [rows EXCEPT ![c].status = "prepared", ![c].pre = source,
                    ![c].preDst = destination, ![c].preimage = preimage,
                    ![c].exact = Exact(r.op, source, destination, preimage)]
      /\ job' = [c |-> c, at |-> "prepared"] /\ fs' = fs
  BY DEF Prepare, TypeInv, TypeOK, Goto
<1> HIDE DEF source, destination, preimage
<1>2. /\ rows'[c].status = "prepared" /\ rows'[c].pre = source
      /\ rows'[c].preDst = destination /\ rows'[c].preimage = preimage
      /\ rows'[c].exact = Exact(r.op, source, destination, preimage)
      /\ rows'[c].op = r.op /\ rows'[c].src = r.src /\ rows'[c].dst = r.dst
  BY <1>1 DEF Row
<1>3. Before(rows[c])'
  BY <1>1, <1>2 DEF Before, SeenAt, source, destination
<1>4. ASSUME r.op \in Restores, Exact(r.op, source, destination, preimage)
      PROVE  preimage = source.data
  BY <1>4 DEF preimage, Preimage, Exact, Restores, Renames
<1> QED
  BY <1>1, <1>2, <1>3, <1>4 DEF Recorded, Faithful, At

LEMMA MutateFiles ==
    ASSUME TypeInv, NEW c \in Checkpoints, Recorded(c), Faithful(c), Mutate(c)
    PROVE  Recorded(c)' /\ Faithful(c)'
<1> DEFINE r == rows[c]
<1>1. /\ At(c, "started") /\ Effect(c, r) /\ rows' = rows
      /\ job' = [c |-> c, at |-> "mutated"]
      /\ r.status = "effect_started"
  BY DEF Mutate, Goto, TypeInv, Placed
<1>2. Recorded(c)'
  BY <1>1 DEF Recorded, Exact, Expected
<1>3. ASSUME c \in clean', r.exact PROVE Left(r)'
  <2>1. c \in clean
    BY <1>1, <1>3 DEF Effect, Put, Move, Change
  <2>2. Before(r) /\ Exact(r.op, r.pre, r.preDst, r.preimage)
    BY <1>1, <1>3, <2>1 DEF Faithful, Recorded
  <2>3. /\ r.src \in Paths /\ fs[r.src] \in Object /\ fs \in [Paths -> Object]
        /\ r.op \in Renames => r.dst \in Paths /\ r.dst # r.src
        /\ NoPath \notin Paths
    BY <1>1, UndoAssumption DEF TypeInv, TypeOK, Requested
  <2>4. SeenAt(r.src) = Snapshot(fs[r.src])
    BY <2>3 DEF SeenAt
  <2>5. ASSUME r.op = "create_directory"
        PROVE  (fs'[r.src]).kind = "directory" /\ (fs'[r.src]).data = "empty"
    <3>1. fs[r.src].kind = "missing"
      BY <2>2, <2>3, <2>4, <2>5, SnapshotOf DEF Before, Exact, Restores
    <3>2. \E i \in FreeIds : Put(c, r.src, Directory(i, "empty"))
      BY <1>1, <2>5, <3>1 DEF Effect
    <3> QED BY <2>3, <3>2 DEF Put, Change, Directory
  <2>6. ASSUME r.op \in Renames
        PROVE  fs'[r.src] = Missing /\ Snapshot(fs'[r.dst]) = r.pre
    <3>1. Move(c, r.src, r.dst)
      BY <1>1, <2>6 DEF Effect, Renames
    <3>2. fs'[r.src] = Missing /\ fs'[r.dst] = fs[r.src]
      BY <2>3, <2>6, <3>1 DEF Move, Change
    <3> QED BY <2>2, <2>4, <3>2 DEF Before
  <2>7. r.op \in Renames => SeenAt(r.dst)' = Snapshot(fs'[r.dst])
    BY <1>1, <2>3 DEF SeenAt, Snapshot
  <2> QED BY <1>1, <2>5, <2>6, <2>7 DEF Left
<1> QED
  BY <1>1, <1>2, <1>3 DEF Faithful, At

LEMMA FinishFiles ==
    ASSUME TypeInv, NEW c \in Checkpoints, Recorded(c), Faithful(c), Finish(c)
    PROVE  Recorded(c)' /\ Faithful(c)'
<1> DEFINE r == rows[c]
           post == SeenAt(Target(r))
           next == IF r.exact THEN "ready" ELSE "not_undoable"
<1>1. /\ At(c, "mutated") /\ Expected(r, post) /\ r \in Row
      /\ rows \in [Checkpoints -> Row]
      /\ rows' = [rows EXCEPT ![c].post = post, ![c].status = next]
      /\ job' = Idle /\ fs' = fs /\ clean' = clean
  BY DEF Finish, Untouched, TypeInv, TypeOK
<1> HIDE DEF post
<1>2. /\ rows'[c].post = post /\ rows'[c].status = next
      /\ rows'[c].op = r.op /\ rows'[c].src = r.src /\ rows'[c].dst = r.dst
      /\ rows'[c].pre = r.pre /\ rows'[c].preDst = r.preDst /\ rows'[c].exact = r.exact
      /\ rows'[c].preimage = r.preimage /\ rows'[c].body = r.body
  BY <1>1 DEF Row
<1>3. r.exact \in BOOLEAN
  BY <1>1 DEF Row
<1>4. Recorded(c)'
  BY <1>1, <1>2, <1>3 DEF Recorded, Exact, Expected
<1>5. \A step : ~At(c, step)'
  BY <1>1, UndoAssumption DEF At, Idle
<1>6. c \in clean /\ r.exact => Left(rows[c])'
  <2>1. c \in clean /\ r.exact => Left(r)
    BY <1>1 DEF Faithful
  <2> QED BY <1>1, <1>2, <2>1 DEF Left, SeenAt, Snapshot
<1>7. SeenAt(Target(rows[c]))' = post
  <2>1. Target(rows[c])' = Target(r)
    BY <1>2 DEF Target
  <2>2. \A p : SeenAt(p)' = SeenAt(p)
    BY <1>1 DEF SeenAt, Snapshot
  <2> QED BY <2>1, <2>2 DEF post, SeenAt, Snapshot
<1> QED
  BY <1>1, <1>2, <1>3, <1>4, <1>5, <1>6, <1>7 DEF Faithful

LEMMA RevertFiles ==
    ASSUME TypeInv, NEW c \in Checkpoints, Recorded(c), Faithful(c), Revert(c)
    PROVE  Recorded(c)' /\ Faithful(c)'
<1> DEFINE r == rows[c]
<1>1. /\ At(c, "armed") /\ Inverse(c, r) /\ rows' = rows
      /\ job' = [c |-> c, at |-> "reverted"]
      /\ r.status = "undo_started"
  BY DEF Revert, Goto, TypeInv, Placed
<1>2. Recorded(c)'
  BY <1>1 DEF Recorded, Exact, Expected
<1>3. ASSUME c \in clean', r.op \in Renames PROVE SeenAt(r.src)' = r.pre
  <2>1. c \in clean
    BY <1>1, <1>3 DEF Inverse, Put, Move, Change
  <2>2. Left(r)
    BY <1>1, <2>1 DEF Faithful
  <2>3. /\ r.src \in Paths /\ r.dst \in Paths /\ r.dst # r.src
        /\ fs \in [Paths -> Object] /\ NoPath \notin Paths
    BY <1>1, <1>3, UndoAssumption DEF TypeInv, TypeOK, Requested
  <2>4. Move(c, r.dst, r.src)
    BY <1>1, <1>3 DEF Inverse, Renames, Restores
  <2>5. fs'[r.src] = fs[r.dst]
    BY <2>3, <2>4 DEF Move, Change
  <2> QED BY <1>1, <1>3, <2>2, <2>3, <2>5 DEF Left, SeenAt, Snapshot
<1> QED
  BY <1>1, <1>2, <1>3 DEF Faithful, At

LEMMA FinishUndoFiles ==
    ASSUME TypeInv, NEW c \in Checkpoints, Recorded(c), Faithful(c), FinishUndo(c)
    PROVE  Recorded(c)' /\ Faithful(c)'
<1> DEFINE r == rows[c]
<1>1. /\ At(c, "reverted") /\ Verified(r) /\ SetStatus(c, "undone") /\ "undone" \in Status
      /\ rows \in [Checkpoints -> Row] /\ r \in Row
      /\ job' = Idle /\ fs' = fs /\ clean' = clean /\ r.status = "undo_started"
  BY DEF FinishUndo, Untouched, TypeInv, TypeOK, Placed, Status
<1>2. /\ rows'[c].status = "undone" /\ rows'[c].post = r.post
      /\ rows'[c].op = r.op /\ rows'[c].src = r.src /\ rows'[c].dst = r.dst
      /\ rows'[c].pre = r.pre /\ rows'[c].preDst = r.preDst /\ rows'[c].exact = r.exact
      /\ rows'[c].preimage = r.preimage /\ rows'[c].body = r.body
  BY <1>1 DEF SetStatus, Row
<1>3. Recorded(c)'
  BY <1>1, <1>2, RecordedFrame
<1>4. \A step : ~At(c, step)'
  BY <1>1, UndoAssumption DEF At, Idle
<1>5. /\ r.exact /\ Exact(r.op, r.pre, r.preDst, r.preimage)
      /\ r.op \in Restores => r.preimage = r.pre.data
  BY <1>1 DEF Recorded
<1>6. /\ r.src \in Paths /\ fs[r.src] \in Object /\ NoPath \notin Paths
      /\ r.op \in Renames => r.dst \in Paths
      /\ r.pre \in Seen /\ r.preDst \in Seen
  BY <1>1, UndoAssumption DEF TypeInv, TypeOK, Requested, Row
<1>7. \A o \in Seen : o.kind = "missing" => o = Missing
  BY DEF Seen, File, Directory
<1>8. ASSUME c \in clean PROVE Restored(r)
  <2>1. SeenAt(r.src) = Snapshot(fs[r.src])
    BY <1>6 DEF SeenAt
  <2>2. CASE r.op \in {"create_file", "create_directory"}
    <3>1. fs[r.src] = Missing /\ r.pre = Missing
      BY <1>1, <1>5, <1>6, <1>7, <2>2 DEF Verified, Exact, Restores, Renames
    <3>2. SeenAt(r.src) = Missing
      BY <2>1, <3>1 DEF Snapshot, Missing
    <3> QED BY <2>2, <3>1, <3>2 DEF Restored, Renames
  <2>3. CASE r.op \in Restores
    <3>1. /\ fs[r.src].kind = "file" /\ fs[r.src].data = r.preimage
          /\ r.pre.kind = "file" /\ r.preimage = r.pre.data
      BY <1>1, <1>5, <2>3 DEF Verified, Exact, Restores, Renames
    <3>2. SeenAt(r.src) = fs[r.src]
      BY <2>1, <3>1 DEF Snapshot
    <3> QED BY <2>3, <3>1, <3>2 DEF Restored, Renames, Restores
  <2>4. CASE r.op \in Renames
    <3>1. SeenAt(r.src) = r.pre
      BY <1>1, <1>8, <2>4 DEF Faithful
    <3>2. fs[r.dst] = Missing /\ r.preDst = Missing
      BY <1>1, <1>5, <1>6, <1>7, <2>4 DEF Verified, Exact, Restores, Renames
    <3>3. SeenAt(r.dst) = Missing
      BY <3>2 DEF SeenAt, Snapshot, Missing
    <3> QED BY <3>1, <3>2, <3>3 DEF Restored
  <2>5. r.op \in {"create_file", "create_directory"} \cup Restores \cup Renames
    BY <1>5 DEF Exact, Renames
  <2> QED BY <2>2, <2>3, <2>4, <2>5
<1>9. Restored(r) => Restored(rows[c])'
  BY <1>1, <1>2 DEF Restored, SeenAt, Snapshot
<1> QED
  BY <1>1, <1>2, <1>3, <1>4, <1>8, <1>9 DEF Faithful

\* A step that touches no file and only writes a status, or nothing.
LEMMA StatusFiles ==
    ASSUME TypeInv, NEW c \in Checkpoints, Recorded(c), Faithful(c),
           fs' = fs, clean' = clean,
           \/ rows'[c] = rows[c]
           \/ \E s \in Status : rows'[c] = [rows[c] EXCEPT !.status = s],
           \/ rows'[c].status = rows[c].status
           \/ rows'[c].status \notin {"ready", "undo_started", "undone"},
           rows'[c].status = "prepared" => rows[c].status = "prepared",
           At(c, "started")' => rows[c].status = "prepared",
           At(c, "armed")' => At(c, "claimed"),
           \A step : At(c, step)' => step \in {"checked", "started", "armed"}
    PROVE  Recorded(c)' /\ Faithful(c)'
<1> DEFINE r == rows[c]
<1>1. rows \in [Checkpoints -> Row] /\ r \in Row
  BY DEF TypeInv, TypeOK
<1>2. /\ rows'[c].post = r.post /\ rows'[c].op = r.op /\ rows'[c].src = r.src
      /\ rows'[c].dst = r.dst /\ rows'[c].pre = r.pre /\ rows'[c].preDst = r.preDst
      /\ rows'[c].exact = r.exact /\ rows'[c].preimage = r.preimage
      /\ rows'[c].body = r.body
  BY <1>1 DEF Row
<1>3. Recorded(c)'
  BY <1>2, RecordedFrame
<1>4. \A p : SeenAt(p)' = SeenAt(p)
  BY DEF SeenAt, Snapshot
<1>5. /\ SeenAt(rows[c].src)' = SeenAt(r.src) /\ SeenAt(rows[c].dst)' = SeenAt(r.dst)
      /\ SeenAt(Target(rows[c]))' = SeenAt(Target(r))
  BY <1>2 DEF SeenAt, Snapshot, Target
<1>6. /\ Before(rows[c])' <=> Before(r)
      /\ Left(rows[c])' <=> Left(r)
      /\ Restored(rows[c])' <=> Restored(r)
  BY <1>2, <1>5 DEF Before, Left, Restored
<1> QED
  BY <1>2, <1>3, <1>5, <1>6 DEF Faithful

LEMMA ClaimFiles ==
    ASSUME TypeInv, NEW c \in Checkpoints, Recorded(c), Faithful(c), Claim(c)
    PROVE  Recorded(c)' /\ Faithful(c)'
<1> DEFINE r == rows[c]
<1>1. /\ r.status = "ready" /\ r \in Row /\ rows \in [Checkpoints -> Row]
      /\ rows' = [rows EXCEPT ![c].status = "undo_started", ![c].consumed = TRUE]
      /\ job' = [c |-> c, at |-> "claimed"] /\ fs' = fs /\ clean' = clean
  BY DEF Claim, Goto, Untouched, TypeInv, TypeOK
<1>2. /\ rows'[c].status = "undo_started" /\ rows'[c].post = r.post
      /\ rows'[c].op = r.op /\ rows'[c].src = r.src /\ rows'[c].dst = r.dst
      /\ rows'[c].pre = r.pre /\ rows'[c].preDst = r.preDst /\ rows'[c].exact = r.exact
      /\ rows'[c].preimage = r.preimage /\ rows'[c].body = r.body
  BY <1>1 DEF Row
<1>3. Recorded(c)'
  BY <1>1, <1>2, RecordedFrame
<1>4. c \in clean => Left(r) /\ SeenAt(Target(r)) = r.post
  BY <1>1 DEF Faithful
<1>5. /\ SeenAt(rows[c].dst)' = SeenAt(r.dst)
      /\ SeenAt(Target(rows[c]))' = SeenAt(Target(r))
  BY <1>1, <1>2 DEF SeenAt, Snapshot, Target
<1>6. Left(r) => Left(rows[c])'
  BY <1>1, <1>2, <1>5 DEF Left
<1> QED
  BY <1>1, <1>2, <1>3, <1>4, <1>5, <1>6 DEF Faithful, At

\* A step that leaves the rows alone and moves no call on.
LEMMA StillFiles ==
    ASSUME TypeInv, FileInv, rows' = rows, job' = job \/ job' = Idle,
           \A k \in Checkpoints : k \in clean' =>
              k \in clean /\ \A p \in Reach(rows[k]) : fs'[p] = fs[p],
           Looked'
    PROVE  FileInv'
<1>1. ASSUME NEW k \in Checkpoints PROVE Recorded(k)' /\ Faithful(k)'
  <2>1. Recorded(k) /\ Faithful(k) /\ Requested
    BY DEF FileInv, TypeInv
  <2>2. Recorded(k)'
    BY <2>1, RecordedFrame
  <2>3. ASSUME NEW step, At(k, step)' PROVE At(k, step) /\ rows[k].status # "none"
    <3>1. job = [c |-> k, at |-> step] /\ step \in Steps
      BY <2>3, UndoAssumption DEF At, Idle, TypeInv, TypeOK
    <3> QED BY <3>1 DEF At, Steps, TypeInv, Placed
  <2>4. Faithful(k)'
    BY <2>1, <2>3, FaithfulFrame
  <2> QED BY <2>2, <2>4
<1> QED BY <1>1 DEF FileInv

LEMMA FileStep ==
    ASSUME TypeInv, FileInv, Next
    PROVE  FileInv'
<1>0. /\ rows \in [Checkpoints -> Row] /\ NoOne \notin Checkpoints
      /\ job \in {Idle} \cup [c : Checkpoints, at : Steps]
      /\ \A k \in Checkpoints : Recorded(k) /\ Faithful(k)
  BY UndoAssumption DEF TypeInv, TypeOK, FileInv
<1>1. ASSUME NEW c \in Checkpoints, NEW op \in Operations, NEW s \in Paths,
             NEW d \in Paths \cup {NoPath}, NEW b \in Bodies \cup {NoData},
             Begin(c, op, s, d, b)
      PROVE  FileInv'
  <2> DEFINE row == [Blank EXCEPT !.status = "intent", !.op = op, !.src = s,
                                  !.dst = d, !.body = b]
  <2>1. rows' = [rows EXCEPT ![c] = row] /\ row.status = "intent" /\ row.exact = FALSE
    BY <1>1 DEF Begin, Blank
  <2>2. job' = [c |-> c, at |-> "intent"] /\ fs' = fs /\ clean' = clean
    BY <1>1 DEF Begin, Goto, Untouched
  <2> HIDE DEF row
  <2>3. /\ rows'[c].status = "intent" /\ rows'[c].exact = FALSE
        /\ \A k \in Checkpoints \ {c} : rows'[k] = rows[k]
    BY <1>0, <2>1
  <2>4. Recorded(c)' /\ Faithful(c)'
    BY <2>2, <2>3 DEF Recorded, Faithful, At
  <2> QED BY <2>2, <2>3, <2>4, OwnStep DEF At
<1>2. ASSUME NEW c \in Checkpoints, Prepare(c) PROVE FileInv'
  <2>1. /\ job' = [c |-> c, at |-> "prepared"] /\ fs' = fs /\ clean' = clean \cup {c}
        /\ \A k \in Checkpoints \ {c} : rows'[k] = rows[k]
    BY <1>0, <1>2 DEF Prepare, Goto
  <2> QED BY <1>2, <2>1, PrepareFiles, OwnStep DEF At
<1>3. ASSUME NEW c \in Checkpoints, Recheck(c) \/ Start(c) \/ Arm(c) PROVE FileInv'
  <2>1. /\ fs' = fs /\ clean' = clean
        /\ \A k \in Checkpoints \ {c} : rows'[k] = rows[k]
    BY <1>0, <1>3 DEF Recheck, Start, Arm, Untouched, SetStatus
  <2>2. PICK step \in {"checked", "started", "armed"} :
           /\ job' = [c |-> c, at |-> step]
           /\ step = "checked" => Recheck(c)
           /\ step = "started" => Start(c)
           /\ step = "armed" => Arm(c)
    BY <1>3 DEF Recheck, Start, Arm, Goto
  <2>3. /\ rows'[c] = rows[c] \/ rows'[c] = [rows[c] EXCEPT !.status = "effect_started"]
        /\ rows'[c].status \in {rows[c].status, "effect_started"}
    BY <1>0, <1>3 DEF Recheck, Start, Arm, SetStatus, Row
  <2>4. /\ Start(c) => rows[c].status = "prepared"
        /\ Arm(c) => At(c, "claimed") /\ Agrees(rows[c])'
    BY DEF Start, Arm, TypeInv, Placed, Agrees, Snapshot, Untouched
  <2>5. /\ At(c, "started")' => rows[c].status = "prepared"
        /\ At(c, "armed")' => At(c, "claimed")
        /\ At(c, "armed")' => Agrees(rows[c])'
        /\ \A s : At(c, s)' => s \in {"checked", "started", "armed"}
    BY <2>2, <2>4 DEF At
  <2>6. Recorded(c)' /\ Faithful(c)'
    BY <1>0, <2>1, <2>3, <2>5, StatusFiles DEF Status
  <2> QED BY <2>1, <2>2, <2>5, <2>6, OwnStep DEF At
<1>4. ASSUME NEW c \in Checkpoints, Refuse(c) \/ Repair(c) PROVE FileInv'
  <2>1. PICK s \in {"failed", "repair_required"} : SetStatus(c, s)
    BY <1>4 DEF Refuse, Repair
  <2>2. /\ fs' = fs /\ clean' = clean /\ job' = Idle
        /\ rows'[c] = [rows[c] EXCEPT !.status = s] /\ rows'[c].status = s
        /\ \A k \in Checkpoints \ {c} : rows'[k] = rows[k]
    BY <1>0, <1>4, <2>1 DEF Refuse, Repair, Untouched, SetStatus, Row
  <2>3. \A k \in Checkpoints : \A step : ~At(k, step)'
    BY <1>0, <2>2 DEF At, Idle
  <2>4. Recorded(c)' /\ Faithful(c)'
    BY <1>0, <2>2, <2>3, StatusFiles DEF Status
  <2> QED BY <2>2, <2>3, <2>4, OwnStep
<1>5. ASSUME NEW c \in Checkpoints, Mutate(c) \/ MutateFails(c) \/ Revert(c) PROVE FileInv'
  <2>1. /\ rows' = rows
        /\ \E f : Change(c, f)
        /\ \E step \in {"mutated", "broken", "reverted"} : job' = [c |-> c, at |-> step]
    BY <1>5, IsChange DEF Mutate, MutateFails, Revert, Goto
  <2>2. \A k \in Checkpoints \ {c} : k \in clean' =>
           k \in clean /\ \A p \in Reach(rows[k]) : fs'[p] = fs[p]
    BY <2>1, Spared
  <2>3. Recorded(c)' /\ Faithful(c)'
    <3>1. CASE Mutate(c)
      BY <1>0, <3>1, MutateFiles
    <3>2. CASE MutateFails(c)
      <4>1. /\ job' = [c |-> c, at |-> "broken"] /\ rows[c].status = "effect_started"
        BY <3>2 DEF MutateFails, Goto, TypeInv, Placed
      <4>2. Recorded(c)'
        BY <1>0, <2>1, RecordedFrame
      <4> QED BY <2>1, <4>1, <4>2 DEF Faithful, At
    <3>3. CASE Revert(c)
      BY <1>0, <3>3, RevertFiles
    <3> QED BY <1>5, <3>1, <3>2, <3>3
  <2>4. /\ ~At(c, "armed")'
        /\ \A k \in Checkpoints \ {c} : \A step : ~At(k, step)'
    BY <2>1 DEF At
  <2> QED BY <2>1, <2>2, <2>3, <2>4, OwnStep
<1>6. ASSUME NEW c \in Checkpoints, Finish(c) \/ FinishUndo(c) PROVE FileInv'
  <2>1. /\ fs' = fs /\ clean' = clean /\ job' = Idle
        /\ \A k \in Checkpoints \ {c} : rows'[k] = rows[k]
    BY <1>0, <1>6 DEF Finish, FinishUndo, Untouched, SetStatus
  <2>2. \A k \in Checkpoints : \A step : ~At(k, step)'
    BY <1>0, <2>1 DEF At, Idle
  <2>3. Recorded(c)' /\ Faithful(c)'
    BY <1>0, <1>6, FinishFiles, FinishUndoFiles
  <2> QED BY <2>1, <2>2, <2>3, OwnStep
<1>7. ASSUME NEW c \in Checkpoints, Claim(c) PROVE FileInv'
  <2>1. /\ fs' = fs /\ clean' = clean /\ job' = [c |-> c, at |-> "claimed"]
        /\ \A k \in Checkpoints \ {c} : rows'[k] = rows[k]
    BY <1>0, <1>7 DEF Claim, Untouched, Goto
  <2>2. Recorded(c)' /\ Faithful(c)'
    BY <1>0, <1>7, ClaimFiles
  <2> QED BY <2>1, <2>2, OwnStep DEF At
<1>8. ASSUME NEW c \in Checkpoints, Answer(c) PROVE FileInv'
  <2>1. /\ rows' = rows /\ job' = job /\ fs' = fs /\ clean' = clean /\ calm' = calm
    BY <1>8 DEF Answer, Untouched
  <2>2. Looked'
    BY <2>1 DEF FileInv, Looked, At, Agrees, Snapshot
  <2> QED BY <2>1, <2>2, StillFiles
<1>9. ASSUME StoreFails \/ Crash PROVE FileInv'
  <2>1. rows' = rows /\ job' = Idle /\ fs' = fs /\ clean' = clean
    BY <1>9 DEF StoreFails, Crash, Untouched
  <2>2. Looked'
    BY <1>0, <2>1 DEF Looked, At, Idle
  <2> QED BY <2>1, <2>2, StillFiles
<1>10. ASSUME Restart PROVE FileInv'
  <2>1. /\ job = Idle /\ job' = Idle /\ fs' = fs /\ clean' = clean
        /\ rows' = [c \in Checkpoints |->
                      [rows[c] EXCEPT !.status = Recovered(rows[c].status)]]
    BY <1>10 DEF Restart, Untouched, TypeInv, Placed
  <2>2. \A k \in Checkpoints : \A step : ~At(k, step)'
    BY <1>0, <2>1 DEF At, Idle
  <2>3. ASSUME NEW k \in Checkpoints PROVE Recorded(k)' /\ Faithful(k)'
    <3>1. rows[k] \in Row /\ rows[k].status \in Status
      BY <1>0 DEF Row
    <3>2. /\ rows'[k] = [rows[k] EXCEPT !.status = Recovered(rows[k].status)]
          /\ rows'[k].status = Recovered(rows[k].status)
      BY <2>1, <3>1 DEF Row
    <3>3. /\ Recovered(rows[k].status) \in Status
          /\ \/ Recovered(rows[k].status) = rows[k].status
             \/ Recovered(rows[k].status) \notin {"ready", "undo_started", "undone"}
          /\ Recovered(rows[k].status) # "prepared"
      BY <3>1 DEF Recovered, Status
    <3> QED BY <1>0, <2>1, <2>2, <3>2, <3>3, StatusFiles
  <2>4. Looked'
    BY <2>2 DEF Looked
  <2> QED BY <2>3, <2>4 DEF FileInv
<1>11. ASSUME NEW p \in Paths, NEW q \in Paths,
              OthersCreate(p) \/ OthersWrite(p) \/ OthersRemove(p) \/ OthersMove(p, q)
       PROVE  FileInv'
  <2>1. rows' = rows /\ job' = job /\ calm' = (calm /\ job.at # "armed")
    BY <1>11 DEF OthersCreate, OthersWrite, OthersRemove, OthersMove, Elsewhere
  <2>2. \E f : Change(NoOne, f)
    BY <1>11 DEF OthersCreate, OthersWrite, OthersRemove, OthersMove, Put, Move
  <2>3. \A k \in Checkpoints : k \in clean' =>
           k \in clean /\ \A r \in Reach(rows[k]) : fs'[r] = fs[r]
    BY <1>0, <2>2, Spared
  <2>4. ASSUME NEW k \in Checkpoints, At(k, "armed")' PROVE ~calm'
    <3>1. job.at = "armed"
      BY <2>1, <2>4 DEF At
    <3> QED BY <2>1, <3>1
  <2>5. Looked'
    BY <2>4 DEF Looked
  <2> QED BY <2>1, <2>3, <2>5, StillFiles
<1> QED
  BY <1>1, <1>2, <1>3, <1>4, <1>5, <1>6, <1>7, <1>8, <1>9, <1>10, <1>11 DEF Next

LEMMA FileInit == Init => FileInv
<1> SUFFICES ASSUME Init PROVE FileInv
  OBVIOUS
<1>1. \A c \in Checkpoints : \A step : ~At(c, step)
  BY UndoAssumption DEF Init, At, Idle
<1>2. /\ clean = {}
      /\ \A c \in Checkpoints : rows[c].status = "none" /\ rows[c].exact = FALSE
  BY DEF Init, Blank
<1> QED BY <1>1, <1>2 DEF FileInv, Looked, Recorded, Faithful

LEMMA FileUnchanged == TypeInv /\ FileInv /\ UNCHANGED vars => FileInv'
<1> SUFFICES ASSUME TypeInv, FileInv, UNCHANGED vars PROVE FileInv'
  OBVIOUS
<1>1. rows' = rows /\ job' = job /\ fs' = fs /\ clean' = clean /\ calm' = calm
  BY DEF vars
<1>2. Looked'
  BY <1>1 DEF FileInv, Looked, At, Agrees, Snapshot
<1> QED BY <1>1, <1>2, StillFiles

\* A ready row whose files only its own change touched.
LEMMA ReadyAgrees ==
    ASSUME TypeInv, FileInv, NEW c \in clean, rows[c].status = "ready"
    PROVE  /\ Agrees(rows[c])
           /\ rows[c].op \in Restores => rows[c].preimage # NoData
<1> DEFINE r == rows[c]
<1>1. /\ c \in Checkpoints /\ fs \in [Paths -> Object] /\ NoPath \notin Paths
      /\ r.src \in Paths
      /\ r.op \in Renames => r.dst \in Paths
  BY UndoAssumption DEF TypeInv, TypeOK, Requested
<1>2. /\ Left(r) /\ SeenAt(Target(r)) = r.post
      /\ Expected(r, r.post) /\ Exact(r.op, r.pre, r.preDst, r.preimage)
  BY <1>1 DEF FileInv, Recorded, Faithful
<1>3. r.op \in Restores => r.preimage # NoData
  BY <1>2 DEF Exact, Restores, Renames
<1>4. /\ SeenAt(r.src) = Snapshot(fs[r.src]) /\ fs[r.src] \in Object
      /\ r.op \in Renames => SeenAt(r.dst) = Snapshot(fs[r.dst]) /\ fs[r.dst] \in Object
  BY <1>1 DEF SeenAt
<1>5. CASE r.op \in {"create_file", "update_file"}
  <2>1. Snapshot(fs[r.src]) = r.post /\ r.post.kind = "file"
    BY <1>2, <1>4, <1>5 DEF Target, Renames, Expected
  <2>2. fs[r.src] = r.post
    BY <1>4, <2>1, SnapshotOf
  <2> QED BY <1>3, <1>5, <2>2 DEF Agrees
<1>6. CASE r.op = "delete_file"
  <2>1. Snapshot(fs[r.src]) = r.post /\ r.post.kind = "missing"
    BY <1>2, <1>4, <1>6 DEF Target, Renames, Expected
  <2>2. fs[r.src] = Missing
    BY <1>4, <2>1, SnapshotOf
  <2> QED BY <1>3, <1>6, <2>2 DEF Agrees
<1>7. CASE r.op = "create_directory"
  <2>1. Snapshot(fs[r.src]) = r.post
    BY <1>2, <1>4, <1>7 DEF Target, Renames
  <2>2. fs[r.src].id = r.post.id
    BY <1>4, <2>1, SnapshotOf
  <2> QED BY <1>2, <1>3, <1>7, <2>2 DEF Agrees, Left
<1>8. CASE r.op \in Renames
  <2>1. Snapshot(fs[r.dst]) = r.post
    BY <1>2, <1>4, <1>8 DEF Target
  <2>2. fs[r.dst].id = r.post.id /\ fs[r.dst].kind = r.post.kind
    BY <1>4, <1>8, <2>1, SnapshotOf
  <2> QED BY <1>2, <1>3, <1>8, <2>1, <2>2 DEF Agrees, Left
<1> QED
  BY <1>2, <1>5, <1>6, <1>7, <1>8 DEF Exact, Restores, Renames

\* What the files hold, over every behaviour.
LEMMA FilesKept == Spec => [](OfferHolds /\ ExactInverse)
<1> DEFINE Inv == TypeInv /\ FileInv
<1>1. Init => Inv
  BY TypeInit, FileInit
<1>2. Inv /\ [Next]_vars => Inv'
  <2>1. Inv /\ UNCHANGED vars => Inv'
    <3>1. TypeInv /\ UNCHANGED vars => TypeInv'
      BY DEF TypeInv, TypeOK, Requested, Placed, At, vars
    <3> QED BY <3>1, FileUnchanged
  <2> QED BY <2>1, TypeStep, FileStep
<1>3. Inv => OfferHolds
  BY ReadyAgrees DEF OfferHolds
<1>4. Inv => ExactInverse
  BY DEF ExactInverse, FileInv, Faithful, TypeInv, TypeOK
<1> HIDE DEF Inv
<1> QED BY <1>1, <1>2, <1>3, <1>4, PTL DEF Spec

\* As long as nobody else touched the two paths, an undo that is offered finds
\* its target and its bytes.
THEOREM OffersHold == Spec => []OfferHolds
BY FilesKept, PTL

\* Under the same proviso a finished undo has put back what was there.
THEOREM UndoExact == Spec => []ExactInverse
BY FilesKept, PTL

LEMMA RevertSpares ==
    ASSUME TypeInv, FileInv, calm, NEW c \in Checkpoints, Revert(c), NEW p \in Paths
    PROVE  \/ fs[p] = Missing
           \/ \E q \in Paths : fs'[q] = fs[p]
           \/ Wrote(rows[c], fs[p])
<1> DEFINE r == rows[c]
<1>1. /\ fs \in [Paths -> Object] /\ r.src \in Paths
      /\ r.op \in Renames => r.dst \in Paths /\ r.dst # r.src
      /\ At(c, "armed") /\ r.status = "undo_started"
  BY DEF Revert, TypeInv, TypeOK, Requested, Placed
<1>2. Agrees(r) /\ Expected(r, r.post) /\ Inverse(c, r)
  BY <1>1 DEF FileInv, Looked, Recorded, Revert
<1>3. CASE r.op \in {"create_file", "update_file"}
  <2>1. fs[r.src] = r.post /\ r.post.kind = "file" /\ r.post.data = r.body
    BY <1>2, <1>3 DEF Agrees, Expected, Renames
  <2>2. Wrote(r, fs[r.src])
    BY <1>3, <2>1 DEF Wrote
  <2>3. \E o : fs' = [fs EXCEPT ![r.src] = o]
    BY <1>2, <1>3 DEF Inverse, Put, Change, Renames
  <2>4. CASE p # r.src
    BY <1>1, <2>3, <2>4
  <2> QED BY <2>2, <2>4
<1>4. CASE r.op = "delete_file"
  <2>1. fs[r.src] = Missing
    BY <1>2, <1>4 DEF Agrees, Renames
  <2>2. \E o : fs' = [fs EXCEPT ![r.src] = o]
    BY <1>2, <1>4 DEF Inverse, Put, Change, Renames
  <2>3. CASE p # r.src
    BY <1>1, <2>2, <2>3
  <2> QED BY <2>1, <2>3
<1>5. CASE r.op = "create_directory"
  <2>1. Wrote(r, fs[r.src])
    BY <1>2, <1>5 DEF Agrees, Wrote, Renames
  <2>2. \E o : fs' = [fs EXCEPT ![r.src] = o]
    BY <1>2, <1>5 DEF Inverse, Put, Change, Renames
  <2>3. CASE p # r.src
    BY <1>1, <2>2, <2>3
  <2> QED BY <2>1, <2>3
<1>6. CASE r.op \in Renames
  <2>1. fs[r.src] = Missing
    BY <1>2, <1>6 DEF Agrees, Renames
  <2>2. fs' = [fs EXCEPT ![r.src] = fs[r.dst], ![r.dst] = Missing]
    BY <1>2, <1>6 DEF Inverse, Move, Change, Renames
  <2>3. fs'[r.src] = fs[r.dst]
    BY <1>1, <1>6, <2>2
  <2>4. CASE p # r.src /\ p # r.dst
    BY <1>1, <2>2, <2>4
  <2> QED BY <1>1, <2>1, <2>3, <2>4
<1>7. r.op \in {"create_file", "update_file", "delete_file", "create_directory"} \cup Renames
  BY <1>2 DEF Agrees
<1> QED BY <1>3, <1>4, <1>5, <1>6, <1>7

\* Whatever other programs did before the undo looked at its target, the undo
\* destroys nothing but what its own change had written.
THEOREM OthersSpared == Spec => UndoSparesOthers
<1> DEFINE Inv == TypeInv /\ FileInv
<1>1. Init => Inv
  BY TypeInit, FileInit
<1>2. Inv /\ [Next]_vars => Inv'
  <2>1. TypeInv /\ UNCHANGED vars => TypeInv'
    BY DEF TypeInv, TypeOK, Requested, Placed, At, vars
  <2> QED BY <2>1, FileUnchanged, TypeStep, FileStep
<1>3. Inv /\ [Next]_vars => [calm => SparesOthers]_vars
  <2> SUFFICES ASSUME Inv, Next, calm, job.at = "armed", job'.at = "reverted"
               PROVE  SparesOthers
    BY DEF SparesOthers
  <2>1. PICK c \in Checkpoints : Revert(c)
    <3>1. ~(job' = job) /\ ~(job' = Idle)
      BY DEF Idle
    <3>2. \A k, a : job' = [c |-> k, at |-> a] => a = "reverted"
      OBVIOUS
    <3>3. ASSUME NEW k, NEW op, NEW s, NEW d, NEW b, Begin(k, op, s, d, b) PROVE FALSE
      BY <3>2, <3>3 DEF Begin, Goto
    <3>4. ASSUME NEW k, \/ Prepare(k) \/ Recheck(k) \/ Start(k) \/ Mutate(k)
                        \/ MutateFails(k) \/ Claim(k) \/ Arm(k)
          PROVE  FALSE
      BY <3>2, <3>4 DEF Prepare, Recheck, Start, Mutate, MutateFails, Claim, Arm, Goto
    <3>5. ASSUME NEW k, Refuse(k) \/ Finish(k) \/ Answer(k) \/ FinishUndo(k) \/ Repair(k)
          PROVE  FALSE
      BY <3>1, <3>5 DEF Refuse, Finish, Answer, FinishUndo, Repair
    <3>6. ASSUME StoreFails \/ Crash \/ Restart PROVE FALSE
      BY <3>1, <3>6 DEF StoreFails, Crash, Restart
    <3>7. ASSUME NEW p, NEW q, \/ OthersCreate(p) \/ OthersWrite(p) \/ OthersRemove(p)
                               \/ OthersMove(p, q)
          PROVE  FALSE
      BY <3>1, <3>7 DEF OthersCreate, OthersWrite, OthersRemove, OthersMove, Elsewhere
    <3> QED BY <3>3, <3>4, <3>5, <3>6, <3>7 DEF Next
  <2>2. job.c = c
    BY <2>1 DEF Revert, At
  <2>3. \A p \in Paths : \/ fs[p] = Missing
                         \/ \E q \in Paths : fs'[q] = fs[p]
                         \/ Wrote(rows[c], fs[p])
    BY <2>1, RevertSpares
  <2> QED BY <2>2, <2>3 DEF SparesOthers
<1> HIDE DEF Inv
<1> QED BY <1>1, <1>2, <1>3, PTL DEF Spec, UndoSparesOthers
=============================================================================
