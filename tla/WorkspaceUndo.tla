---------------------------- MODULE WorkspaceUndo ----------------------------
(***************************************************************************)
(* The one-shot undo of a local file change.  Every filesystem.mutate call *)
(* writes a checkpoint row around its effect - intent, preimage, effect    *)
(* started, result - and a finished row offers one undo, which is claimed  *)
(* before it touches a file.                                               *)
(*                                                                         *)
(* A mutation or an undo runs under the store's mutex, so one is in flight *)
(* at a time (job); but each write of a row commits by itself, the process *)
(* may stop between any two steps, and other programs use the same files   *)
(* all along.  With one call in flight the compare-and-swap on a row's     *)
(* status and revision never fails, so the revision is left out.           *)
(***************************************************************************)
EXTENDS Naturals, FiniteSets

CONSTANTS
    Checkpoints,  \* tool invocations that change a file; one row each
    Paths,        \* absolute paths
    Ids,          \* file identities: volume and file id, or device and inode
    Contents,     \* file contents; a digest stands for its content
    Bodies,       \* the contents a tool call may ask to write
    Oversized,    \* contents above MAX_WORKSPACE_UNDO_PREIMAGE_BYTES
    Operations,   \* the FileSystemMutationOperations in use
    Windows,      \* TRUE in the Windows build, FALSE in the others
    MaxEdits,     \* bound: changes that other programs make
    NoPath, NoId, NoData, NoOne

Renames == {"rename_file", "rename_directory"}
Restores == {"update_file", "delete_file"}
Folder == {"empty", "full"}    \* what a directory holds, as far as undo asks

ASSUME UndoAssumption ==
    /\ IsFiniteSet(Ids)
    /\ Cardinality(Ids) > Cardinality(Paths)
    /\ Bodies \subseteq Contents
    /\ Oversized \subseteq Contents
    /\ Operations \subseteq {"create_file", "create_directory",
                             "delete_directory"} \cup Renames \cup Restores
    /\ Windows \in BOOLEAN
    /\ MaxEdits \in Nat
    /\ NoPath \notin Paths
    /\ NoId \notin Ids
    /\ NoData \notin Contents \cup Folder
    /\ NoOne \notin Checkpoints

VARIABLES
    fs,      \* path -> what is there
    rows,    \* workspace_mutation_checkpoints
    job,     \* the call that holds the store's mutex, and its next step
    up,      \* whether the program is running
    acked,   \* checkpoints whose undo the user was told is done
    made,    \* how often each checkpoint's effect was begun
    undone,  \* how often it was taken back
    clean,   \* checkpoints whose paths only they changed since the capture
    calm,    \* nobody else changed a file since the undo checked its target
    edits    \* changes made by other programs

vars == <<fs, rows, job, up, acked, made, undone, clean, calm, edits>>

Missing == [kind |-> "missing", id |-> NoId, data |-> NoData]
File(i, d) == [kind |-> "file", id |-> i, data |-> d]
Directory(i, d) == [kind |-> "directory", id |-> i, data |-> d]

Object == {Missing} \cup {File(i, d) : i \in Ids, d \in Contents}
                    \cup {Directory(i, d) : i \in Ids, d \in Folder}
Seen == {Missing} \cup {File(i, d) : i \in Ids, d \in Contents}
                  \cup {Directory(i, NoData) : i \in Ids}

Status == {"none", "intent", "prepared", "effect_started", "ready", "not_undoable",
           "undo_started", "undone", "failed", "repair_required"}

\* The effect_state that is written with each status.
EffectOf(status) ==
    IF status \in {"none", "intent", "prepared", "failed", "undone"} THEN "no_effect"
    ELSE IF status \in {"ready", "not_undoable"} THEN "known_applied"
    ELSE "effect_unknown"

Row == [status : Status, op : Operations \cup {"none"}, src : Paths \cup {NoPath},
        dst : Paths \cup {NoPath}, body : Bodies \cup {NoData},
        pre : Seen, preDst : Seen, post : Seen, exact : BOOLEAN,
        preimage : Contents \cup {NoData}, consumed : BOOLEAN]

\* body is the call's argument: it is not stored, the properties refer to it.
Blank == [status |-> "none", op |-> "none", src |-> NoPath, dst |-> NoPath,
          body |-> NoData, pre |-> Missing, preDst |-> Missing, post |-> Missing,
          exact |-> FALSE, preimage |-> NoData, consumed |-> FALSE]

Steps == {"intent", "prepared", "checked", "started", "mutated", "broken",
          "claimed", "armed", "reverted"}
Idle == [c |-> NoOne, at |-> "idle"]

\* Other programs' files when the first call comes.
Init ==
    /\ fs \in [Paths -> Object]
    /\ \A p, q \in Paths : fs[p].id = fs[q].id /\ fs[p] # Missing => p = q
    /\ rows = [c \in Checkpoints |-> Blank]
    /\ job = Idle
    /\ up = TRUE
    /\ acked = {}
    /\ made = [c \in Checkpoints |-> 0]
    /\ undone = [c \in Checkpoints |-> 0]
    /\ clean = {}
    /\ calm = TRUE
    /\ edits = 0

----------------------------------------------------------------------------
(* Files                                                                   *)

\* Mutant: a directory is captured with what it holds.
SnapshotWithListing(o) == o

\* capture_object: a directory is known by its identity alone.
Snapshot(o) == IF o.kind = "directory" THEN [o EXCEPT !.data = NoData] ELSE o

FreeIds == Ids \ {fs[p].id : p \in Paths}
Reach(r) == {r.src, r.dst} \cap Paths
Target(r) == IF r.op \in Renames THEN r.dst ELSE r.src

\* c (or another program, NoOne) turns the files into f.
Change(c, f) ==
    /\ fs' = f
    /\ clean' = {k \in clean : k = c \/ \A p \in Reach(rows[k]) : f[p] = fs[p]}

Put(c, p, o) == Change(c, [fs EXCEPT ![p] = o])
Move(c, p, q) == Change(c, [fs EXCEPT ![q] = fs[p], ![p] = Missing])

\* What std::fs::rename accepts at the destination.
Replaceable(p, q) ==
    \/ fs[q] = Missing
    \/ fs[p].kind = "file" /\ fs[q].kind = "file"
    \/ fs[p].kind = "directory" /\ fs[q].kind = "directory" /\ fs[q].data = "empty"

----------------------------------------------------------------------------
(* A call of filesystem.mutate                                             *)

At(c, step) == job = [c |-> c, at |-> step]
Goto(c, step) == job' = [c |-> c, at |-> step]
SetStatus(c, s) == rows' = [rows EXCEPT ![c].status = s]
Untouched == UNCHANGED <<fs, clean, made, undone>>

\* An invocation has at most one row: a second call of it is refused.
Begin(c, op, s, d, b) ==
    /\ up /\ job = Idle
    /\ rows[c] = Blank
    /\ (d = NoPath) <=> (op \notin Renames)
    /\ (b = NoData) <=> (op \notin {"create_file", "update_file"})
    /\ d # s
    /\ rows' = [rows EXCEPT ![c] = [Blank EXCEPT !.status = "intent", !.op = op,
                                        !.src = s, !.dst = d, !.body = b]]
    /\ Goto(c, "intent")
    /\ Untouched
    /\ UNCHANGED <<up, acked, calm, edits>>

SeenAt(p) == IF p = NoPath THEN Missing ELSE Snapshot(fs[p])

\* Mutant: the first bytes of an oversized file are kept.
PreimageCut(op, o) ==
    IF op \in Restores /\ o.kind = "file"
    THEN IF o.data \in Oversized THEN CHOOSE d \in Contents : d # o.data ELSE o.data
    ELSE NoData

\* Only what fits the preimage limit is kept.
Preimage(op, o) ==
    IF op \in Restores /\ o.kind = "file" /\ o.data \notin Oversized THEN o.data ELSE NoData

\* Mutant: the undo is offered whether or not the preimage was kept.
ExactWithoutPreimage(op, source, destination, preimage) ==
    \/ op \in {"create_file", "create_directory"} /\ source.kind = "missing"
    \/ op \in Restores /\ source.kind = "file"
    \/ op \in Renames /\ destination.kind = "missing"

\* undo_capability: whether the change has an exact local inverse.
Exact(op, source, destination, preimage) ==
    \/ op \in {"create_file", "create_directory"} /\ source.kind = "missing"
    \/ op \in Restores /\ source.kind = "file" /\ preimage # NoData
    \/ op = "rename_file" /\ source.kind = "file" /\ destination.kind = "missing"
    \/ op = "rename_directory" /\ source.kind = "directory" /\ destination.kind = "missing"

\* The state of both paths is captured and written with the preimage.
Prepare(c) ==
    /\ At(c, "intent")
    /\ LET r == rows[c]
           source == SeenAt(r.src)
           destination == SeenAt(r.dst)
           preimage == Preimage(r.op, source) IN
       rows' = [rows EXCEPT ![c].status = "prepared", ![c].pre = source,
                    ![c].preDst = destination, ![c].preimage = preimage,
                    ![c].exact = Exact(r.op, source, destination, preimage)]
    /\ clean' = clean \cup {c}
    /\ Goto(c, "prepared")
    /\ UNCHANGED <<fs, made, undone, up, acked, calm, edits>>

\* verify_preconditions: both paths are still what was captured.
Recheck(c) ==
    /\ At(c, "prepared")
    /\ SeenAt(rows[c].src) = rows[c].pre
    /\ SeenAt(rows[c].dst) = rows[c].preDst
    /\ Goto(c, "checked")
    /\ Untouched
    /\ UNCHANGED <<rows, up, acked, calm, edits>>

\* The capture failed (a link, a locked or an unreadable file, at any time), or
\* a path changed since: nothing was done.
Refuse(c) ==
    /\ At(c, "intent") \/ At(c, "prepared")
    /\ SetStatus(c, "failed")
    /\ job' = Idle
    /\ Untouched
    /\ UNCHANGED <<up, acked, calm, edits>>

Start(c) ==
    /\ At(c, "checked")
    /\ SetStatus(c, "effect_started")
    /\ Goto(c, "started")
    /\ Untouched
    /\ UNCHANGED <<up, acked, calm, edits>>

\* The mutation client succeeds.  Its own test of the path and its write are
\* one step here.
Effect(c, r) ==
    \/ /\ r.op = "create_file" /\ fs[r.src] = Missing
       /\ \E i \in FreeIds : Put(c, r.src, File(i, r.body))
    \/ /\ r.op = "update_file" /\ fs[r.src].kind = "file"
       /\ Put(c, r.src, [fs[r.src] EXCEPT !.data = r.body])
    \/ /\ r.op = "delete_file" /\ fs[r.src].kind = "file"
       /\ Put(c, r.src, Missing)
    \/ /\ r.op = "rename_file" /\ fs[r.src].kind = "file"
       /\ Replaceable(r.src, r.dst)
       /\ Move(c, r.src, r.dst)
    \/ /\ r.op = "create_directory" /\ fs[r.src] = Missing
       /\ \E i \in FreeIds : Put(c, r.src, Directory(i, "empty"))
    \/ /\ r.op = "create_directory" /\ fs[r.src].kind = "directory"
       /\ Change(c, fs)
    \/ /\ r.op = "rename_directory" /\ fs[r.src].kind = "directory"
       /\ Replaceable(r.src, r.dst)
       /\ Move(c, r.src, r.dst)
    \/ /\ r.op = "delete_directory" /\ fs[r.src].kind = "directory"
       /\ Put(c, r.src, Missing)

\* It fails, or stops, before or halfway through: std::fs::write truncates and
\* then writes, a recursive deletion removes one entry after the other.
Torn(c, r) ==
    \/ Change(c, fs)
    \/ /\ r.op = "create_file" /\ fs[r.src] = Missing
       /\ \E i \in FreeIds, d \in Contents : Put(c, r.src, File(i, d))
    \/ /\ r.op = "update_file" /\ fs[r.src].kind = "file"
       /\ \E d \in Contents : Put(c, r.src, [fs[r.src] EXCEPT !.data = d])
    \/ /\ r.op = "delete_directory" /\ fs[r.src].kind = "directory"
       /\ Put(c, r.src, [fs[r.src] EXCEPT !.data = "empty"])

Begun(c) == made' = [made EXCEPT ![c] = @ + 1]

Mutate(c) ==
    /\ At(c, "started")
    /\ Effect(c, rows[c])
    /\ Begun(c)
    /\ Goto(c, "mutated")
    /\ UNCHANGED <<rows, undone, up, acked, calm, edits>>

MutateFails(c) ==
    /\ At(c, "started")
    /\ Torn(c, rows[c])
    /\ Begun(c)
    /\ Goto(c, "broken")
    /\ UNCHANGED <<rows, undone, up, acked, calm, edits>>

\* validate_postcondition: the target is of the kind, and has the bytes, that
\* the call asked for.
Expected(r, o) ==
    \/ r.op \in {"create_file", "update_file"} /\ o.kind = "file" /\ o.data = r.body
    \/ r.op = "rename_file" /\ o.kind = "file"
    \/ r.op \in {"create_directory", "rename_directory"} /\ o.kind = "directory"
    \/ r.op \in {"delete_file", "delete_directory"} /\ o.kind = "missing"

\* complete_checkpoint and the write of the finished row.
Finish(c) ==
    /\ At(c, "mutated")
    /\ LET r == rows[c]
           post == SeenAt(Target(r)) IN
       /\ Expected(r, post)
       /\ rows' = [rows EXCEPT ![c].post = post,
                       ![c].status = IF r.exact THEN "ready" ELSE "not_undoable"]
    /\ job' = Idle
    /\ Untouched
    /\ UNCHANGED <<up, acked, calm, edits>>

----------------------------------------------------------------------------
(* The undo                                                                *)

\* Mutant: an undo that failed may be tried again.
ClaimAgain(c) ==
    /\ up /\ job = Idle
    /\ rows[c].status \in {"ready", "repair_required"}
    /\ rows' = [rows EXCEPT ![c].status = "undo_started", ![c].consumed = TRUE]
    /\ Goto(c, "claimed")
    /\ Untouched
    /\ UNCHANGED <<up, acked, calm, edits>>

\* claim_workspace_undo: the action the row offers is used up.
Claim(c) ==
    /\ up /\ job = Idle
    /\ rows[c].status = "ready"
    /\ rows' = [rows EXCEPT ![c].status = "undo_started", ![c].consumed = TRUE]
    /\ Goto(c, "claimed")
    /\ Untouched
    /\ UNCHANGED <<up, acked, calm, edits>>

\* A second call with the same action.  Any other is an error without effect.
Answer(c) ==
    /\ up /\ job = Idle
    /\ rows[c].status = "undone" /\ rows[c].consumed
    /\ acked' = acked \cup {c}
    /\ Untouched
    /\ UNCHANGED <<rows, job, up, calm, edits>>

\* Mutant: the identity is compared, the content is not.
AgreesByIdentity(r) ==
    \/ r.op \in {"create_file", "update_file", "create_directory"} /\ fs[r.src].id = r.post.id
    \/ r.op = "delete_file" /\ fs[r.src] = Missing
    \/ r.op \in Renames /\ fs[r.src] = Missing /\ fs[r.dst].id = r.post.id

\* The target is still what the mutation left, as far as each inverse looks.
Agrees(r) ==
    \/ r.op \in {"create_file", "update_file"} /\ fs[r.src] = r.post
    \/ r.op = "delete_file" /\ fs[r.src] = Missing
    \/ /\ r.op = "create_directory"
       /\ fs[r.src].kind = "directory" /\ fs[r.src].data = "empty"
       /\ fs[r.src].id = r.post.id
    \/ /\ r.op \in Renames
       /\ fs[r.src] = Missing
       /\ fs[r.dst].id = r.post.id
       /\ r.post.kind = "file" => fs[r.dst].kind = "file"
       /\ ~Windows => Snapshot(fs[r.dst]) = r.post

Arm(c) ==
    /\ At(c, "claimed")
    /\ Agrees(rows[c])
    /\ rows[c].op \in Restores => rows[c].preimage # NoData
    /\ calm' = TRUE
    /\ Goto(c, "armed")
    /\ Untouched
    /\ UNCHANGED <<rows, up, acked, edits>>

\* The inverse itself.  Windows replaces the restored file's path whether or
\* not it is free, and never renames over another object; the other builds
\* link the restored file only where nothing is, and rename over a file.
Inverse(c, r) ==
    \/ /\ r.op = "create_file" /\ fs[r.src].kind = "file"
       /\ Put(c, r.src, Missing)
    \/ /\ r.op = "update_file"
       /\ fs[r.src].kind = "file" \/ (~Windows /\ fs[r.src] = Missing)
       /\ \E i \in FreeIds : Put(c, r.src, File(i, r.preimage))
    \/ /\ r.op = "delete_file"
       /\ fs[r.src] = Missing \/ (Windows /\ fs[r.src].kind = "file")
       /\ \E i \in FreeIds : Put(c, r.src, File(i, r.preimage))
    \/ /\ r.op = "create_directory"
       /\ fs[r.src].kind = "directory" /\ fs[r.src].data = "empty"
       /\ Put(c, r.src, Missing)
    \/ /\ r.op \in Renames
       /\ fs[r.dst] # Missing
       /\ fs[r.src] = Missing \/ (~Windows /\ Replaceable(r.dst, r.src))
       /\ Move(c, r.dst, r.src)

Revert(c) ==
    /\ At(c, "armed")
    /\ Inverse(c, rows[c])
    /\ undone' = [undone EXCEPT ![c] = @ + 1]
    /\ Goto(c, "reverted")
    /\ UNCHANGED <<rows, made, up, acked, calm, edits>>

\* verify_undo_result
Verified(r) ==
    \/ r.op \in {"create_file", "create_directory"} /\ fs[r.src] = Missing
    \/ r.op \in Restores /\ fs[r.src].kind = "file" /\ fs[r.src].data = r.preimage
    \/ /\ r.op \in Renames
       /\ fs[r.src].kind = r.pre.kind /\ fs[r.src].id = r.pre.id
       /\ fs[r.dst] = Missing

FinishUndo(c) ==
    /\ At(c, "reverted")
    /\ Verified(rows[c])
    /\ SetStatus(c, "undone")
    /\ acked' = acked \cup {c}
    /\ job' = Idle
    /\ Untouched
    /\ UNCHANGED <<up, calm, edits>>

\* The effect, or its verification, failed: what the files hold is not known.
Repair(c) ==
    /\ \E step \in {"mutated", "broken", "claimed", "armed", "reverted"} : At(c, step)
    /\ SetStatus(c, "repair_required")
    /\ job' = Idle
    /\ Untouched
    /\ UNCHANGED <<up, acked, calm, edits>>

\* The store refuses a write: the call ends with its error, the row stays.
StoreFails ==
    /\ job.at \in Steps \ {"started"}
    /\ job' = Idle
    /\ Untouched
    /\ UNCHANGED <<rows, up, acked, calm, edits>>

----------------------------------------------------------------------------
(* The process and the other programs                                      *)

Crash ==
    /\ up
    /\ up' = FALSE
    /\ job' = Idle
    /\ Untouched
    /\ UNCHANGED <<rows, acked, calm, edits>>

\* Mutant: a change that was interrupted is taken for one that did not happen.
RecoveredAsNoEffect(s) ==
    IF s \in {"intent", "prepared", "effect_started"} THEN "failed"
    ELSE IF s = "undo_started" THEN "repair_required"
    ELSE s

\* recover_workspace_mutation_checkpoints, before any command is served.
Recovered(s) ==
    IF s \in {"intent", "prepared"} THEN "failed"
    ELSE IF s \in {"effect_started", "undo_started"} THEN "repair_required"
    ELSE s

Restart ==
    /\ ~up
    /\ up' = TRUE
    /\ rows' = [c \in Checkpoints |->
                  [rows[c] EXCEPT !.status = Recovered(rows[c].status)]]
    /\ Untouched
    /\ UNCHANGED <<job, acked, calm, edits>>

\* Under Windows the undo holds its target open: nobody renames or deletes an
\* object it is to delete or rename, nobody writes into a file it is to replace.
Held(p) ==
    /\ Windows /\ job.at = "armed"
    /\ LET r == rows[job.c] IN
       r.op \in {"create_file", "create_directory"} \cup Renames /\ p = Target(r)

WriteHeld(p) ==
    /\ Windows /\ job.at = "armed"
    /\ fs[p].kind = "file"
    /\ LET r == rows[job.c] IN
       r.op \in {"create_file", "update_file"} \cup Renames /\ p = Target(r)

Elsewhere ==
    /\ edits < MaxEdits
    /\ edits' = edits + 1
    /\ calm' = (calm /\ job.at # "armed")
    /\ UNCHANGED <<rows, job, up, acked, made, undone>>

OthersCreate(p) ==
    /\ fs[p] = Missing
    /\ \E i \in FreeIds :
          \/ \E d \in Contents : Put(NoOne, p, File(i, d))
          \/ \E d \in Folder : Put(NoOne, p, Directory(i, d))
    /\ Elsewhere

OthersWrite(p) ==
    /\ ~WriteHeld(p)
    /\ \E d \in IF fs[p].kind = "file" THEN Contents
                ELSE IF fs[p].kind = "directory" THEN Folder ELSE {} :
          d # fs[p].data /\ Put(NoOne, p, [fs[p] EXCEPT !.data = d])
    /\ Elsewhere

OthersRemove(p) ==
    /\ fs[p] # Missing /\ ~Held(p)
    /\ Put(NoOne, p, Missing)
    /\ Elsewhere

OthersMove(p, q) ==
    /\ p # q /\ fs[p] # Missing
    /\ ~Held(p) /\ ~Held(q)
    /\ Replaceable(p, q)
    /\ Move(NoOne, p, q)
    /\ Elsewhere

Next ==
    \/ \E c \in Checkpoints, op \in Operations, s \in Paths,
          d \in Paths \cup {NoPath}, b \in Bodies \cup {NoData} : Begin(c, op, s, d, b)
    \/ \E c \in Checkpoints :
          \/ Prepare(c) \/ Recheck(c) \/ Refuse(c) \/ Start(c)
          \/ Mutate(c) \/ MutateFails(c) \/ Finish(c)
          \/ Claim(c) \/ Answer(c) \/ Arm(c) \/ Revert(c) \/ FinishUndo(c)
          \/ Repair(c)
    \/ StoreFails
    \/ Crash
    \/ Restart
    \/ \E p \in Paths : OthersCreate(p) \/ OthersWrite(p) \/ OthersRemove(p)
    \/ \E p, q \in Paths : OthersMove(p, q)

Spec == Init /\ [][Next]_vars

----------------------------------------------------------------------------
(* Properties                                                              *)

\* Types, and what the step of the call in flight says of its row.
TypeOK ==
    /\ fs \in [Paths -> Object]
    /\ rows \in [Checkpoints -> Row]
    /\ job \in {Idle} \cup [c : Checkpoints, at : Steps]
    /\ up \in BOOLEAN
    /\ acked \subseteq Checkpoints
    /\ made \in [Checkpoints -> Nat]
    /\ undone \in [Checkpoints -> Nat]
    /\ clean \subseteq Checkpoints
    /\ calm \in BOOLEAN
    /\ edits \in Nat

\* What a row says of its effect is so, through every crash, refused write and
\* recovery: "no effect" of a change that was not begun or was taken back,
\* "applied" of one that was made once and stands.
EffectTruth == \A c \in Checkpoints :
    LET s == rows[c].status IN
    /\ EffectOf(s) = "no_effect" => made[c] = undone[c]
    /\ EffectOf(s) = "known_applied" => made[c] = 1 /\ undone[c] = 0

\* No retry, second click or restart makes a change, or its inverse, twice.
OneShot == \A c \in Checkpoints : made[c] <= 1 /\ undone[c] <= made[c]

\* An undo that the user was told is done was done.
AckTruthful == \A c \in acked : undone[c] = 1

\* An undo that is offered works as long as only the change itself touched the
\* two paths: its target is what the change left, and the bytes are at hand.
OfferHolds == \A c \in clean :
    rows[c].status = "ready" =>
        /\ Agrees(rows[c])
        /\ rows[c].op \in Restores => rows[c].preimage # NoData

\* After it, the paths hold what they held before the change (an object moved
\* back is the same object), when nobody else touched them.
Restored(r) ==
    /\ SeenAt(r.src).kind = r.pre.kind /\ SeenAt(r.src).data = r.pre.data
    /\ r.op \in Renames => SeenAt(r.src) = r.pre /\ SeenAt(r.dst) = r.preDst

ExactInverse == \A c \in clean : rows[c].status = "undone" => Restored(rows[c])

\* What an undo step removes for good is what its own change had written.
Wrote(r, o) ==
    \/ r.op \in {"create_file", "update_file"} /\ o.kind = "file" /\ o.data = r.body
    \/ r.op = "create_directory" /\ o.kind = "directory" /\ o.data = "empty"

SparesOthers ==
    job.at = "armed" /\ job'.at = "reverted" =>
        \A p \in Paths :
            \/ fs[p] = Missing
            \/ \E q \in Paths : fs'[q] = fs[p]
            \/ Wrote(rows[job.c], fs[p])

\* Whatever others did before the undo looked at its target, it destroys
\* nothing of theirs.
UndoSparesOthers == [][calm => SparesOthers]_vars
=============================================================================
