------------------------------ MODULE Uploads ------------------------------
(***************************************************************************)
(* Pictures: the avatar of a group (groups.service uploadAvatar), that of  *)
(* a user (users.service uploadAvatar) and the evidence of a settlement    *)
(* (settlements.service uploadEvidence).  Each puts an object into the     *)
(* storage behind StoragePort (CloudinaryAdapter) and then writes its URL  *)
(* into a row; the two stores share no transaction.  A failed write of the *)
(* row is answered by deleting the object, but not for evidence.           *)
(*                                                                         *)
(* A group has one key for every avatar it will ever have.  The others put *)
(* the clock, in milliseconds, into the key.                               *)
(***************************************************************************)
EXTENDS Integers

CONSTANTS Uploads,        \* requests, each with a picture of its own
          Groups, Users, Settlements,
          NoPicture,
          MaxTime         \* bound on the clock

ASSUME MaxTimeAssumption == MaxTime \in Nat
ASSUME OwnersAssumption ==
    /\ Groups \cap Users = {} /\ Groups \cap Settlements = {} /\ Users \cap Settlements = {}
    /\ NoPicture \notin Groups \cup Users \cup Settlements \cup Uploads

VARIABLES object,         \* by owner and number: the picture stored under that key
          row,            \* by owner: the upload whose URL the row has
          up,             \* the uploads
          now             \* Date.now()

uploadVars == <<object, row, up, now>>

Owners == Groups \cup Users \cup Settlements
Numbers == 0..MaxTime

\* An upload is asked for, then stores its picture, writes its row, and deletes the
\* picture when it could not.  It ends "done", "refused" (nothing was stored),
\* "undone" (its picture is deleted) or "leaked" (nobody will delete its picture).
Steps == {"new", "store", "write", "rollback", "done", "refused", "undone", "leaked"}

\* over: another upload stored a picture under the same key between this one's
\* picture and its row (for the properties).
Upload == [op : Steps, owner : Owners \cup {NoPicture}, number : Numbers, over : BOOLEAN]

UploadsTypeOK ==
    /\ object \in [Owners \X Numbers -> Uploads \cup {NoPicture}]
    /\ row \in [Owners -> Uploads \cup {NoPicture}]
    /\ up \in [Uploads -> Upload]
    /\ now \in Numbers

UploadsInit ==
    /\ object = [k \in Owners \X Numbers |-> NoPicture]
    /\ row = [o \in Owners |-> NoPicture]
    /\ up = [u \in Uploads |-> [op |-> "new", owner |-> NoPicture, number |-> 0, over |-> FALSE]]
    /\ now = 0
-----------------------------------------------------------------------------
\* `groups/${groupId}/avatar`, `users/${userId}/avatar-${Date.now()}`,
\* `settlements/${id}-${Date.now()}.${fileExtension}`.
NumberFor(o) == IF o \in Groups THEN 0 ELSE now

Key(u) == <<up[u].owner, up[u].number>>

SetOp(u, op) == up' = [up EXCEPT ![u].op = op]

\* The owner is there and the requester may: its key is computed.
Begin(u, o) ==
    /\ up[u].op = "new"
    /\ up' = [up EXCEPT ![u] = [op |-> "store", owner |-> o, number |-> NumberFor(o), over |-> FALSE]]
    /\ UNCHANGED <<object, row, now>>

\* What has a picture under the key of u that is not written yet now has none.
PutObject(u, op) ==
    /\ object' = [object EXCEPT ![Key(u)] = u]
    /\ up' = [v \in Uploads |->
                IF v = u THEN [up[v] EXCEPT !.op = op]
                ELSE IF up[v].op = "write" /\ Key(v) = Key(u) THEN [up[v] EXCEPT !.over = TRUE]
                ELSE up[v]]

\* storage.upload, overwrite: true.
Store(u) ==
    /\ up[u].op = "store"
    /\ PutObject(u, "write")
    /\ UNCHANGED <<row, now>>

\* storage.upload rejects: the picture has an unsupported type or was refused, or
\* the timeout of 15 seconds went off, after which it may still be stored.  This is
\* outside the try: nothing is rolled back.
StoreFails(u) ==
    /\ up[u].op = "store"
    /\ \/ SetOp(u, "refused") /\ UNCHANGED object
       \/ PutObject(u, "leaked")
    /\ UNCHANGED <<row, now>>

\* repository.update, updateEvidence: one statement.
WriteRow(u) ==
    /\ up[u].op = "write"
    /\ row' = [row EXCEPT ![up[u].owner] = u]
    /\ SetOp(u, "done")
    /\ UNCHANGED <<object, now>>

\* Slip: a failed write is just answered.
AfterFailure_NoRollback(u) == "done"

\* The catch of the two avatars; uploadEvidence has none.
AfterFailure(u) == IF up[u].owner \in Settlements THEN "leaked" ELSE "rollback"

\* The statement fails, or commits and its answer is lost.
WriteFails(u) ==
    /\ up[u].op = "write"
    /\ row' \in {row, [row EXCEPT ![up[u].owner] = u]}
    /\ SetOp(u, AfterFailure(u))
    /\ UNCHANGED <<object, now>>

\* Slip: what the row names is deleted and not what was just stored.
Rollback_Named(u) ==
    /\ up[u].op = "rollback"
    /\ row[up[u].owner] # NoPicture
    /\ object' = [object EXCEPT ![Key(row[up[u].owner])] = NoPicture]
    /\ SetOp(u, "undone")
    /\ UNCHANGED <<row, now>>

\* storage.delete(uploadResponse.key), which nobody waits for: by key, whatever
\* picture is there by now.
Rollback(u) ==
    /\ up[u].op = "rollback"
    /\ object' = [object EXCEPT ![Key(u)] = NoPicture]
    /\ SetOp(u, "undone")
    /\ UNCHANGED <<row, now>>

\* 'Failed to rollback avatar'.
RollbackFails(u) ==
    /\ up[u].op = "rollback"
    /\ SetOp(u, "leaked")
    /\ UNCHANGED <<object, row, now>>

Tick ==
    /\ now < MaxTime
    /\ now' = now + 1
    /\ UNCHANGED <<object, row, up>>

\* The process stops: requests end where they are.
ServerStops ==
    /\ up' = [u \in Uploads |->
                [up[u] EXCEPT !.op = CASE @ = "store" -> "refused"
                                       [] @ \in {"write", "rollback"} -> "leaked"
                                       [] OTHER -> @]]
    /\ up' # up
    /\ UNCHANGED <<object, row, now>>

Finish(u) ==
    \/ Store(u) \/ StoreFails(u)
    \/ WriteRow(u) \/ WriteFails(u)
    \/ Rollback(u) \/ RollbackFails(u)

UploadsNext ==
    \/ \E u \in Uploads : Finish(u) \/ \E o \in Owners : Begin(u, o)
    \/ Tick
    \/ ServerStops

\* The storage client gives up after its timeout and a statement ends, so each
\* request the server has goes on; nobody has to upload anything.
UploadsFairness == \A u \in Uploads : WF_uploadVars(Finish(u))

UploadsSpec == UploadsInit /\ [][UploadsNext]_uploadVars /\ UploadsFairness
-----------------------------------------------------------------------------
\* The picture a row names is the one it was written for.
Shown(o) == row[o] # NoPicture => object[Key(row[o])] = row[o]

\* Uploads that could be in the way of what the row of o names.
Rivals(o) == {u \in Uploads : up[u].owner = o /\ (o \in Groups \/ up[u].number = up[row[o]].number)}

\* What leaves a row with the wrong picture or none: a rival whose picture is
\* deleted (also the row's own, when the answer of its write was lost), one on its
\* way or leaked, or one that stored between picture and row of the upload named.
Disturbed(o) ==
    \/ up[row[o]].over
    \/ \E u \in Rivals(o) : \/ up[u].op = "undone"
                            \/ u # row[o] /\ up[u].op \in {"write", "rollback", "leaked"}

\* A row names a picture that is stored, and the one it was written for: users and
\* settlements whatever other uploads of them succeed, fail or overlap in other
\* milliseconds; a group only when its uploads come one after the other and succeed.
PicturesShown == \A o \in Owners : Shown(o) \/ Disturbed(o)

\* A picture that is stored is named by its row sooner or later, or is overwritten or
\* deleted: what is left in the storage for ever was named by a row once, or lost its
\* request to a crash, a refused deletion, a timeout or, as evidence, a failed write.
PicturesAccounted ==
    \A u \in Uploads, o \in Owners :
      up[u].op = "write" /\ up[u].owner = o ~>
        up[u].op = "leaked" \/ row[o] = u \/ object[<<o, up[u].number>>] # u
=============================================================================
