------------------------------ MODULE MapStore ------------------------------
(***************************************************************************)
(* The versions of one map (server/fleet/maps.go) and the content that a   *)
(* publication sends to the vehicle (map_publication.go).                  *)
(*                                                                         *)
(* A version has a directory of files, rows in PostgreSQL and an entry in  *)
(* memory.  Uploads, edits and conversions hold the mutex while they write *)
(* the directory, commit the rows and replace the entry, in this order; a  *)
(* commit that returns an error removes the directory again.  A deletion   *)
(* removes row and entry under the mutex and the directory without it.     *)
(* The process may stop between any two of these steps.                    *)
(*                                                                         *)
(* A content is a number in place of its SHA-256.  Names, kinds, notes and *)
(* the parsing of point clouds are left out.                               *)
(***************************************************************************)
EXTENDS Integers, Sequences

CONSTANTS
    Workers,
    Contents,       \* contents that are uploaded
    MaxVersions,    \* bound: the versions of the map
    MaxEvents       \* bound: deletions, failed steps and restarts

ASSUME MapStoreConstants ==
    /\ Contents \subseteq Nat \ {0}
    /\ MaxVersions \in Nat /\ MaxEvents \in Nat

Numbers == 1..MaxVersions

(* The content of an edit or a conversion, and of an empty directory.      *)
Derived == 0
NoFiles == -1

(* MapVersion: its content, and whether it was uploaded or derived.        *)
Versions == [content : Contents \cup {Derived}, raw : BOOLEAN]

(* MapEntry: its versions, and SHA256, the content of the last upload.     *)
NoMap == [sha |-> 0, versions |-> <<>>]

NoPublication == [state |-> "none", version |-> 0, asked |-> NoFiles,
                  sent |-> NoFiles, deleted |-> FALSE]

NoVersion == [content |-> Derived, raw |-> FALSE]

(* A request between two steps: it has staged the files of a version, has  *)
(* found the version to read, or has a directory to remove.  The version   *)
(* is at risk if such a removal is still to come.                          *)
Idle == [stage |-> "idle", ver |-> 0, version |-> NoVersion, atRisk |-> FALSE]
Stages == {"idle", "staged", "reading", "removing"}

VARIABLES
    maps,           \* ms.maps[id]
    rows,           \* maps and map_versions
    files,          \* the directory v<n> of each version
    mutex,          \* ms.mu: somebody is between staging and commit
    work,           \* the requests being served
    publication,    \* a row of map_publications, and the command it sent
    behind,         \* history: the rows were changed by a write that went
                    \* unanswered, in the life of this process
    spoiled,        \* history: versions committed unanswered or at risk
    events          \* counts what MaxEvents bounds

history == <<behind, spoiled>>
vars == <<maps, rows, files, mutex, work, publication, history, events>>

Init ==
    /\ maps = NoMap /\ rows = NoMap
    /\ files = [v \in Numbers |-> NoFiles]
    /\ mutex = FALSE
    /\ work = [w \in Workers |-> Idle]
    /\ publication = NoPublication
    /\ behind = FALSE /\ spoiled = {}
    /\ events = 0

Event == events < MaxEvents /\ events' = events + 1

(* The outcomes of a write: an error may come before or after its effect.  *)
Outcomes == IF events < MaxEvents THEN {"ok", "failed", "unanswered"} ELSE {"ok"}
Count(o) == events' = IF o = "ok" THEN events ELSE events + 1

Present(m) == m.versions # <<>>

Removing == \E w \in Workers : work[w].stage = "removing"

-----------------------------------------------------------------------------
(* Versions                                                                *)

(* Mutant: a derived version is numbered like the one it derives from.     *)
NextVersionAgain(v) ==
    IF v.raw \/ ~Present(maps) THEN Len(maps.versions) + 1 ELSE Len(maps.versions)

(* The number Register and addDerivedLocked give to a new version.         *)
NextVersion(v) == Len(maps.versions) + 1

(* The directory is made and its files are written.                        *)
Stage(w, v) ==
    LET n == NextVersion(v) IN
    /\ work[w] = Idle /\ ~mutex
    /\ n \in Numbers
    /\ mutex' = TRUE
    /\ files' = [files EXCEPT ![n] = v.content]
    /\ work' = [work EXCEPT
                  ![w] = [stage |-> "staged", ver |-> n, version |-> v,
                          atRisk |-> Removing]]
    /\ UNCHANGED <<maps, rows, publication, history, events>>

(* Register answers "unchanged" to the content of the last upload.         *)
Unchanged(c) == Present(maps) /\ maps.sha = c

Register(w, c) == ~Unchanged(c) /\ Stage(w, [content |-> c, raw |-> TRUE])

(* addDerivedLocked *)
Derive(w) == Stage(w, [content |-> Derived, raw |-> FALSE])

SaveEdit(w) == Present(maps) /\ Derive(w)

(* Convert runs its script on the file of the last version, with the mutex *)
(* held.                                                                   *)
Convert(w) ==
    /\ Present(maps) /\ files[Len(maps.versions)] # NoFiles
    /\ Derive(w)

(* A file cannot be written: what there is of the directory is removed.    *)
StageFails(w) ==
    /\ work[w].stage = "staged" /\ Event
    /\ files' = [files EXCEPT ![work[w].ver] = NoFiles]
    /\ mutex' = FALSE
    /\ work' = [work EXCEPT ![w] = Idle]
    /\ UNCHANGED <<maps, rows, publication, history>>

(* An entry with one version more, and the content of the last upload.     *)
With(m, v) == [sha |-> IF v.raw THEN v.content ELSE maps.sha,
               versions |-> Append(m.versions, v)]

(* persistVersion refuses a number other than the next in the table.       *)
Conflict(n) == Len(rows.versions) + 1 # n

(* Mutant: the whole directory of the map is removed.                      *)
DiscardedAll(n) == [v \in Numbers |-> NoFiles]

(* What an error of persistVersion leaves on disk.                         *)
Discarded(n) == [files EXCEPT ![n] = NoFiles]

(* Mutant: the entry is replaced before the commit, and stays.             *)
TakenOverAnyway(v, committed) == With(maps, v)

(* The entry is replaced after the commit.                                 *)
TakenOver(v, committed) == IF committed THEN With(maps, v) ELSE maps

(* persistVersion and what Register and addDerivedLocked do on its result. *)
Commit(w, o) ==
    LET n == work[w].ver  v == work[w].version
        stored == ~Conflict(n) /\ o # "failed"
        committed == ~Conflict(n) /\ o = "ok"
    IN
    /\ work[w].stage = "staged"
    /\ o \in Outcomes /\ Count(o)
    /\ rows' = IF stored THEN With(rows, v) ELSE rows
    /\ files' = IF committed THEN files ELSE Discarded(n)
    /\ maps' = TakenOver(v, committed)
    /\ behind' = (behind \/ (stored /\ ~committed))
    /\ spoiled' = CASE ~stored -> spoiled
                    [] stored /\ (~committed \/ work[w].atRisk) -> spoiled \cup {n}
                    [] OTHER -> spoiled \ {n}
    /\ mutex' = FALSE
    /\ work' = [work EXCEPT ![w] = Idle]
    /\ UNCHANGED publication

(* Delete: first the rows, with all versions, and the entry, ...           *)
Delete(w, o) ==
    /\ work[w] = Idle /\ ~mutex
    /\ Present(maps)
    /\ o \in Outcomes /\ Event
    /\ rows' = IF o = "failed" THEN rows ELSE NoMap
    /\ maps' = IF o = "ok" THEN NoMap ELSE maps
    /\ behind' = CASE o = "ok" -> FALSE
                   [] o = "unanswered" -> TRUE
                   [] o = "failed" -> behind
    /\ work' = IF o # "ok" THEN work
               ELSE [u \in Workers |->
                       IF u = w THEN [Idle EXCEPT !.stage = "removing"]
                       ELSE [work[u] EXCEPT !.atRisk = @ \/ work[u].stage = "reading"]]
    /\ publication' = [publication EXCEPT
                         !.deleted = @ \/ (publication.state # "none" /\ o # "failed")]
    /\ UNCHANGED <<files, mutex, spoiled>>

(* ... then the directory, without the mutex.                              *)
RemoveAll(w) ==
    /\ work[w].stage = "removing"
    /\ \/ files' = [v \in Numbers |-> NoFiles] /\ UNCHANGED events
       \/ UNCHANGED files /\ Event
    /\ work' = [work EXCEPT ![w] = Idle]
    /\ UNCHANGED <<maps, rows, mutex, publication, history>>

-----------------------------------------------------------------------------
(* Reading                                                                 *)

(* Mutant: the last version, whichever is asked for.                       *)
mapVersionOfLast(n) == maps.versions[Len(maps.versions)]

mapVersionOf(n) == maps.versions[n]

(* Points finds the version under the mutex, ...                           *)
Preview(w, n) ==
    /\ work[w] = Idle /\ ~mutex
    /\ n \in DOMAIN maps.versions /\ maps.versions[n].raw
    /\ work' = [work EXCEPT
                  ![w] = [stage |-> "reading", ver |-> n, version |-> maps.versions[n],
                          atRisk |-> Removing \/ n \in spoiled]]
    /\ UNCHANGED <<maps, rows, files, mutex, publication, history, events>>

(* ... and reads its file without it; a file that is gone is an error.     *)
ReadFile(w) ==
    /\ work[w].stage = "reading"
    /\ work' = [work EXCEPT ![w] = Idle]
    /\ UNCHANGED <<maps, rows, files, mutex, publication, history, events>>

-----------------------------------------------------------------------------
(* Publication                                                             *)

(* RequestMapPublication notes the content of the version.                 *)
RequestPublication(n) ==
    /\ publication.state = "none" /\ ~mutex
    /\ n \in DOMAIN maps.versions
    /\ publication' = [NoPublication EXCEPT !.state = "requested", !.version = n,
                                            !.asked = mapVersionOf(n).content,
                                            !.deleted = n \notin DOMAIN rows.versions]
    /\ UNCHANGED <<maps, rows, files, mutex, work, history, events>>

(* ApproveMapPublication sends the content the version has now.            *)
ApprovePublication ==
    /\ publication.state = "requested" /\ ~mutex
    /\ publication.version \in DOMAIN maps.versions
    /\ publication' = [publication EXCEPT
                         !.state = "approved",
                         !.sent = mapVersionOf(publication.version).content]
    /\ UNCHANGED <<maps, rows, files, mutex, work, history, events>>

-----------------------------------------------------------------------------

(* NewMapStore and loadDB; a directory without a row is left where it is.  *)
Restart ==
    /\ Event
    /\ maps' = rows
    /\ mutex' = FALSE
    /\ work' = [w \in Workers |-> Idle]
    /\ behind' = FALSE
    /\ UNCHANGED <<rows, files, publication, spoiled>>

Next ==
    \/ \E w \in Workers :
        \/ \E c \in Contents : Register(w, c)
        \/ SaveEdit(w)
        \/ Convert(w)
        \/ StageFails(w)
        \/ RemoveAll(w)
        \/ \E n \in Numbers : Preview(w, n)
        \/ ReadFile(w)
        \/ \E o \in Outcomes : Commit(w, o) \/ Delete(w, o)
    \/ \E n \in Numbers : RequestPublication(n)
    \/ ApprovePublication
    \/ Restart

Spec == Init /\ [][Next]_vars

-----------------------------------------------------------------------------
(* Properties                                                              *)

(* Every variable has its type.                                            *)
TypeOK ==
    /\ \A m \in {maps, rows} :
        /\ m.sha \in Contents \cup {0} /\ Len(m.versions) <= MaxVersions
        /\ \A n \in DOMAIN m.versions : m.versions[n] \in Versions
    /\ files \in [Numbers -> Contents \cup {Derived, NoFiles}]
    /\ mutex \in BOOLEAN
    /\ DOMAIN work = Workers /\ \A w \in Workers : work[w].stage \in Stages
    /\ behind \in BOOLEAN /\ spoiled \subseteq Numbers
    /\ events \in 0..MaxEvents

(* Every version in the table has the files that were stored with it, and  *)
(* no later upload, edit, deletion, failure or restart changes them; except*)
(* a version whose commit went unanswered, so that its files were removed, *)
(* and one that was stored while an earlier deletion was still to remove   *)
(* the directory.                                                          *)
FilesBackVersions ==
    \A n \in DOMAIN rows.versions \ spoiled : files[n] = rows.versions[n].content

(* What the process believes of the map is what is in the table, unless a  *)
(* write went unanswered and the process was not restarted since.          *)
EntryMatchesRows == ~behind => maps = rows

(* A preview shows the version it found, or fails: whatever is stored      *)
(* between its look at the map and its read of the file; except when the   *)
(* map is deleted in between, a deletion is still to remove the files, or  *)
(* the version was stored with one of the exceptions above.                *)
PreviewsAreGenuine ==
    \A w \in Workers :
        work[w].stage = "reading" /\ ~work[w].atRisk =>
            files[work[w].ver] \in {NoFiles, work[w].version.content}

(* The vehicle is sent the content that was asked for, whatever was stored *)
(* between request and approval, unless the map was deleted: then another  *)
(* map may have taken the number of the version.                           *)
PublishedAsRequested ==
    publication.state = "approved" /\ ~publication.deleted =>
        publication.sent = publication.asked

=============================================================================
