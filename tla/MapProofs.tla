------------------------------ MODULE MapProofs ------------------------------
(***************************************************************************)
(* Proofs about the maps: MapStore, for any number of requests, contents,  *)
(* versions, failures and restarts, and MapPublication, for any number of  *)
(* publications.  Neither specification uses the other.                    *)
(***************************************************************************)
EXTENDS MapStore, MapPublication, TLAPS

Maps == [sha : Contents \cup {0}, versions : Seq(Versions)]
Requests == [stage : Stages, ver : Nat, version : Versions, atRisk : BOOLEAN]
PublicationRows ==
    [state : {"none", "requested", "approved"}, version : Nat,
     asked : Int, sent : Int, deleted : BOOLEAN]

Typed ==
    /\ maps \in Maps /\ Len(maps.versions) <= MaxVersions
    /\ rows \in Maps /\ Len(rows.versions) <= MaxVersions
    /\ files \in [Numbers -> Contents \cup {Derived, NoFiles}]
    /\ mutex \in BOOLEAN
    /\ work \in [Workers -> Requests]
    /\ publication \in PublicationRows
    /\ behind \in BOOLEAN /\ spoiled \subseteq Numbers
    /\ events \in 0..MaxEvents

Staged(w) == work[w].stage = "staged"

(* Who has staged files has the mutex, alone, and the next number of the   *)
(* map; the files are there unless a deletion was still to come.           *)
StagedIsNext ==
    \A w \in Workers : Staged(w) =>
        /\ mutex
        /\ \A u \in Workers : Staged(u) => u = w
        /\ work[w].ver \in Numbers /\ work[w].ver = Len(maps.versions) + 1
        /\ ~work[w].atRisk => files[work[w].ver] = work[w].version.content

(* While a deletion has still to remove the directory, every version is    *)
(* spoiled and whatever is staged is at risk.                              *)
RemovalSpoils ==
    Removing =>
        /\ DOMAIN rows.versions \subseteq spoiled
        /\ DOMAIN maps.versions \subseteq spoiled
        /\ \A w \in Workers : Staged(w) => work[w].atRisk

(* Rows the process does not know of were stored unanswered.               *)
AheadIsSpoiled ==
    \A n \in DOMAIN rows.versions : n \notin DOMAIN maps.versions => n \in spoiled

(* Where both have a version it is the same one.                           *)
SameVersions ==
    \A n \in DOMAIN rows.versions \cap DOMAIN maps.versions :
        rows.versions[n] = maps.versions[n]

(* The files also back what the process believes, which may outlive the    *)
(* rows when a deletion went unanswered.                                   *)
FilesBackEntry ==
    \A n \in DOMAIN maps.versions \ spoiled : files[n] = maps.versions[n].content

(* Who reads a version without the mutex still finds it in the map.        *)
ReadersFindVersion ==
    \A w \in Workers : work[w].stage = "reading" /\ ~work[w].atRisk =>
        /\ work[w].ver \in DOMAIN maps.versions \ spoiled
        /\ maps.versions[work[w].ver] = work[w].version

RequestedIsStored ==
    publication.state = "requested" /\ ~publication.deleted =>
        /\ publication.version \in DOMAIN rows.versions
        /\ publication.asked = rows.versions[publication.version].content

IInv ==
    /\ Typed /\ StagedIsNext /\ RemovalSpoils /\ AheadIsSpoiled /\ SameVersions
    /\ FilesBackVersions /\ FilesBackEntry /\ ReadersFindVersion /\ RequestedIsStored
    /\ EntryMatchesRows /\ PublishedAsRequested

-----------------------------------------------------------------------------
LEMMA VersionFacts ==
    /\ NoVersion \in Versions /\ Contents \subseteq Int
    /\ \A v \in Versions : /\ v.content \in Contents \cup {Derived} /\ v.content \in Int
                           /\ v.raw \in BOOLEAN
<1>1. NoVersion \in Versions
  BY DEF NoVersion, Versions
<1>2. Contents \subseteq Int
  BY MapStoreConstants DEF MapStoreConstants
<1>3. \A v \in Versions : v.content \in Contents \cup {Derived} /\ v.raw \in BOOLEAN
  BY DEF Versions
<1>4. \A v \in Versions : v.content \in Int
  <2>1. Contents \cup {Derived} \subseteq Int
    BY <1>2 DEF Derived
  <2> QED  BY <1>3, <2>1
<1> QED  BY <1>1, <1>2, <1>3, <1>4

LEMMA IdleType == Idle \in Requests /\ Idle.stage = "idle"
BY VersionFacts DEF Idle, Requests, Stages

LEMMA NoMapFacts == /\ NoMap \in Maps /\ Len(NoMap.versions) = 0
                    /\ DOMAIN NoMap.versions = {}
<1>1. << >> \in Seq(Versions)
  OBVIOUS
<1> QED  BY <1>1 DEF NoMap, Maps

LEMMA MapFacts ==
    ASSUME NEW m \in Maps
    PROVE  /\ Len(m.versions) \in Nat /\ DOMAIN m.versions = 1..Len(m.versions)
           /\ \A n \in DOMAIN m.versions : m.versions[n] \in Versions
<1>1. m.versions \in Seq(Versions)
  BY DEF Maps
<1>2. ASSUME NEW S, NEW s \in Seq(S)
      PROVE  /\ Len(s) \in Nat /\ DOMAIN s = 1..Len(s) /\ \A n \in DOMAIN s : s[n] \in S
  OBVIOUS
<1> QED  BY <1>1, <1>2

LEMMA WithFacts ==
    ASSUME maps \in Maps, NEW m \in Maps, NEW v \in Versions
    PROVE  /\ With(m, v) \in Maps
           /\ Len(With(m, v).versions) = Len(m.versions) + 1
           /\ DOMAIN With(m, v).versions = DOMAIN m.versions \cup {Len(m.versions) + 1}
           /\ \A n \in DOMAIN m.versions : With(m, v).versions[n] = m.versions[n]
           /\ With(m, v).versions[Len(m.versions) + 1] = v
<1>1. m.versions \in Seq(Versions)
  BY DEF Maps
<1>2. ASSUME NEW S, NEW s \in Seq(S), NEW e \in S
      PROVE  /\ Append(s, e) \in Seq(S) /\ Len(Append(s, e)) = Len(s) + 1
             /\ DOMAIN Append(s, e) = DOMAIN s \cup {Len(s) + 1}
             /\ \A n \in DOMAIN s : Append(s, e)[n] = s[n]
             /\ Append(s, e)[Len(s) + 1] = e
  OBVIOUS
<1>3. With(m, v).versions = Append(m.versions, v)
  BY DEF With
<1>4. With(m, v) \in Maps
  BY <1>1, <1>2, VersionFacts DEF With, Maps, Derived
<1> QED  BY <1>1, <1>2, <1>3, <1>4

LEMMA Initially == Init => IInv
<1> SUFFICES ASSUME Init PROVE IInv
  OBVIOUS
<1>1. NoPublication \in PublicationRows /\ NoPublication.state = "none"
  BY DEF NoPublication, PublicationRows, NoFiles
<1>2. Typed
  <2>1. work \in [Workers -> Requests]
    BY IdleType DEF Init
  <2>2. files \in [Numbers -> Contents \cup {Derived, NoFiles}]
    BY DEF Init
  <2>3. maps = NoMap /\ rows = NoMap /\ publication = NoPublication /\ mutex = FALSE
        /\ behind = FALSE /\ spoiled = {} /\ events = 0
    BY DEF Init
  <2>4. MaxVersions \in Nat /\ MaxEvents \in Nat
    BY MapStoreConstants DEF MapStoreConstants
  <2>5. /\ NoMap \in Maps /\ Len(NoMap.versions) <= MaxVersions /\ 0 \in 0..MaxEvents
        /\ FALSE \in BOOLEAN /\ {} \subseteq Numbers
    BY <2>4, NoMapFacts
  <2> QED  BY <1>1, <2>1, <2>2, <2>3, <2>5, Zenon DEF Typed
<1>3. \A w \in Workers : work[w].stage = "idle"
  BY IdleType DEF Init
<1>4. StagedIsNext /\ RemovalSpoils /\ ReadersFindVersion
  BY <1>3 DEF StagedIsNext, RemovalSpoils, ReadersFindVersion, Staged, Removing
<1>5. AheadIsSpoiled /\ SameVersions /\ FilesBackVersions /\ FilesBackEntry /\ EntryMatchesRows
  BY NoMapFacts DEF Init, AheadIsSpoiled, SameVersions, FilesBackVersions, FilesBackEntry, EntryMatchesRows
<1>6. RequestedIsStored /\ PublishedAsRequested
  BY <1>1 DEF Init, RequestedIsStored, PublishedAsRequested
<1> QED  BY <1>2, <1>4, <1>5, <1>6 DEF IInv

-----------------------------------------------------------------------------
(* Staging writes files under a number that is no version of the map yet.  *)

LEMMA StageStep ==
    ASSUME IInv, NEW w \in Workers, NEW v \in Versions, Stage(w, v)
    PROVE  IInv'
<1>1. PICK n \in Numbers : n = Len(maps.versions) + 1
  BY DEF Stage, NextVersion
<1>2. PICK r : r = [stage |-> "staged", ver |-> n, version |-> v, atRisk |-> Removing]
  OBVIOUS
<1>3. r \in Requests /\ r.stage = "staged" /\ r.ver = n /\ r.version = v /\ r.atRisk = Removing
  BY <1>2, MapStoreConstants DEF Requests, Stages, Numbers, Removing, MapStoreConstants
<1>4. work' = [work EXCEPT ![w] = r] /\ files' = [files EXCEPT ![n] = v.content] /\ mutex' = TRUE
  BY <1>1, <1>2 DEF Stage, NextVersion
<1>5. UNCHANGED <<maps, rows, publication, behind, spoiled, events>> /\ work[w] = Idle /\ ~mutex
  BY DEF Stage, history
<1>6. /\ work' \in [Workers -> Requests]
      /\ \A u \in Workers : work'[u] = IF u = w THEN r ELSE work[u]
      /\ files' \in [Numbers -> Contents \cup {Derived, NoFiles}] /\ files'[n] = v.content
      /\ \A k \in Numbers : k # n => files'[k] = files[k]
  BY <1>3, <1>4, VersionFacts DEF IInv, Typed
<1>7. n \notin DOMAIN maps.versions /\ (n \in DOMAIN rows.versions => n \in spoiled)
  BY <1>1, MapFacts DEF IInv, Typed, AheadIsSpoiled
<1>8. DOMAIN rows.versions \subseteq Numbers /\ DOMAIN maps.versions \subseteq Numbers
  BY MapFacts, MapStoreConstants DEF IInv, Typed, Numbers, MapStoreConstants
<1>9. Removing' <=> Removing
  BY <1>3, <1>5, <1>6, IdleType DEF Removing
<1>10. \A u \in Workers : ~Staged(u)
  BY <1>5 DEF IInv, StagedIsNext
<1>11. Typed'
  BY <1>4, <1>5, <1>6 DEF IInv, Typed
<1>12. StagedIsNext'
  BY <1>1, <1>3, <1>4, <1>5, <1>6, <1>10 DEF StagedIsNext, Staged
<1>13. RemovalSpoils'
  BY <1>3, <1>5, <1>6, <1>9, <1>10 DEF IInv, RemovalSpoils, Staged
<1>14. AheadIsSpoiled' /\ SameVersions' /\ EntryMatchesRows' /\ RequestedIsStored' /\ PublishedAsRequested'
  BY <1>5 DEF IInv, AheadIsSpoiled, SameVersions, EntryMatchesRows, RequestedIsStored, PublishedAsRequested
<1>15. FilesBackVersions' /\ FilesBackEntry'
  BY <1>5, <1>6, <1>7, <1>8 DEF IInv, FilesBackVersions, FilesBackEntry
<1>16. ReadersFindVersion'
  BY <1>3, <1>5, <1>6 DEF IInv, ReadersFindVersion
<1> QED  BY <1>11, <1>12, <1>13, <1>14, <1>15, <1>16 DEF IInv

(* The mutex is released and the number that was staged is free again.     *)
LEMMA UnstageFacts ==
    ASSUME IInv, NEW w \in Workers, Staged(w), work' = [work EXCEPT ![w] = Idle]
    PROVE  /\ work' \in [Workers -> Requests]
           /\ \A u \in Workers : work'[u] = IF u = w THEN Idle ELSE work[u]
           /\ \A u \in Workers : ~Staged(u)'
           /\ Removing' <=> Removing
<1>1. /\ work' \in [Workers -> Requests]
      /\ \A u \in Workers : work'[u] = IF u = w THEN Idle ELSE work[u]
  BY IdleType DEF IInv, Typed
<1>2. \A u \in Workers : ~Staged(u)'
  BY <1>1, IdleType DEF IInv, StagedIsNext, Staged
<1>3. Removing' <=> Removing
  BY <1>1, IdleType DEF Removing, Staged
<1> QED  BY <1>1, <1>2, <1>3

(* What was staged is discarded, and nothing else changes.                 *)
LEMMA DiscardStep ==
    ASSUME IInv, NEW w \in Workers, Staged(w), work' = [work EXCEPT ![w] = Idle],
           files' = Discarded(work[w].ver), mutex' = FALSE, events' \in 0..MaxEvents,
           UNCHANGED <<maps, rows, publication, behind, spoiled>>
    PROVE  IInv'
<1>1. PICK n \in Numbers : n = work[w].ver /\ n = Len(maps.versions) + 1
  BY DEF IInv, StagedIsNext
<1>2. /\ files' \in [Numbers -> Contents \cup {Derived, NoFiles}]
      /\ \A k \in Numbers : k # n => files'[k] = files[k]
  BY <1>1 DEF IInv, Typed, Discarded
<1>3. n \notin DOMAIN maps.versions /\ (n \in DOMAIN rows.versions => n \in spoiled)
  BY <1>1, MapFacts DEF IInv, Typed, AheadIsSpoiled
<1>4. DOMAIN rows.versions \subseteq Numbers /\ DOMAIN maps.versions \subseteq Numbers
  BY MapFacts, MapStoreConstants DEF IInv, Typed, Numbers, MapStoreConstants
<1>5. Typed'
  BY <1>2, UnstageFacts DEF IInv, Typed
<1>6. StagedIsNext' /\ RemovalSpoils'
  BY UnstageFacts DEF IInv, StagedIsNext, RemovalSpoils
<1>7. AheadIsSpoiled' /\ SameVersions' /\ EntryMatchesRows' /\ RequestedIsStored' /\ PublishedAsRequested'
  BY DEF IInv, AheadIsSpoiled, SameVersions, EntryMatchesRows, RequestedIsStored, PublishedAsRequested
<1>8. FilesBackVersions' /\ FilesBackEntry'
  BY <1>2, <1>3, <1>4 DEF IInv, FilesBackVersions, FilesBackEntry
<1>9. ReadersFindVersion'
  BY UnstageFacts, IdleType DEF IInv, ReadersFindVersion
<1> QED  BY <1>5, <1>6, <1>7, <1>8, <1>9 DEF IInv

LEMMA StageFailsStep ==
    ASSUME IInv, NEW w \in Workers, StageFails(w)
    PROVE  IInv'
<1>1. events' \in 0..MaxEvents
  BY MapStoreConstants DEF StageFails, Event, IInv, Typed, MapStoreConstants
<1> QED  BY <1>1, DiscardStep DEF StageFails, Staged, Discarded, history

-----------------------------------------------------------------------------
(* The commit                                                              *)

LEMMA CommitStep ==
    ASSUME IInv, NEW w \in Workers, NEW o \in Outcomes, Commit(w, o)
    PROVE  IInv'
<1>1. Staged(w) /\ work' = [work EXCEPT ![w] = Idle] /\ mutex' = FALSE /\ publication' = publication
  BY DEF Commit, Staged
<1>2. PICK n \in Numbers : n = work[w].ver /\ n = Len(maps.versions) + 1
  BY <1>1 DEF IInv, StagedIsNext
<1>3. PICK v \in Versions : v = work[w].version
  BY DEF IInv, Typed, Requests
<1>4. events' \in 0..MaxEvents
  BY MapStoreConstants DEF Commit, Count, Outcomes, IInv, Typed, MapStoreConstants
<1>5. n \notin DOMAIN maps.versions
  BY <1>2, MapFacts DEF IInv, Typed
<1>6. DOMAIN rows.versions \subseteq Numbers /\ DOMAIN maps.versions \subseteq Numbers
  BY MapFacts, MapStoreConstants DEF IInv, Typed, Numbers, MapStoreConstants
<1>7. maps \in Maps /\ rows \in Maps /\ behind \in BOOLEAN /\ spoiled \subseteq Numbers
  BY DEF IInv, Typed
<1>8. CASE ~Conflict(n) /\ o # "failed"
  <2>1. n = Len(rows.versions) + 1 /\ n <= MaxVersions /\ n \notin DOMAIN rows.versions
    BY <1>7, <1>8, MapFacts, MapStoreConstants DEF Conflict, Numbers, MapStoreConstants
  <2>2. PICK R : R = With(rows, v)
    OBVIOUS
  <2>3. /\ R \in Maps /\ Len(R.versions) <= MaxVersions
        /\ DOMAIN R.versions = DOMAIN rows.versions \cup {n}
        /\ \A k \in DOMAIN rows.versions : R.versions[k] = rows.versions[k]
        /\ R.versions[n] = v
    BY <1>7, <2>1, <2>2, WithFacts
  <2>4. rows' = R
    BY <1>2, <1>3, <1>8, <2>2 DEF Commit
  <2>5. RequestedIsStored' /\ PublishedAsRequested'
    BY <1>1, <2>3, <2>4 DEF IInv, RequestedIsStored, PublishedAsRequested
  <2>6. CASE o = "ok"
    <3>1. PICK M : M = With(maps, v)
      OBVIOUS
    <3>2. /\ M \in Maps /\ Len(M.versions) <= MaxVersions /\ Len(M.versions) = n
          /\ DOMAIN M.versions = DOMAIN maps.versions \cup {n}
          /\ \A k \in DOMAIN maps.versions : M.versions[k] = maps.versions[k]
          /\ M.versions[n] = v
      BY <1>2, <1>7, <2>1, <3>1, WithFacts
    <3>3. maps' = M /\ files' = files /\ behind' = behind
      BY <1>2, <1>3, <1>7, <1>8, <2>6, <3>1 DEF Commit, TakenOver
    <3>4. spoiled' = IF work[w].atRisk THEN spoiled \cup {n} ELSE spoiled \ {n}
      BY <1>2, <1>8, <2>6 DEF Commit
    <3>5. spoiled' \subseteq Numbers /\ \A k \in Numbers : k # n => (k \in spoiled' <=> k \in spoiled)
      BY <1>7, <3>4
    <3>6. n \notin spoiled' => files[n] = v.content
      BY <1>1, <1>2, <1>3, <3>4 DEF IInv, StagedIsNext
    <3>7. Typed'
      BY <1>1, <1>4, <2>3, <2>4, <3>2, <3>3, <3>5, UnstageFacts DEF IInv, Typed
    <3>8. Removing => n \in spoiled'
      BY <1>1, <3>4 DEF IInv, RemovalSpoils
    <3>9. StagedIsNext' /\ RemovalSpoils'
      BY <1>1, <1>6, <2>3, <2>4, <3>2, <3>3, <3>5, <3>8, UnstageFacts DEF IInv, StagedIsNext, RemovalSpoils
    <3>10. AheadIsSpoiled' /\ SameVersions'
      BY <1>5, <1>6, <2>1, <2>3, <2>4, <3>2, <3>3, <3>5 DEF IInv, AheadIsSpoiled, SameVersions
    <3>11. FilesBackVersions'
      BY <1>6, <2>3, <2>4, <3>3, <3>5, <3>6 DEF IInv, FilesBackVersions
    <3>12. FilesBackEntry'
      BY <1>6, <3>2, <3>3, <3>5, <3>6 DEF IInv, FilesBackEntry
    <3>13. EntryMatchesRows'
      BY <2>2, <2>4, <3>1, <3>3 DEF IInv, EntryMatchesRows
    <3>14. ReadersFindVersion'
      BY <1>1, <1>5, <1>6, <3>2, <3>3, <3>5, UnstageFacts, IdleType DEF IInv, ReadersFindVersion
    <3> QED  BY <2>5, <3>7, <3>9, <3>10, <3>11, <3>12, <3>13, <3>14 DEF IInv
  <2>7. CASE o # "ok"
    <3>1. maps' = maps /\ files' = Discarded(n) /\ behind' = TRUE /\ spoiled' = spoiled \cup {n}
      BY <1>2, <1>3, <1>7, <1>8, <2>7 DEF Commit, TakenOver
    <3>2. /\ files' \in [Numbers -> Contents \cup {Derived, NoFiles}]
          /\ \A k \in Numbers : k # n => files'[k] = files[k]
      BY <3>1 DEF IInv, Typed, Discarded
    <3>3. spoiled' \subseteq Numbers
      BY <1>7, <3>1
    <3>4. Typed'
      BY <1>1, <1>4, <2>3, <2>4, <3>1, <3>2, <3>3, UnstageFacts DEF IInv, Typed
    <3>5. StagedIsNext' /\ RemovalSpoils'
      BY <1>1, <2>3, <2>4, <3>1, UnstageFacts DEF IInv, StagedIsNext, RemovalSpoils
    <3>6. AheadIsSpoiled' /\ SameVersions'
      BY <1>5, <2>3, <2>4, <3>1 DEF IInv, AheadIsSpoiled, SameVersions
    <3>7. FilesBackVersions' /\ FilesBackEntry' /\ EntryMatchesRows'
      BY <1>6, <2>3, <2>4, <3>1, <3>2 DEF IInv, FilesBackVersions, FilesBackEntry, EntryMatchesRows
    <3>8. ReadersFindVersion'
      BY <1>1, <1>5, <3>1, UnstageFacts, IdleType DEF IInv, ReadersFindVersion
    <3> QED  BY <2>5, <3>4, <3>5, <3>6, <3>7, <3>8 DEF IInv
  <2> QED  BY <2>6, <2>7
<1>9. CASE Conflict(n) \/ o = "failed"
  <2>1. rows' = rows /\ files' = Discarded(n) /\ maps' = maps /\ spoiled' = spoiled /\ behind' = behind
    <3>1. Conflict(work[w].ver) \/ o = "failed"
      BY <1>2, <1>9
    <3>2. ~(~Conflict(work[w].ver) /\ o # "failed") /\ ~(~Conflict(work[w].ver) /\ o = "ok")
      BY <3>1
    <3>3. rows' = rows /\ files' = Discarded(n) /\ maps' = maps /\ spoiled' = spoiled
      BY <1>2, <3>2 DEF Commit, TakenOver
    <3>4. behind' = (behind \/ FALSE)
      BY <3>2 DEF Commit
    <3> QED  BY <1>7, <3>3, <3>4
  <2> QED  BY <1>1, <1>2, <1>4, <2>1, DiscardStep
<1> QED  BY <1>8, <1>9

-----------------------------------------------------------------------------
(* The deletion                                                            *)

LEMMA DeleteStep ==
    ASSUME IInv, NEW w \in Workers, NEW o \in Outcomes, Delete(w, o)
    PROVE  IInv'
<1>1. events' \in 0..MaxEvents
  BY MapStoreConstants DEF Delete, Event, IInv, Typed, MapStoreConstants
<1>2. /\ publication' \in PublicationRows
      /\ publication'.state = publication.state /\ publication'.version = publication.version
      /\ publication'.asked = publication.asked /\ publication'.sent = publication.sent
      /\ publication'.deleted =
            (publication.deleted \/ (publication.state # "none" /\ o # "failed"))
  <2>1. publication \in PublicationRows
    BY DEF IInv, Typed
  <2> QED  BY <2>1 DEF Delete, PublicationRows
<1>3. PublishedAsRequested'
  BY <1>2 DEF IInv, PublishedAsRequested
<1>4. UNCHANGED <<files, mutex, spoiled>> /\ work[w] = Idle /\ ~mutex
  BY DEF Delete
<1>5. \A u \in Workers : ~Staged(u)
  BY <1>4 DEF IInv, StagedIsNext
<1>6. o \in {"ok", "failed", "unanswered"}
  BY DEF Outcomes
<1>7. CASE o = "failed"
  <2>1. UNCHANGED <<maps, rows, behind, work>>
    BY <1>7 DEF Delete
  <2>2. RequestedIsStored'
    BY <1>2, <1>7, <2>1 DEF IInv, RequestedIsStored
  <2>3. Typed'
    BY <1>1, <1>2, <1>4, <2>1 DEF IInv, Typed
  <2>4. StagedIsNext' /\ RemovalSpoils' /\ AheadIsSpoiled' /\ SameVersions'
    BY <1>4, <2>1 DEF IInv, StagedIsNext, RemovalSpoils, AheadIsSpoiled, SameVersions, Staged, Removing
  <2>5. FilesBackVersions' /\ FilesBackEntry' /\ EntryMatchesRows' /\ ReadersFindVersion'
    BY <1>4, <2>1 DEF IInv, FilesBackVersions, FilesBackEntry, EntryMatchesRows, ReadersFindVersion
  <2> QED  BY <1>3, <2>2, <2>3, <2>4, <2>5 DEF IInv
<1>8. CASE o # "failed"
  <2>1. rows' = NoMap
    BY <1>8 DEF Delete
  <2>2. RequestedIsStored'
    BY <1>2, <1>8 DEF RequestedIsStored
  <2>3. FilesBackVersions' /\ AheadIsSpoiled' /\ SameVersions'
    BY <2>1, NoMapFacts DEF FilesBackVersions, AheadIsSpoiled, SameVersions
  <2>4. CASE o = "unanswered"
    <3>1. maps' = maps /\ work' = work /\ behind' = TRUE
      BY <2>4 DEF Delete
    <3>2. Typed'
      BY <1>1, <1>2, <1>4, <2>1, <3>1, NoMapFacts, MapStoreConstants DEF IInv, Typed, MapStoreConstants
    <3>3. StagedIsNext' /\ RemovalSpoils' /\ FilesBackEntry' /\ EntryMatchesRows' /\ ReadersFindVersion'
      BY <1>4, <2>1, <3>1, NoMapFacts DEF IInv, StagedIsNext, RemovalSpoils, FilesBackEntry,
         EntryMatchesRows, ReadersFindVersion, Staged, Removing
    <3> QED  BY <1>3, <2>2, <2>3, <3>2, <3>3 DEF IInv
  <2>5. CASE o = "ok"
    <3>1. /\ maps' = NoMap /\ behind' = FALSE
          /\ work' = [u \in Workers |->
                        IF u = w THEN [Idle EXCEPT !.stage = "removing"]
                        ELSE [work[u] EXCEPT !.atRisk = @ \/ work[u].stage = "reading"]]
      BY <2>5 DEF Delete
    <3>2. PICK r : r = [Idle EXCEPT !.stage = "removing"]
      OBVIOUS
    <3>3. r \in Requests /\ r.stage = "removing"
      BY <3>2, VersionFacts DEF Idle, Requests, Stages
    <3>4. ASSUME NEW u \in Workers
          PROVE  /\ work'[u] \in Requests /\ ~Staged(u)'
                 /\ work'[u].stage = "reading" => work'[u].atRisk
      <4>1. CASE u = w
        BY <3>1, <3>2, <3>3, <4>1 DEF Staged
      <4>2. CASE u # w
        <5>1. work[u] \in Requests /\ work[u].stage # "staged"
          BY <1>5 DEF IInv, Typed, Staged
        <5>2. PICK b \in BOOLEAN : b = (work[u].atRisk \/ work[u].stage = "reading")
          BY <5>1 DEF Requests
        <5>3. work'[u] = [work[u] EXCEPT !.atRisk = b]
          BY <3>1, <4>2, <5>2
        <5> QED  BY <5>1, <5>2, <5>3 DEF Requests, Staged
      <4> QED  BY <4>1, <4>2
    <3>5. work' \in [Workers -> Requests]
      BY <3>1, <3>4
    <3>6. Typed'
      <4>1. maps' = NoMap /\ behind' = FALSE
        BY <3>1
      <4>2. NoMap \in Maps /\ Len(NoMap.versions) <= MaxVersions /\ FALSE \in BOOLEAN
        BY NoMapFacts, MapStoreConstants DEF MapStoreConstants
      <4>3. Typed
        BY DEF IInv
      <4> QED  BY <1>1, <1>2, <1>4, <2>1, <3>5, <4>1, <4>2, <4>3, Zenon DEF Typed
    <3>7. StagedIsNext' /\ RemovalSpoils' /\ ReadersFindVersion'
      BY <2>1, <3>1, <3>4, NoMapFacts DEF StagedIsNext, RemovalSpoils, ReadersFindVersion
    <3>8. FilesBackEntry' /\ EntryMatchesRows'
      BY <2>1, <3>1, NoMapFacts DEF FilesBackEntry, EntryMatchesRows
    <3> QED  BY <1>3, <2>2, <2>3, <3>6, <3>7, <3>8 DEF IInv
  <2> QED  BY <1>6, <1>8, <2>4, <2>5
<1> QED  BY <1>7, <1>8

(* The directory goes, with the files of every version: all are spoiled.   *)
LEMMA RemoveAllStep ==
    ASSUME IInv, NEW w \in Workers, RemoveAll(w)
    PROVE  IInv'
<1>1. /\ work[w].stage = "removing" /\ work' = [work EXCEPT ![w] = Idle]
      /\ UNCHANGED <<maps, rows, mutex, publication, behind, spoiled>>
  BY DEF RemoveAll, history
<1>2. Removing
  BY <1>1 DEF Removing
<1>3. /\ work' \in [Workers -> Requests]
      /\ \A u \in Workers : work'[u] = IF u = w THEN Idle ELSE work[u]
  BY <1>1, IdleType DEF IInv, Typed
<1>4. events' \in 0..MaxEvents
  BY MapStoreConstants DEF RemoveAll, Event, IInv, Typed, MapStoreConstants
<1>5. files' \in [Numbers -> Contents \cup {Derived, NoFiles}]
  BY DEF RemoveAll, IInv, Typed
<1>6. DOMAIN rows.versions \subseteq spoiled /\ DOMAIN maps.versions \subseteq spoiled
  BY <1>2 DEF IInv, RemovalSpoils
<1>7. Typed'
  BY <1>1, <1>3, <1>4, <1>5 DEF IInv, Typed
<1>8. \A u \in Workers : Staged(u)' => Staged(u) /\ work'[u] = work[u] /\ work[u].atRisk
  BY <1>2, <1>3, IdleType DEF Staged, IInv, RemovalSpoils
<1>9. StagedIsNext'
  BY <1>1, <1>8 DEF IInv, StagedIsNext
<1>10. RemovalSpoils'
  BY <1>1, <1>6, <1>8 DEF RemovalSpoils
<1>11. AheadIsSpoiled' /\ SameVersions' /\ EntryMatchesRows' /\ RequestedIsStored' /\ PublishedAsRequested'
  BY <1>1 DEF IInv, AheadIsSpoiled, SameVersions, EntryMatchesRows, RequestedIsStored, PublishedAsRequested
<1>12. FilesBackVersions' /\ FilesBackEntry'
  BY <1>1, <1>6 DEF FilesBackVersions, FilesBackEntry
<1>13. ReadersFindVersion'
  BY <1>1, <1>3, IdleType DEF IInv, ReadersFindVersion
<1> QED  BY <1>7, <1>9, <1>10, <1>11, <1>12, <1>13 DEF IInv

-----------------------------------------------------------------------------
(* Reading, publishing, starting again                                     *)

LEMMA ReadSteps ==
    ASSUME IInv, NEW w \in Workers, ReadFile(w) \/ \E n \in Numbers : Preview(w, n)
    PROVE  IInv'
<1>1. UNCHANGED <<maps, rows, files, mutex, publication, behind, spoiled, events>>
  BY DEF ReadFile, Preview, history
<1>2. PICK r \in Requests :
         /\ work' = [work EXCEPT ![w] = r] /\ r.stage \in {"idle", "reading"}
         /\ r.stage = "reading" /\ ~r.atRisk =>
              /\ r.ver \in DOMAIN maps.versions \ spoiled
              /\ maps.versions[r.ver] = r.version
  <2>1. CASE ReadFile(w)
    BY <2>1, IdleType DEF ReadFile
  <2>2. ASSUME NEW n \in Numbers, Preview(w, n)
        PROVE  \E r \in Requests :
                 /\ work' = [work EXCEPT ![w] = r] /\ r.stage \in {"idle", "reading"}
                 /\ r.stage = "reading" /\ ~r.atRisk =>
                      /\ r.ver \in DOMAIN maps.versions \ spoiled
                      /\ maps.versions[r.ver] = r.version
    <3>1. maps.versions[n] \in Versions /\ n \in Nat /\ n \in DOMAIN maps.versions
      BY <2>2, MapFacts DEF Preview, IInv, Typed, Numbers
    <3>2. PICK b \in BOOLEAN : b = (Removing \/ n \in spoiled)
      OBVIOUS
    <3>3. PICK r : r = [stage |-> "reading", ver |-> n, version |-> maps.versions[n], atRisk |-> b]
      OBVIOUS
    <3>4. /\ r \in Requests /\ r.stage = "reading" /\ r.ver = n
          /\ r.version = maps.versions[n] /\ (~r.atRisk => n \notin spoiled)
      BY <3>1, <3>2, <3>3 DEF Requests, Stages
    <3>5. work' = [work EXCEPT ![w] = r]
      BY <2>2, <3>2, <3>3 DEF Preview
    <3> QED  BY <3>1, <3>4, <3>5
  <2> QED  BY <2>1, <2>2
<1>3. work[w].stage \in {"idle", "reading"}
  BY IdleType DEF ReadFile, Preview
<1>4. /\ work' \in [Workers -> Requests]
      /\ \A u \in Workers : work'[u] = IF u = w THEN r ELSE work[u]
  BY <1>2 DEF IInv, Typed
<1>5. /\ \A u \in Workers : Staged(u)' <=> Staged(u)
      /\ \A u \in Workers : Staged(u) => work'[u] = work[u]
      /\ Removing' <=> Removing
  BY <1>2, <1>3, <1>4 DEF Staged, Removing
<1>6. Typed'
  BY <1>1, <1>4 DEF IInv, Typed
<1>7. StagedIsNext' /\ RemovalSpoils'
  BY <1>1, <1>5 DEF IInv, StagedIsNext, RemovalSpoils
<1>8. AheadIsSpoiled' /\ SameVersions' /\ EntryMatchesRows' /\ RequestedIsStored' /\ PublishedAsRequested'
  BY <1>1 DEF IInv, AheadIsSpoiled, SameVersions, EntryMatchesRows, RequestedIsStored, PublishedAsRequested
<1>9. FilesBackVersions' /\ FilesBackEntry'
  BY <1>1 DEF IInv, FilesBackVersions, FilesBackEntry
<1>10. ReadersFindVersion'
  BY <1>1, <1>2, <1>4 DEF IInv, ReadersFindVersion
<1> QED  BY <1>6, <1>7, <1>8, <1>9, <1>10 DEF IInv

(* Only the publication changes.                                           *)
LEMMA PublicationOnly ==
    ASSUME IInv, UNCHANGED <<maps, rows, files, mutex, work, behind, spoiled, events>>,
           publication' \in PublicationRows, RequestedIsStored', PublishedAsRequested'
    PROVE  IInv'
<1>1. Typed'
  BY DEF IInv, Typed
<1>2. StagedIsNext' /\ RemovalSpoils' /\ AheadIsSpoiled' /\ SameVersions'
  BY DEF IInv, StagedIsNext, RemovalSpoils, AheadIsSpoiled, SameVersions, Staged, Removing
<1>3. FilesBackVersions' /\ FilesBackEntry' /\ EntryMatchesRows' /\ ReadersFindVersion'
  BY DEF IInv, FilesBackVersions, FilesBackEntry, EntryMatchesRows, ReadersFindVersion
<1> QED  BY <1>1, <1>2, <1>3 DEF IInv

LEMMA RequestStep ==
    ASSUME IInv, NEW n \in Numbers, RequestPublication(n)
    PROVE  IInv'
<1>1. /\ UNCHANGED <<maps, rows, files, mutex, work, behind, spoiled, events>>
      /\ n \in DOMAIN maps.versions
  BY DEF RequestPublication, history
<1>2. PICK a : a = maps.versions[n].content
  OBVIOUS
<1>3. a \in Int
  BY <1>1, <1>2, MapFacts, VersionFacts DEF IInv, Typed
<1>4. /\ publication'.state = "requested" /\ publication'.version = n
      /\ publication'.asked = a /\ publication'.deleted = (n \notin DOMAIN rows.versions)
  BY <1>2 DEF RequestPublication, mapVersionOf, NoPublication
<1>5. publication' \in PublicationRows
  <2>1. PICK b \in BOOLEAN : b = (n \notin DOMAIN rows.versions)
    OBVIOUS
  <2>2. publication' = [state |-> "requested", version |-> n, asked |-> a,
                        sent |-> NoFiles, deleted |-> b]
    BY <1>2, <2>1 DEF RequestPublication, mapVersionOf, NoPublication
  <2>3. n \in Nat /\ NoFiles \in Int
    BY DEF Numbers, NoFiles
  <2> QED  BY <1>3, <2>2, <2>3 DEF PublicationRows
<1>6. RequestedIsStored'
  BY <1>1, <1>2, <1>4 DEF RequestedIsStored, IInv, SameVersions
<1>7. PublishedAsRequested'
  BY <1>4 DEF PublishedAsRequested
<1> QED  BY <1>1, <1>5, <1>6, <1>7, PublicationOnly

LEMMA ApproveStep ==
    ASSUME IInv, ApprovePublication
    PROVE  IInv'
<1>1. /\ UNCHANGED <<maps, rows, files, mutex, work, behind, spoiled, events>>
      /\ publication.state = "requested" /\ publication.version \in DOMAIN maps.versions
  BY DEF ApprovePublication, history
<1>2. PICK a : a = maps.versions[publication.version].content
  OBVIOUS
<1>3. a \in Int /\ publication \in PublicationRows
  BY <1>1, <1>2, MapFacts, VersionFacts DEF IInv, Typed
<1>4. publication' = [publication EXCEPT !.state = "approved", !.sent = a]
  BY <1>2 DEF ApprovePublication, mapVersionOf
<1>5. /\ publication' \in PublicationRows
      /\ publication'.state = "approved" /\ publication'.sent = a
      /\ publication'.asked = publication.asked /\ publication'.deleted = publication.deleted
  BY <1>3, <1>4 DEF PublicationRows
<1>6. ~publication.deleted => a = publication.asked
  BY <1>1, <1>2 DEF IInv, RequestedIsStored, SameVersions
<1>7. RequestedIsStored' /\ PublishedAsRequested'
  BY <1>5, <1>6 DEF RequestedIsStored, PublishedAsRequested
<1> QED  BY <1>1, <1>5, <1>7, PublicationOnly

LEMMA RestartStep ==
    ASSUME IInv, Restart
    PROVE  IInv'
<1>1. /\ maps' = rows /\ mutex' = FALSE /\ work' = [w \in Workers |-> Idle] /\ behind' = FALSE
      /\ UNCHANGED <<rows, files, publication, spoiled>>
  BY DEF Restart
<1>2. events' \in 0..MaxEvents
  BY MapStoreConstants DEF Restart, Event, IInv, Typed, MapStoreConstants
<1>3. work' \in [Workers -> Requests] /\ \A w \in Workers : work'[w].stage = "idle"
  BY <1>1, IdleType
<1>4. Typed'
  <2>1. maps' = rows /\ mutex' \in BOOLEAN /\ behind' \in BOOLEAN /\ Typed
    BY <1>1 DEF IInv
  <2> QED  BY <1>1, <1>2, <1>3, <2>1, Zenon DEF Typed
<1>5. StagedIsNext' /\ RemovalSpoils' /\ ReadersFindVersion'
  BY <1>3 DEF StagedIsNext, RemovalSpoils, ReadersFindVersion, Staged, Removing
<1>6. AheadIsSpoiled' /\ SameVersions' /\ EntryMatchesRows'
  BY <1>1 DEF AheadIsSpoiled, SameVersions, EntryMatchesRows
<1>7. FilesBackVersions' /\ FilesBackEntry'
  BY <1>1 DEF IInv, FilesBackVersions, FilesBackEntry
<1>8. RequestedIsStored' /\ PublishedAsRequested'
  BY <1>1 DEF IInv, RequestedIsStored, PublishedAsRequested
<1> QED  BY <1>4, <1>5, <1>6, <1>7, <1>8 DEF IInv

-----------------------------------------------------------------------------
LEMMA Step == IInv /\ [Next]_vars => IInv'
<1> SUFFICES ASSUME IInv, [Next]_vars PROVE IInv'
  OBVIOUS
<1>1. ASSUME NEW w \in Workers, (\E c \in Contents : Register(w, c)) \/ SaveEdit(w) \/ Convert(w)
      PROVE  IInv'
  <2>1. \A c \in Contents : [content |-> c, raw |-> TRUE] \in Versions
    BY DEF Versions
  <2>2. [content |-> Derived, raw |-> FALSE] \in Versions
    BY DEF Versions
  <2> QED  BY <1>1, <2>1, <2>2, StageStep DEF Register, SaveEdit, Convert, Derive
<1>2. CASE UNCHANGED vars
  BY <1>2, PublicationOnly DEF vars, history, IInv, Typed, RequestedIsStored, PublishedAsRequested
<1> QED  BY <1>1, <1>2, StageFailsStep, CommitStep, DeleteStep, RemoveAllStep, ReadSteps,
            RequestStep, ApproveStep, RestartStep DEF Next

LEMMA Invariance == Spec => []IInv
BY Initially, Step, PTL DEF Spec

(* MapEntry and its rows hold versions of the map, files and requests are  *)
(* as maps.go makes them, and no bound is passed.                          *)
THEOREM StoreTypes == Spec => []TypeOK
<1>1. ASSUME Typed PROVE TypeOK
  <2>1. ASSUME NEW m \in {maps, rows}
        PROVE  /\ m.sha \in Contents \cup {0} /\ Len(m.versions) <= MaxVersions
               /\ \A n \in DOMAIN m.versions : m.versions[n] \in Versions
    <3>1. m \in Maps /\ Len(m.versions) <= MaxVersions
      BY <1>1 DEF Typed
    <3>2. m.sha \in Contents \cup {0} /\ m.versions \in Seq(Versions)
      BY <3>1 DEF Maps
    <3> QED  BY <3>1, <3>2
  <2>2. DOMAIN work = Workers /\ \A w \in Workers : work[w].stage \in Stages
    BY <1>1 DEF Typed, Requests
  <2> QED  BY <1>1, <2>1, <2>2 DEF Typed, TypeOK
<1>2. IInv => Typed
  BY DEF IInv
<1> QED  BY <1>1, <1>2, Invariance, PTL

(* Every version in the table keeps the files that Register or             *)
(* addDerivedLocked stored with it, except one that was committed          *)
(* unanswered or while a deletion had still to remove the directory.       *)
THEOREM FilesStay == Spec => []FilesBackVersions
<1>1. IInv => FilesBackVersions
  BY DEF IInv
<1> QED  BY <1>1, Invariance, PTL

(* The entry in ms.maps is what the table holds, unless a write went       *)
(* unanswered since the process started.                                   *)
THEOREM EntryIsRows == Spec => []EntryMatchesRows
<1>1. IInv => EntryMatchesRows
  BY DEF IInv
<1> QED  BY <1>1, Invariance, PTL

(* Points, which reads the file after it released the mutex, shows the     *)
(* version it found.                                                       *)
THEOREM PreviewsGenuine == Spec => []PreviewsAreGenuine
<1>1. IInv => PreviewsAreGenuine
  BY DEF IInv, ReadersFindVersion, FilesBackEntry, PreviewsAreGenuine
<1> QED  BY <1>1, Invariance, PTL

(* ApproveMapPublication sends the content RequestMapPublication noted,    *)
(* unless the map was deleted.                                             *)
THEOREM SentAsAsked == Spec => []PublishedAsRequested
<1>1. IInv => PublishedAsRequested
  BY DEF IInv
<1> QED  BY <1>1, Invariance, PTL

-----------------------------------------------------------------------------
(* MapPublication                                                          *)

(* The publication whose map the vehicle runs once p is applied.           *)
Goal(p) == IF pubs[p].action = "rollback" THEN pubs[p].target ELSE p

IsAck(i, p, result) == acks[i].pub = p /\ acks[i].result = result

(* The platform has handled that p, a publication, was applied.            *)
WasApplied(p) ==
    /\ pubs[p].action = "apply"
    /\ \E i \in 1..handled : IsAck(i, p, "APPLIED")

(* What the Map Agent has said of a publication depends on how far it is:  *)
(* it accepts first, and says one thing more.                              *)
AgentAnswers ==
    /\ \A p \in Publications : agent[p] # "none" => Enqueued(p)
    /\ \A i \in DOMAIN acks :
          /\ acks[i].result = "ACCEPTED" => agent[acks[i].pub] # "none"
          /\ acks[i].result = "APPLIED" => agent[acks[i].pub] = "applied"
          /\ acks[i].result \in {"REJECTED", "FAILED"} => agent[acks[i].pub] = "failed"
    /\ \A i, j \in DOMAIN acks :
          (i < j /\ acks[i].pub = acks[j].pub) =>
              acks[i].result = "ACCEPTED" /\ acks[j].result # "ACCEPTED"

(* In order, what was ever active is what was handled as applied, and      *)
(* requests and rollbacks refer only to such publications.                 *)
PastIsApplied ==
    \A p \in Publications :
        /\ pubs[p].state \in {"active", "superseded", "rolled_back"} <=> WasApplied(p)
        /\ pubs[p].previous # NoPub =>
              WasApplied(pubs[p].previous) /\ pubs[p].previous # p
        /\ pubs[p].target # NoPub =>
              WasApplied(pubs[p].target) /\ pubs[p].target # pubs[p].previous

(* The last of the first n acknowledgements that says APPLIED.             *)
LastApplied(j, n) ==
    /\ j \in 1..n /\ acks[j].result = "APPLIED"
    /\ \A i \in 1..n : acks[i].result = "APPLIED" => i <= j

(* In order, the active publication is the goal of the last acknowledgement*)
(* that was handled, as the map the vehicle runs is that of the last sent. *)
LastIsActive ==
    \A j \in 1..handled : LastApplied(j, handled) => Active = {Goal(acks[j].pub)}

LastIsInstalled ==
    \/ installed = NoPub
    \/ \E j \in DOMAIN acks : LastApplied(j, Len(acks)) /\ installed = Goal(acks[j].pub)

InOrder == inOrder => AgentAnswers /\ PastIsApplied /\ LastIsActive /\ LastIsInstalled

PubInv == PublicationTypeOK /\ OneActive /\ InOrder

-----------------------------------------------------------------------------
(* One publication between two states of the table.                        *)
Keeps(q) ==
    /\ pubs'[q].action = pubs[q].action
    /\ pubs'[q].previous = pubs[q].previous
    /\ pubs'[q].target = pubs[q].target

(* Changing the state of a row keeps it a row, and its other fields.       *)
LEMMA SetStateRow ==
    ASSUME PublicationTypeOK, NEW q \in Publications, NEW s \in States
    PROVE  /\ SetState(q, s) \in Pubs /\ SetState(q, s).state = s
           /\ SetState(q, s).action = pubs[q].action
           /\ SetState(q, s).previous = pubs[q].previous
           /\ SetState(q, s).target = pubs[q].target
  BY DEF PublicationTypeOK, Pubs, SetState

(* A new publication takes the place of every active one.                  *)
LEMMA AppliedRows ==
    ASSUME PublicationTypeOK, NEW p \in Publications, pubs' = Applied(p)
    PROVE  /\ pubs' \in [Publications -> Pubs]
           /\ \A q \in Publications :
                 /\ Keeps(q)
                 /\ q = p => pubs'[q].state = "active"
                 /\ q # p => pubs'[q].state =
                       IF pubs[q].state = "active" THEN "superseded" ELSE pubs[q].state
  <1>1. ASSUME NEW q \in Publications
        PROVE  pubs'[q] = CASE q = p -> SetState(q, "active")
                            [] q # p /\ pubs[q].state = "active" -> SetState(q, "superseded")
                            [] OTHER -> pubs[q]
    BY DEF Applied
  <1>2. ASSUME NEW q \in Publications
        PROVE  \/ q = p /\ pubs'[q] = SetState(q, "active")
               \/ q # p /\ pubs[q].state = "active" /\ pubs'[q] = SetState(q, "superseded")
               \/ q # p /\ pubs[q].state # "active" /\ pubs'[q] = pubs[q]
    BY <1>1
  <1>3. "active" \in States /\ "superseded" \in States
    BY DEF States
  <1>4. \A q \in Publications : pubs[q] \in Pubs
    BY DEF PublicationTypeOK
  <1>5. DOMAIN pubs' = Publications /\ pubs' = [q \in Publications |-> pubs'[q]]
    BY DEF Applied
  <1> QED BY <1>2, <1>3, <1>4, <1>5, SetStateRow DEF Keeps

(* A rollback leaves no publication active but its target.                 *)
LEMMA RolledBackRows ==
    ASSUME PublicationTypeOK, NEW p \in Publications, pubs' = AppliedRollback(p)
    PROVE  /\ pubs' \in [Publications -> Pubs]
           /\ \A q \in Publications :
                 /\ Keeps(q)
                 /\ pubs'[q].state = "active" => q = pubs[p].target
                 /\ pubs'[q].state \in {pubs[q].state, "confirmed", "rolled_back",
                                        "active", "superseded"}
  <1> DEFINE Arm(q, s) == pubs'[q] = SetState(q, s)
  <1>1. ASSUME NEW q \in Publications
        PROVE  \/ Arm(q, "confirmed") \/ Arm(q, "rolled_back") \/ Arm(q, "superseded")
               \/ Arm(q, "active") /\ q = pubs[p].target
               \/ pubs'[q] = pubs[q] /\ (pubs[q].state = "active" => q = pubs[p].target)
    BY DEF AppliedRollback
  <1>2. {"active", "superseded", "confirmed", "rolled_back"} \subseteq States
    BY DEF States
  <1>4. \A q \in Publications : pubs[q] \in Pubs
    BY DEF PublicationTypeOK
  <1>5. DOMAIN pubs' = Publications /\ pubs' = [q \in Publications |-> pubs'[q]]
    BY DEF AppliedRollback
  <1>6. \A q \in Publications : pubs'[q] \in Pubs /\ Keeps(q)
    BY <1>1, <1>2, <1>4, SetStateRow DEF Keeps
  <1>7. \A q \in Publications :
           /\ pubs'[q].state = "active" => q = pubs[p].target
           /\ pubs'[q].state \in {pubs[q].state, "confirmed", "rolled_back",
                                        "active", "superseded"}
    BY <1>1, <1>2, <1>4, SetStateRow
  <1> QED BY <1>5, <1>6, <1>7

(* The acknowledgements sent name a publication and say one of Results.    *)
LEMMA AckTypes ==
    ASSUME PublicationTypeOK, NEW i \in DOMAIN acks
    PROVE  /\ acks[i].pub \in Publications /\ acks[i].result \in Results
           /\ i \in 1..Len(acks)
  <1>1. ASSUME NEW S, acks \in Seq(S) PROVE acks[i] \in S /\ i \in 1..Len(acks)
    BY <1>1
  <1>2. acks \in Seq([pub : Publications, result : Results])
    BY DEF PublicationTypeOK
  <1>3. acks[i] \in [pub : Publications, result : Results] /\ i \in 1..Len(acks)
    BY <1>1, <1>2
  <1> QED BY <1>3

-----------------------------------------------------------------------------
(* An empty table and a vehicle without a map.                             *)
LEMMA InitPubInv == PublicationInit => PubInv
  <1> SUFFICES ASSUME PublicationInit PROVE PubInv
    OBVIOUS
  <1>1. PublicationTypeOK
    BY PublicationConstants DEF PublicationInit, PublicationTypeOK, Pubs, States, Needs
  <1>2. \A p \in Publications : pubs[p].state = "absent" /\ pubs[p].previous = NoPub
                                /\ pubs[p].target = NoPub /\ agent[p] = "none"
    BY DEF PublicationInit
  <1>3. Len(acks) = 0 /\ handled = 0 /\ installed = NoPub /\ DOMAIN acks = {}
    BY DEF PublicationInit
  <1>4. OneActive
    BY <1>2 DEF OneActive, Active
  <1>5. AgentAnswers /\ LastIsActive /\ LastIsInstalled
    BY <1>2, <1>3 DEF AgentAnswers, LastIsActive, LastIsInstalled
  <1>6. PastIsApplied
    <2>1. 1..handled = {}
      BY <1>3
    <2> QED BY <1>2, <2>1 DEF PastIsApplied, WasApplied
  <1> QED BY <1>1, <1>4, <1>5, <1>6 DEF PubInv, InOrder

(* The steps that change one row, and nothing of the vehicle.              *)
LEMMA TypeStep ==
    PublicationTypeOK /\ [PublicationNext]_publicationVars => PublicationTypeOK'
  <1> SUFFICES ASSUME PublicationTypeOK, [PublicationNext]_publicationVars PROVE PublicationTypeOK'
    OBVIOUS
  <1>r. \A p \in Publications : pubs[p] \in Pubs
    BY DEF PublicationTypeOK
  <1>n. /\ acks \in Seq([pub : Publications, result : Results])
        /\ handled \in 0..Len(acks) /\ Len(acks) \in Nat
    BY DEF PublicationTypeOK
  <1>1. ASSUME NEW p \in Publications, RequestReads(p) PROVE PublicationTypeOK'
    <2>1. PICK q \in Publications \cup {NoPub} :
             pubs' = [pubs EXCEPT ![p] = [state |-> "drafted", action |-> "apply",
                                          previous |-> q, target |-> NoPub]]
      BY <1>1 DEF RequestReads, Active
    <2>2. [state |-> "drafted", action |-> "apply", previous |-> q, target |-> NoPub]
             \in Pubs
      BY DEF Pubs, States
    <2> QED BY <1>1, <2>1, <2>2 DEF RequestReads, vehicle, PublicationTypeOK
  <1>2. ASSUME NEW p \in Publications, NEW source \in Publications,
               RollbackReads(p, source)
        PROVE  PublicationTypeOK'
    <2>1. [state |-> "drafted", action |-> "rollback", previous |-> source,
           target |-> pubs[source].previous] \in Pubs
      BY <1>r DEF Pubs, States
    <2>2. source # NoPub
      BY PublicationConstants
    <2> QED BY <1>2, <2>1, <2>2 DEF RollbackReads, vehicle, PublicationTypeOK
  <1>3. ASSUME NEW p \in Publications, NEW s \in States,
               pubs' = [pubs EXCEPT ![p].state = s], UNCHANGED vehicle
        PROVE  PublicationTypeOK'
    <2>1. pubs' \in [Publications -> Pubs]
      BY <1>3, <1>r DEF PublicationTypeOK, Pubs
    <2>2. \A q \in Publications : Keeps(q)
      BY <1>3, <1>r DEF PublicationTypeOK, Pubs, Keeps
    <2> QED BY <1>3, <2>1, <2>2 DEF vehicle, PublicationTypeOK, Keeps
  <1>4. ASSUME NEW i \in DOMAIN acks, HandleAck(i) PROVE PublicationTypeOK'
    <2> DEFINE p == acks[i].pub
    <2>1. p \in Publications /\ i \in 1..Len(acks)
      BY AckTypes
    <2>2. pubs' \in [Publications -> Pubs] /\ \A q \in Publications : Keeps(q)
      <3>1. ASSUME NEW s \in States, pubs' = [pubs EXCEPT ![p] = SetState(p, s)]
            PROVE  pubs' \in [Publications -> Pubs] /\ \A q \in Publications : Keeps(q)
        BY <2>1, <3>1, SetStateRow DEF PublicationTypeOK, Keeps
      <3>2. "confirmed" \in States /\ "rejected" \in States
        BY DEF States
      <3> QED BY <1>4, <2>1, <3>1, <3>2, AppliedRows, RolledBackRows DEF HandleAck
    <2>3. handled' \in 0..Len(acks)
      BY <1>4, <1>n, <2>1 DEF HandleAck
    <2> QED BY <1>4, <2>2, <2>3 DEF HandleAck, PublicationTypeOK, Keeps
  <1>5. ASSUME NEW p \in Publications, NEW result \in Results, Answer(p, result),
               installed' \in Publications \cup {NoPub},
               agent' \in [Publications -> {"none", "accepted", "applied", "failed"}],
               UNCHANGED <<standing, pubs, handled, inOrder>>
        PROVE  PublicationTypeOK'
    <2>1. [pub |-> p, result |-> result] \in [pub : Publications, result : Results]
      OBVIOUS
    <2>2. acks' \in Seq([pub : Publications, result : Results]) /\ Len(acks') = Len(acks) + 1
      BY <1>5, <1>n, <2>1 DEF Answer
    <2>3. handled' \in 0..Len(acks')
      BY <1>5, <1>n, <2>2
    <2> QED BY <1>5, <2>2, <2>3 DEF PublicationTypeOK
  <1>6. ASSUME NEW p \in Publications, AgentAccepts(p) \/ AgentInstalls(p) \/ AgentRefuses(p)
        PROVE  PublicationTypeOK'
    <2>1. {"ACCEPTED", "APPLIED", "REJECTED", "FAILED"} \subseteq Results
      BY DEF Results
    <2>2. agent' \in [Publications -> {"none", "accepted", "applied", "failed"}]
      BY <1>6 DEF AgentAccepts, AgentInstalls, AgentRefuses, PublicationTypeOK
    <2>3. installed' \in Publications \cup {NoPub}
      BY <1>6, <1>r DEF AgentAccepts, AgentInstalls, AgentRefuses, PublicationTypeOK, Pubs
    <2> QED BY <1>5, <1>6, <2>1, <2>2, <2>3 DEF AgentAccepts, AgentInstalls, AgentRefuses
  <1>7. CASE \E s \in SUBSET Needs : StandingChanges(s)
    BY <1>7 DEF StandingChanges, PublicationTypeOK
  <1>8. CASE UNCHANGED publicationVars
    BY <1>8 DEF publicationVars, PublicationTypeOK
  <1>9. {"requested", "approved", "dispatched"} \subseteq States
    BY DEF States
  <1> QED BY <1>1, <1>2, <1>3, <1>4, <1>6, <1>7, <1>8, <1>9
          DEF PublicationNext, Insert, Approve, MarkDispatched

(* Only an APPLIED makes a publication active, and it leaves no other so.  *)
LEMMA OneActiveStep == PublicationTypeOK /\ OneActive /\ [PublicationNext]_publicationVars => OneActive'
  <1> SUFFICES ASSUME PublicationTypeOK, OneActive, [PublicationNext]_publicationVars PROVE OneActive'
    OBVIOUS
  <1>r. \A p \in Publications : pubs[p] \in Pubs
    BY DEF PublicationTypeOK
  <1>0. ASSUME Active' \subseteq Active PROVE OneActive'
    BY <1>0 DEF OneActive
  <1>1. ASSUME NEW p \in Publications, NEW row, row.state # "active",
               pubs' = [pubs EXCEPT ![p] = row]
        PROVE  OneActive'
    BY <1>0, <1>1 DEF PublicationTypeOK, Active
  <1>2. ASSUME NEW p \in Publications, RequestReads(p) PROVE OneActive'
    BY <1>1, <1>2 DEF RequestReads
  <1>3. ASSUME NEW p \in Publications, NEW source \in Publications,
               RollbackReads(p, source)
        PROVE  OneActive'
    BY <1>1, <1>3 DEF RollbackReads
  <1>4. ASSUME NEW p \in Publications, Insert(p) \/ Approve(p) \/ MarkDispatched(p)
        PROVE  OneActive'
    BY <1>0, <1>4, <1>r DEF Insert, Approve, MarkDispatched, Active, PublicationTypeOK, Pubs
  <1>5. ASSUME NEW i \in DOMAIN acks, HandleAck(i) PROVE OneActive'
    <2> DEFINE p == acks[i].pub
    <2>1. p \in Publications
      BY AckTypes
    <2>2. CASE pubs' = Applied(p)
      BY <2>1, <2>2, AppliedRows DEF OneActive, Active
    <2>3. CASE pubs' = AppliedRollback(p)
      BY <2>1, <2>3, RolledBackRows DEF OneActive, Active
    <2>4. CASE \E s \in {"confirmed", "rejected"} : pubs' = [pubs EXCEPT ![p] = SetState(p, s)]
      <3>1. PICK s \in {"confirmed", "rejected"} : pubs' = [pubs EXCEPT ![p] = SetState(p, s)]
        BY <2>4
      <3>2. SetState(p, s).state # "active"
        BY <2>1, SetStateRow DEF States
      <3> HIDE DEF p
      <3> QED BY <1>1, <2>1, <3>1, <3>2
    <2> QED BY <1>5, <2>2, <2>3, <2>4 DEF HandleAck
  <1>6. CASE UNCHANGED pubs
    BY <1>0, <1>6 DEF Active
  <1> QED BY <1>2, <1>3, <1>4, <1>5, <1>6
          DEF PublicationNext, StandingChanges, AgentAccepts, AgentInstalls, AgentRefuses, publicationVars

-----------------------------------------------------------------------------
(* Publications that are or were active, by their state.                   *)
Past(p) == pubs[p].state \in {"active", "superseded", "rolled_back"}

(* The references of one row are to publications that were applied.        *)
Refers(p) ==
    /\ pubs[p].previous # NoPub => WasApplied(pubs[p].previous) /\ pubs[p].previous # p
    /\ pubs[p].target # NoPub =>
          WasApplied(pubs[p].target) /\ pubs[p].target # pubs[p].previous

(* What was applied has been acknowledged, and so has been enqueued.       *)
LEMMA AppliedIsEnqueued ==
    ASSUME PublicationTypeOK, AgentAnswers, NEW i \in DOMAIN acks
    PROVE  Enqueued(acks[i].pub)
  <1>1. acks[i].pub \in Publications /\ acks[i].result \in Results
    BY AckTypes
  <1>2. agent[acks[i].pub] # "none"
    BY <1>1 DEF AgentAnswers, Results
  <1> QED BY <1>1, <1>2 DEF AgentAnswers

(* A step of the platform that takes no acknowledgement: no publication    *)
(* becomes active or ceases to be, and what is enqueued keeps its fields.  *)
LEMMA RowStep ==
    ASSUME PublicationTypeOK, PublicationTypeOK', InOrder, inOrder,
           UNCHANGED <<agent, installed, acks, handled, inOrder>>,
           \A q \in Publications : Enqueued(q) => Enqueued(q)' /\ Keeps(q),
           \A q \in Publications : Past(q)' <=> Past(q),
           \A q \in Publications : (pubs[q].state = "active") <=> (pubs'[q].state = "active"),
           \A q \in Publications : Keeps(q) \/ Refers(q)'
    PROVE  InOrder'
  <1> USE DEF InOrder
  <1>d. 1..handled \subseteq DOMAIN acks /\ \A i \in DOMAIN acks : acks[i].pub \in Publications
    BY AckTypes DEF PublicationTypeOK
  <1>k. \A i \in DOMAIN acks : Keeps(acks[i].pub)
    BY AppliedIsEnqueued, <1>d
  <1>w. \A q \in Publications : WasApplied(q)' <=> WasApplied(q)
    BY <1>d, <1>k DEF WasApplied, Keeps, IsAck
  <1>1. AgentAnswers'
    BY DEF AgentAnswers
  <1>2. PastIsApplied'
    <2>1. ASSUME NEW q \in Publications, Keeps(q) PROVE Refers(q)'
      <3>1. Refers(q)
        BY DEF PastIsApplied, Refers
      <3>2. pubs[q].previous \in Publications \cup {NoPub}
            /\ pubs[q].target \in Publications \cup {NoPub}
        BY DEF PublicationTypeOK, Pubs
      <3> QED BY <2>1, <3>1, <3>2, <1>w DEF Keeps, Refers
    <2>2. \A q \in Publications : Refers(q)'
      BY <2>1
    <2>3. \A q \in Publications : Past(q)' <=> WasApplied(q)'
      BY <1>w DEF PastIsApplied, Past
    <2> QED BY <2>2, <2>3 DEF PastIsApplied, Refers, Past
  <1>g. \A i \in DOMAIN acks : Goal(acks[i].pub)' = Goal(acks[i].pub)
    BY <1>k DEF Goal, Keeps
  <1>a. Active' = Active
    BY DEF Active
  <1>3. LastIsActive'
    BY <1>a, <1>g, <1>d DEF LastIsActive, LastApplied
  <1>4. LastIsInstalled'
    BY <1>g DEF LastIsInstalled, LastApplied
  <1> QED BY <1>1, <1>2, <1>3, <1>4

(* The Map Agent sends one more acknowledgement.                           *)
LEMMA AgentStep ==
    ASSUME PublicationTypeOK, PublicationTypeOK', InOrder, inOrder, UNCHANGED <<pubs, handled, inOrder>>,
           NEW p \in Publications, NEW result \in Results, Answer(p, result), Enqueued(p),
           agent' = [agent EXCEPT ![p] =
                        CASE result = "ACCEPTED" -> "accepted"
                          [] result = "APPLIED" -> "applied"
                          [] result \in {"REJECTED", "FAILED"} -> "failed"],
           agent[p] \in {"none", "accepted"},
           result \in {"ACCEPTED", "REJECTED"} <=> agent[p] = "none",
           installed' = IF result = "APPLIED" THEN Goal(p) ELSE installed
    PROVE  InOrder'
  <1> USE DEF InOrder
  <1>d. /\ \A i \in DOMAIN acks : acks[i].pub \in Publications /\ acks[i].result \in Results
        /\ DOMAIN acks = 1..Len(acks) /\ Len(acks) \in Nat /\ handled \in 0..Len(acks)
    BY AckTypes DEF PublicationTypeOK
  <1>n. /\ DOMAIN acks' = 1..Len(acks) + 1 /\ Len(acks') = Len(acks) + 1
        /\ \A i \in DOMAIN acks : acks'[i] = acks[i]
        /\ acks'[Len(acks) + 1].pub = p /\ acks'[Len(acks) + 1].result = result
    <2>1. acks \in Seq([pub : Publications, result : Results])
      BY DEF PublicationTypeOK
    <2>2. acks' = Append(acks, [pub |-> p, result |-> result])
      BY DEF Answer
    <2>3. ASSUME NEW e
          PROVE  /\ DOMAIN Append(acks, e) = 1..Len(acks) + 1
                 /\ Len(Append(acks, e)) = Len(acks) + 1
                 /\ \A i \in DOMAIN acks : Append(acks, e)[i] = acks[i]
                 /\ Append(acks, e)[Len(acks) + 1] = e
      BY <2>1
    <2> QED BY <2>2, <2>3
  <1>h. 1..handled \subseteq DOMAIN acks /\ \A i \in 1..handled : acks'[i] = acks[i]
    BY <1>d, <1>n
  <1>w. \A q \in Publications : WasApplied(q)' <=> WasApplied(q)
    BY <1>h DEF WasApplied, IsAck
  <1>a. /\ agent \in [Publications -> {"none", "accepted", "applied", "failed"}]
        /\ \A q \in Publications : q # p => agent'[q] = agent[q]
        /\ agent'[p] = CASE result = "ACCEPTED" -> "accepted"
                          [] result = "APPLIED" -> "applied"
                          [] result \in {"REJECTED", "FAILED"} -> "failed"
    BY DEF PublicationTypeOK
  <1>p. /\ result = "ACCEPTED" => agent'[p] = "accepted"
        /\ result = "APPLIED" => agent'[p] = "applied"
        /\ result \in {"REJECTED", "FAILED"} => agent'[p] = "failed"
    BY <1>a
  <1>e. /\ \A i \in DOMAIN acks : acks[i].pub = p =>
               acks[i].result = "ACCEPTED" /\ agent[p] = "accepted"
    BY <1>d DEF AgentAnswers, Results
  <1>1. AgentAnswers'
    <2>1. \A q \in Publications : agent'[q] # "none" => Enqueued(q)'
      BY <1>a DEF AgentAnswers, Enqueued
    <2>2. ASSUME NEW i \in DOMAIN acks'
          PROVE  /\ acks'[i].result = "ACCEPTED" => agent'[acks'[i].pub] # "none"
                 /\ acks'[i].result = "APPLIED" => agent'[acks'[i].pub] = "applied"
                 /\ acks'[i].result \in {"REJECTED", "FAILED"} => agent'[acks'[i].pub] = "failed"
      <3>1. CASE i = Len(acks) + 1
        BY <3>1, <1>n, <1>p
      <3>2. CASE i # Len(acks) + 1
        <4>1. i \in DOMAIN acks /\ acks'[i] = acks[i]
          BY <3>2, <1>n, <1>d
        <4>2. CASE acks[i].pub = p
          <5>1. acks[i].result = "ACCEPTED" /\ result # "ACCEPTED"
            BY <4>1, <4>2, <1>e
          <5>2. agent'[p] # "none"
            BY <1>p DEF Results
          <5> QED BY <4>1, <4>2, <5>1, <5>2
        <4>3. CASE acks[i].pub # p
          <5>1. agent'[acks[i].pub] = agent[acks[i].pub]
            BY <4>1, <4>3, <1>a, <1>d
          <5> QED BY <4>1, <5>1 DEF AgentAnswers
        <4> QED BY <4>2, <4>3
      <3> QED BY <3>1, <3>2
    <2>3. ASSUME NEW i \in DOMAIN acks', NEW j \in DOMAIN acks', i < j,
                 acks'[i].pub = acks'[j].pub
          PROVE  acks'[i].result = "ACCEPTED" /\ acks'[j].result # "ACCEPTED"
      <3>1. i \in DOMAIN acks /\ acks'[i] = acks[i]
        BY <2>3, <1>n, <1>d
      <3>2. CASE j = Len(acks) + 1
        <4>1. acks[i].pub = p /\ acks'[j].result = result
          BY <2>3, <3>1, <3>2, <1>n
        <4> QED BY <3>1, <4>1, <1>e
      <3>3. CASE j # Len(acks) + 1
        <4>1. j \in DOMAIN acks /\ acks'[j] = acks[j]
          BY <3>3, <1>n, <1>d
        <4> QED BY <2>3, <3>1, <4>1 DEF AgentAnswers
      <3> QED BY <3>2, <3>3
    <2> QED BY <2>1, <2>2, <2>3 DEF AgentAnswers
  <1>2. PastIsApplied'
    <2>1. \A q \in Publications : pubs[q].previous \in Publications \cup {NoPub}
                                  /\ pubs[q].target \in Publications \cup {NoPub}
      BY DEF PublicationTypeOK, Pubs
    <2> QED BY <1>w, <2>1 DEF PastIsApplied
  <1>3. LastIsActive'
    BY <1>h DEF LastIsActive, LastApplied, Active, Goal
  <1>4. LastIsInstalled'
    <2>n. PICK n \in Nat : n = Len(acks) + 1
      BY <1>d
    <2>0. /\ n \in DOMAIN acks' /\ Len(acks') = n
          /\ \A i \in 1..n : i = n \/ i \in DOMAIN acks
          /\ \A i \in DOMAIN acks : i \in 1..n /\ i \in DOMAIN acks'
          /\ acks'[n].pub = p /\ acks'[n].result = result
      BY <2>n, <1>n, <1>d
    <2>1. CASE result = "APPLIED"
      <3>1. LastApplied(n, n)'
        BY <2>1, <2>0 DEF LastApplied
      <3>2. installed' = Goal(acks[n].pub)'
        BY <2>1, <2>0 DEF Goal
      <3> QED BY <3>1, <3>2, <2>0 DEF LastIsInstalled, LastApplied
    <2>2. CASE result # "APPLIED" /\ installed # NoPub
      <3>1. PICK j \in DOMAIN acks : LastApplied(j, Len(acks)) /\ installed = Goal(acks[j].pub)
        BY <2>2 DEF LastIsInstalled
      <3>2. LastApplied(j, n)'
        BY <2>2, <3>1, <2>0, <1>n, <1>d DEF LastApplied
      <3>3. installed' = Goal(acks[j].pub)'
        BY <2>2, <3>1, <1>n DEF Goal
      <3> QED BY <3>2, <3>3, <2>0 DEF LastIsInstalled, LastApplied
    <2>3. CASE result # "APPLIED" /\ installed = NoPub
      BY <2>3 DEF LastIsInstalled
    <2> QED BY <2>1, <2>2, <2>3
  <1> QED BY <1>1, <1>2, <1>3, <1>4

(* The platform handles the next acknowledgement.  No publication that was *)
(* applied is confirmed or rejected later, so that the state of a row says *)
(* whether it was applied, and the target of a rollback can be activated.  *)
LEMMA HandleStep ==
    ASSUME PublicationTypeOK, PublicationTypeOK', InOrder, inOrder, NEW i \in DOMAIN acks, HandleAck(i)
    PROVE  InOrder'
  <1> USE DEF InOrder
  <1>0. PICK p \in Publications : p = acks[i].pub
    BY AckTypes
  <1>d. /\ \A k \in DOMAIN acks : acks[k].pub \in Publications /\ acks[k].result \in Results
        /\ DOMAIN acks = 1..Len(acks) /\ Len(acks) \in Nat /\ handled \in 0..Len(acks)
    BY AckTypes DEF PublicationTypeOK
  <1>h. /\ i = handled + 1 /\ handled' = i /\ inOrder' = inOrder /\ acks' = acks
        /\ agent' = agent /\ installed' = installed
    BY DEF HandleAck
  <1>j. /\ \A k \in 1..i : k = i \/ k \in 1..handled
        /\ 1..handled \subseteq 1..i /\ i \in 1..i /\ 1..i \subseteq DOMAIN acks
        /\ \A k \in 1..handled : k < i /\ k \in DOMAIN acks
    BY <1>d, <1>h
  <1>r. \A q \in Publications : pubs[q] \in Pubs
    BY DEF PublicationTypeOK
  <1>c. "confirmed" \in States /\ "rejected" \in States
    BY DEF States
  <1>k. \A q \in Publications : Keeps(q)
    <2>1. ASSUME NEW s \in States, pubs' = [pubs EXCEPT ![p] = SetState(p, s)]
          PROVE  \A q \in Publications : Keeps(q)
      BY <2>1, SetStateRow DEF PublicationTypeOK, Keeps
    <2> QED BY <1>0, <1>c, <2>1, AppliedRows, RolledBackRows DEF HandleAck
  <1>g. \A q \in Publications : Goal(q)' = Goal(q)
    BY <1>k DEF Goal, Keeps
  <1>q. ASSUME NEW q \in Publications, Enqueued(q) PROVE Enqueued(q)'
    <2>1. ASSUME NEW s \in {"confirmed", "rejected"},
                 pubs' = [pubs EXCEPT ![p] = SetState(p, s)]
          PROVE  Enqueued(q)'
      <3>1. CASE q = p
        <4>1. pubs'[q].state = s
          BY <2>1, <3>1, <1>c, SetStateRow DEF PublicationTypeOK
        <4> QED BY <4>1 DEF Enqueued
      <3>2. CASE q # p
        BY <1>q, <2>1, <3>2 DEF Enqueued, PublicationTypeOK
      <3> QED BY <3>1, <3>2
    <2>2. CASE pubs' = Applied(p)
      BY <1>q, <2>2, AppliedRows DEF Enqueued
    <2>3. CASE pubs' = AppliedRollback(p)
      BY <1>q, <2>3, RolledBackRows DEF Enqueued
    <2> QED BY <1>0, <2>1, <2>2, <2>3 DEF HandleAck
  <1>1. AgentAnswers'
    BY <1>h, <1>q DEF AgentAnswers
  <1>2. CASE acks[i].result # "APPLIED"
    <2>1. PICK s \in {"confirmed", "rejected"} : pubs' = [pubs EXCEPT ![p] = SetState(p, s)]
      BY <1>0, <1>2 DEF HandleAck
    <2>2. ~ WasApplied(p)
      <3>1. ASSUME NEW k \in 1..handled, IsAck(k, p, "APPLIED") PROVE FALSE
        BY <3>1, <1>0, <1>j DEF IsAck, AgentAnswers
      <3> QED BY <3>1 DEF WasApplied
    <2>w. \A q \in Publications : WasApplied(q)' <=> WasApplied(q)
      <3>1. ASSUME NEW q \in Publications
            PROVE  (\E k \in 1..i : IsAck(k, q, "APPLIED")) <=>
                   (\E k \in 1..handled : IsAck(k, q, "APPLIED"))
        BY <1>2, <1>j DEF IsAck
      <3> QED BY <3>1, <1>h, <1>k DEF WasApplied, Keeps, IsAck
    <2>3. /\ ~ Past(p) /\ ~ Past(p)' /\ pubs'[p].state # "active" /\ pubs[p].state # "active"
          /\ \A q \in Publications : q # p => pubs'[q] = pubs[q]
      <3>1. ~ Past(p)
        BY <2>2 DEF PastIsApplied, Past
      <3>2. pubs'[p].state = s
        BY <2>1, <1>c, SetStateRow DEF PublicationTypeOK
      <3> QED BY <2>1, <3>1, <3>2 DEF Past, PublicationTypeOK
    <2>4. PastIsApplied'
      <3>1. \A q \in Publications : Past(q)' <=> WasApplied(q)'
        BY <2>2, <2>3, <2>w DEF PastIsApplied, Past
      <3>2. \A q \in Publications : Refers(q)'
        BY <2>w, <1>k, <1>r DEF PastIsApplied, Refers, Keeps, Pubs
      <3> QED BY <3>1, <3>2 DEF PastIsApplied, Past, Refers
    <2>5. Active' = Active
      BY <2>3 DEF Active
    <2>6. LastIsActive'
      <3>1. ASSUME NEW k \in 1..i, LastApplied(k, i)
            PROVE  k \in 1..handled /\ LastApplied(k, handled)
        BY <3>1, <1>2, <1>j DEF LastApplied
      <3>2. \A k \in 1..i : LastApplied(k, i)' <=> LastApplied(k, i)
        BY <1>h DEF LastApplied
      <3>3. ASSUME NEW k \in 1..i, LastApplied(k, i) PROVE Active' = {Goal(acks[k].pub)'}
        BY <3>1, <3>3, <2>5, <1>g, <1>d, <1>j, <1>h DEF LastIsActive
      <3> QED BY <3>2, <3>3, <1>h DEF LastIsActive, LastApplied
    <2>7. LastIsInstalled'
      BY <1>h, <1>g, <1>d DEF LastIsInstalled, LastApplied
    <2> QED BY <1>1, <2>4, <2>6, <2>7
  <1>3. CASE acks[i].result = "APPLIED"
    <2>1. /\ pubs[p].action = "rollback" => pubs' = AppliedRollback(p)
          /\ pubs[p].action # "rollback" => pubs' = Applied(p)
      BY <1>0, <1>3 DEF HandleAck
    <2>w. \A q \in Publications :
             WasApplied(q)' <=> WasApplied(q) \/ (q = p /\ pubs[p].action = "apply")
      <3>1. ASSUME NEW q \in Publications
            PROVE  (\E k \in 1..i : IsAck(k, q, "APPLIED")) <=>
                   (q = p \/ \E k \in 1..handled : IsAck(k, q, "APPLIED"))
        BY <1>0, <1>3, <1>j DEF IsAck
      <3> QED BY <3>1, <1>h, <1>k DEF WasApplied, Keeps, IsAck
    <2>2. ASSUME Active' = {Goal(p)}, \A q \in Publications : Past(q)' <=> WasApplied(q)'
          PROVE  InOrder'
      <3>1. PastIsApplied'
        <4>1. \A q \in Publications : Refers(q)'
          BY <2>w, <1>k, <1>r DEF PastIsApplied, Refers, Keeps, Pubs
        <4> QED BY <2>2, <4>1 DEF PastIsApplied, Past, Refers
      <3>2. LastIsActive'
        <4>1. ASSUME NEW k \in 1..i, LastApplied(k, i)' PROVE k = i
          <5>1. acks'[i].result = "APPLIED" /\ i <= k
            BY <4>1, <1>3, <1>h, <1>j DEF LastApplied
          <5> QED BY <4>1, <5>1, <1>d
        <4>2. Active' = {Goal(acks[i].pub)'}
          BY <2>2, <1>0, <1>g, <1>h
        <4> QED BY <4>1, <4>2, <1>h DEF LastIsActive, LastApplied
      <3>3. LastIsInstalled'
        BY <1>h, <1>g, <1>d DEF LastIsInstalled, LastApplied
      <3> QED BY <1>1, <3>1, <3>2, <3>3
    <2>3. CASE pubs[p].action # "rollback"
      <3>1. pubs[p].action = "apply" /\ pubs' = Applied(p)
        BY <2>1, <2>3, <1>r DEF Pubs
      <3>2. Active' = {Goal(p)}
        BY <2>3, <3>1, AppliedRows DEF Active, Goal
      <3>3. \A q \in Publications : Past(q)' <=> WasApplied(q)'
        BY <2>w, <3>1, AppliedRows DEF Past, PastIsApplied
      <3> QED BY <2>2, <3>2, <3>3
    <2>4. CASE pubs[p].action = "rollback"
      <3>f. PICK f, t : f = pubs[p].previous /\ t = pubs[p].target
        OBVIOUS
      <3>1. /\ f \in Publications /\ t \in Publications /\ f # t /\ f # p /\ t # p
            /\ Past(t) /\ ~ Past(p)
        <4>1. f # NoPub /\ t # NoPub /\ f \in Publications /\ t \in Publications
          BY <2>4, <3>f, <1>r DEF PublicationTypeOK, Pubs
        <4>2. WasApplied(t) /\ t # f /\ f # p
          BY <4>1, <3>f DEF PastIsApplied
        <4> QED BY <2>4, <4>1, <4>2 DEF PastIsApplied, WasApplied, Past
      <3>2. pubs' = AppliedRollback(p)
        BY <2>1, <2>4
      <3>3. pubs'[p].state = "confirmed"
        <4>1. pubs'[p] = SetState(p, "confirmed")
          BY <3>f, <3>1, <3>2 DEF AppliedRollback
        <4> QED BY <4>1, <1>c, SetStateRow
      <3>4. pubs'[t].state = "active"
        <4>1. CASE pubs[t].state = "active"
          <5>1. pubs'[t] = pubs[t]
            BY <3>f, <3>1, <3>2, <4>1 DEF AppliedRollback
          <5> QED BY <4>1, <5>1
        <4>2. CASE pubs[t].state # "active"
          <5>1. pubs[t].state \in {"superseded", "rolled_back"}
            BY <3>1, <4>2 DEF Past
          <5>2. pubs'[t] = SetState(t, "active")
            BY <3>f, <3>1, <3>2, <5>1 DEF AppliedRollback
          <5>3. "active" \in States
            BY DEF States
          <5> QED BY <3>1, <5>2, <5>3, SetStateRow
        <4> QED BY <4>1, <4>2
      <3>5. ASSUME NEW q \in Publications, q # p, q # t PROVE Past(q)' <=> Past(q)
        <4>1. {"superseded", "rolled_back"} \subseteq States
          BY DEF States
        <4>2. \/ pubs[q].state = "active" /\ pubs'[q] \in {SetState(q, "rolled_back"), SetState(q, "superseded")}
              \/ pubs[q].state # "active" /\ pubs'[q] = pubs[q]
          BY <3>f, <3>1, <3>2, <3>5 DEF AppliedRollback
        <4> QED BY <4>1, <4>2, SetStateRow DEF Past
      <3>6. Active' = {Goal(p)}
        <4>1. \A q \in Publications : pubs'[q].state = "active" => q = t
          BY <3>f, <3>2, RolledBackRows
        <4> QED BY <2>4, <3>f, <3>1, <3>4, <4>1 DEF Active, Goal
      <3>7. \A q \in Publications : Past(q)' <=> WasApplied(q)'
        <4>1. Past(t)' /\ ~ Past(p)'
          BY <3>3, <3>4 DEF Past
        <4> QED BY <2>4, <2>w, <3>1, <3>5, <4>1 DEF PastIsApplied, Past
      <3> QED BY <2>2, <3>6, <3>7
    <2> QED BY <2>3, <2>4
  <1> QED BY <1>2, <1>3

-----------------------------------------------------------------------------
(* Every step keeps the inductive invariant.                               *)
LEMMA StepPubInv ==
    PubInv /\ [PublicationNext]_publicationVars => PubInv'
  <1> SUFFICES ASSUME PubInv, [PublicationNext]_publicationVars PROVE PubInv'
    OBVIOUS
  <1> USE DEF PubInv
  <1>t. PublicationTypeOK' /\ OneActive'
    BY TypeStep, OneActiveStep
  <1>r. \A p \in Publications : pubs[p] \in Pubs
    BY DEF PublicationTypeOK
  <1>o. inOrder' = inOrder
    BY DEF PublicationNext, RequestReads, RollbackReads, Insert, Approve, MarkDispatched, HandleAck,
           AgentAccepts, AgentInstalls, AgentRefuses, StandingChanges, vehicle, publicationVars
  <1> SUFFICES ASSUME inOrder PROVE InOrder'
    BY <1>t, <1>o DEF InOrder
  <1>1. ASSUME NEW p \in Publications, NEW row \in Pubs, UNCHANGED vehicle,
               pubs' = [pubs EXCEPT ![p] = row],
               Enqueued(p) => row.state \in {"approved", "dispatched"} /\ Keeps(p),
               row.state \notin {"active", "superseded", "rolled_back"}, ~ Past(p),
               Keeps(p) \/ Refers(p)'
        PROVE  InOrder'
    <2>1. pubs'[p] = row /\ \A q \in Publications : q # p => pubs'[q] = pubs[q]
      BY <1>1 DEF PublicationTypeOK
    <2>2. \A q \in Publications : Enqueued(q) => Enqueued(q)' /\ Keeps(q)
      BY <1>1, <2>1 DEF Enqueued, Keeps
    <2>3. \A q \in Publications : Past(q)' <=> Past(q)
      BY <1>1, <2>1 DEF Past
    <2>4. \A q \in Publications : (pubs[q].state = "active") <=> (pubs'[q].state = "active")
      BY <1>1, <2>1 DEF Past
    <2>5. \A q \in Publications : Keeps(q) \/ Refers(q)'
      BY <1>1, <2>1 DEF Keeps
    <2> QED BY <1>1, <1>t, <2>2, <2>3, <2>4, <2>5, RowStep DEF vehicle
  <1>w. ASSUME UNCHANGED vehicle, NEW p \in Publications, pubs[p].state = "absent",
               \A q \in Publications : q # p => pubs'[q] = pubs[q],
               NEW q \in Publications, WasApplied(q)
        PROVE  WasApplied(q)' /\ q # p
    BY <1>w DEF WasApplied, vehicle, IsAck, InOrder, PastIsApplied, Past
  <1>a. \A q \in Publications : Past(q) <=> WasApplied(q)
    BY DEF InOrder, PastIsApplied, Past
  <1>2. ASSUME NEW p \in Publications, RequestReads(p) PROVE InOrder'
    <2>1. PICK q \in IF Active = {} THEN {NoPub} ELSE Active :
             pubs' = [pubs EXCEPT ![p] = [state |-> "drafted", action |-> "apply",
                                          previous |-> q, target |-> NoPub]]
      BY <1>2 DEF RequestReads
    <2> DEFINE row == [state |-> "drafted", action |-> "apply", previous |-> q,
                       target |-> NoPub]
    <2>2. row \in Pubs
      BY <2>1 DEF Pubs, States, Active
    <2>3. pubs'[p] = row /\ \A x \in Publications : x # p => pubs'[x] = pubs[x]
      BY <2>1 DEF PublicationTypeOK
    <2>4. Refers(p)'
      <3>1. CASE q = NoPub
        BY <2>3, <3>1 DEF Refers
      <3>2. CASE q # NoPub
        <4>1. q \in Publications /\ WasApplied(q)
          BY <2>1, <3>2, <1>a DEF Active, Past
        <4>2. WasApplied(q)' /\ q # p
          BY <1>2, <1>w, <2>3, <4>1 DEF RequestReads
        <4> QED BY <2>3, <4>2 DEF Refers
      <3> QED BY <3>1, <3>2
    <2>5. ~ Enqueued(p) /\ ~ Past(p) /\ UNCHANGED vehicle
      BY <1>2 DEF RequestReads, Enqueued, Past
    <2>6. row.state = "drafted"
      OBVIOUS
    <2> HIDE DEF row
    <2>7. pubs' = [pubs EXCEPT ![p] = row]
      BY <2>1 DEF row
    <2> QED BY <1>1, <2>2, <2>4, <2>5, <2>6, <2>7
  <1>3. ASSUME NEW p \in Publications, NEW source \in Publications,
               RollbackReads(p, source)
        PROVE  InOrder'
    <2> DEFINE row == [state |-> "drafted", action |-> "rollback", previous |-> source,
                       target |-> pubs[source].previous]
    <2>2. row \in Pubs
      BY <1>r DEF Pubs, States
    <2>3. pubs'[p] = row /\ \A x \in Publications : x # p => pubs'[x] = pubs[x]
      BY <1>3 DEF PublicationTypeOK, RollbackReads
    <2>4. PICK t \in Publications : t = pubs[source].previous
      BY <1>3, <1>r DEF RollbackReads, Pubs
    <2>5. WasApplied(source) /\ WasApplied(t) /\ t # source
      BY <1>3, <1>a, <2>4 DEF RollbackReads, Past, InOrder, PastIsApplied
    <2>6. WasApplied(source)' /\ WasApplied(t)' /\ source # p
      BY <1>3, <1>w, <2>3, <2>5 DEF RollbackReads
    <2>7. Refers(p)'
      BY <2>3, <2>4, <2>5, <2>6 DEF Refers
    <2>8. ~ Enqueued(p) /\ ~ Past(p) /\ UNCHANGED vehicle
      BY <1>3 DEF RollbackReads, Enqueued, Past
    <2>9. row.state = "drafted" /\ pubs' = [pubs EXCEPT ![p] = row]
      BY <1>3 DEF RollbackReads
    <2> HIDE DEF row
    <2> QED BY <1>1, <2>2, <2>7, <2>8, <2>9
  <1>4. ASSUME NEW p \in Publications, Insert(p) \/ Approve(p) \/ MarkDispatched(p)
        PROVE  InOrder'
    <2>1. PICK s \in {"requested", "approved", "dispatched"} :
             /\ pubs' = [pubs EXCEPT ![p].state = s] /\ UNCHANGED vehicle
             /\ pubs[p].state \in {"drafted", "requested", "approved"}
             /\ s = "requested" => pubs[p].state = "drafted"
      BY <1>4 DEF Insert, Approve, MarkDispatched
    <2> DEFINE row == [pubs[p] EXCEPT !.state = s]
    <2>2. row \in Pubs /\ row.state = s
      BY <1>r DEF Pubs, States
    <2>3. pubs' = [pubs EXCEPT ![p] = row] /\ pubs'[p] = row
      BY <2>1 DEF PublicationTypeOK
    <2>4. Keeps(p)
      BY <2>3, <1>r DEF Keeps, Pubs
    <2>5. ~ Past(p) /\ (Enqueued(p) => s \in {"approved", "dispatched"})
      BY <2>1 DEF Past, Enqueued
    <2> HIDE DEF row
    <2> QED BY <1>1, <2>1, <2>2, <2>3, <2>4, <2>5
  <1>5. ASSUME NEW i \in DOMAIN acks, HandleAck(i) PROVE InOrder'
    BY <1>5, <1>t, HandleStep
  <1>6. ASSUME NEW p \in Publications, AgentAccepts(p) \/ AgentInstalls(p) \/ AgentRefuses(p)
        PROVE  InOrder'
    <2>1. {"ACCEPTED", "APPLIED", "REJECTED", "FAILED"} \subseteq Results
      BY DEF Results
    <2>2. CASE AgentAccepts(p)
      BY <1>t, <2>1, <2>2, AgentStep DEF AgentAccepts
    <2>3. CASE AgentInstalls(p)
      <3>1. Enqueued(p) /\ installed' = Goal(p)
        BY <2>3 DEF AgentInstalls, InOrder, AgentAnswers, Goal
      <3> QED BY <1>t, <2>1, <2>3, <3>1, AgentStep DEF AgentInstalls
    <2>4. CASE AgentRefuses(p)
      BY <1>t, <2>1, <2>4, AgentStep DEF AgentRefuses
    <2> QED BY <1>6, <2>2, <2>3, <2>4
  <1>7. ASSUME UNCHANGED <<pubs, agent, installed, acks, handled, inOrder>> PROVE InOrder'
    BY <1>7, <1>t, RowStep DEF Keeps, Enqueued, Past
  <1> QED BY <1>2, <1>3, <1>4, <1>5, <1>6, <1>7 DEF PublicationNext, StandingChanges, publicationVars

LEMMA PubInvariance ==
    PublicationSpec => []PubInv
  BY InitPubInv, StepPubInv, PTL DEF PublicationSpec

(* The table stays well formed, for any number of publications.            *)
THEOREM PublicationTypes == PublicationSpec => []PublicationTypeOK
  <1>1. PubInv => PublicationTypeOK
    BY DEF PubInv
  <1> QED BY PubInvariance, <1>1, PTL

(* HandleMapPublicationAck leaves one publication active at most, however  *)
(* late, repeated or out of order the acknowledgements are.                *)
THEOREM ExclusivelyActive == PublicationSpec => []OneActive
  <1>1. PubInv => OneActive
    BY DEF PubInv
  <1> QED BY PubInvariance, <1>1, PTL

(* With acknowledgements in order, what the platform shows as active is    *)
(* the map the vehicle runs, through any sequence of rollbacks.            *)
THEOREM ShowsInstalled == PublicationSpec => []ActiveIsInstalled
  <1>1. ASSUME PubInv PROVE ActiveIsInstalled
    <2> SUFFICES ASSUME inOrder, handled = Len(acks), installed # NoPub
                 PROVE  Active = {installed}
      BY DEF ActiveIsInstalled
    <2>1. PICK j \in DOMAIN acks : LastApplied(j, Len(acks)) /\ installed = Goal(acks[j].pub)
      BY <1>1 DEF PubInv, InOrder, LastIsInstalled
    <2> QED BY <1>1, <2>1 DEF PubInv, InOrder, LastIsActive, LastApplied
  <1>2. PubInv => ActiveIsInstalled
    BY <1>1
  <1> QED BY PubInvariance, <1>2, PTL

=============================================================================
