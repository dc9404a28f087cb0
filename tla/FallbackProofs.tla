----------------------------- MODULE FallbackProofs -----------------------------
(****************************************************************************)
(* FallbackCommit for any number of writes, submissions, crashes, failing   *)
(* file operations and puts of other clients, and any configuration.        *)
(****************************************************************************)
EXTENDS FallbackCommit, TLAPS

--------------------------------------------------------------------------------
(* Types.                                                                    *)

\* What Get may return: a key without an entry has no version.
Versioned == {v \in VersionedValue : v.exists \/ v = Absent}
Store == [Key -> Versioned]

\* An artifact's entries describe the first writes, and each holds the entry its
\* key had at the version the write expects.
Artifacts ==
    {a \in Artifact :
        /\ Len(a.entries) <= Count
        /\ \A i \in 1 .. Len(a.entries) :
            /\ a.entries[i].key = Writes[i].key
            /\ a.entries[i].target = Writes[i].value
            /\ a.entries[i].previous \in Versioned
            /\ a.entries[i].previous.version = a.entries[i].expected_version}

Preparing == {"prepare", "savePrepared"}
Applying == {"check", "put", "saveApplied"}
Marking == {"markCommitted", "saveCommitted"}
Scanning == {"scanTarget", "scanRest"}
Forwarding == {"saveForward", "forward", "saveForwarded"}
Undoing == {"saveRollingBack", "undoCheck", "undo", "saveUndone", "markRolledBack", "saveRolledBack"}
Quiet == {"finalize", "rename", "done", "down", "failed"}

\* The phases with an artifact both in memory and on disk, and those of them in
\* which the writes are being made.
Onward == Applying \cup Forwarding \cup Marking
Active == Onward \cup Scanning \cup Undoing

TypeInv ==
    /\ config \in Configs
    /\ base \in Store /\ store \in Store /\ origin \in Store
    /\ file \in Artifacts /\ archive \in Artifacts /\ art \in Artifacts
    /\ pc \in Preparing \cup Active \cup Quiet
    /\ recovering \in BOOLEAN /\ rollback \in BOOLEAN
    /\ prefix \in 0 .. Count /\ cursor \in 1 .. Count + 1
    /\ outcome \in {"none", "committed", "aborted"}
    /\ touched \subseteq Key /\ puts \in Nat /\ (puts = 0 => touched = {})
    /\ abandoned \in BOOLEAN

--------------------------------------------------------------------------------
(* Control: where the process is, and what memory and disk hold there.       *)

\* The counts that the next call relies on.  An artifact on disk has all entries.
CountInv ==
    /\ \A a \in {file, archive} : a.phase # "NONE" => Len(a.entries) = Count
    /\ pc \in Active \cup {"savePrepared"} => Len(art.entries) = Count
    /\ pc = "prepare" => Len(art.entries) < Count
    /\ pc \in {"check", "put", "forward"} => art.applied_count < Count
    /\ pc \in Marking => art.applied_count = Count
    /\ pc \in {"undoCheck", "undo"} => art.applied_count > 0
    /\ pc \in {"markRolledBack", "saveRolledBack"} => art.applied_count = 0
    /\ pc = "scanRest" => cursor > prefix

\* The phase of the artifact in memory.
PhaseInv ==
    /\ pc \in Preparing => art.phase = "PREPARED" /\ art.applied_count = 0 /\ ~recovering
    /\ pc \in Applying \cup Scanning => IsOpen(art)
    /\ pc \in {"saveApplied", "forward", "saveForwarded"} => art.phase = "APPLYING"
    /\ pc = "saveForward" =>
        art.phase = IF art.applied_count = Count THEN "COMMITTED" ELSE "APPLYING"
    /\ pc = "saveCommitted" => art.phase = "COMMITTED"
    /\ pc \in Undoing \ {"saveRolledBack"} => art.phase = "ROLLING_BACK"
    /\ pc = "saveRolledBack" => art.phase = "ROLLED_BACK"

\* The artifact on disk: it has the entries of the one in memory, and it is open
\* until its end is recorded.
FileInv ==
    /\ pc \in Active => file.entries = art.entries
    /\ pc \in Active \ Marking => IsOpen(file)
    /\ pc \in Marking => IsOpen(file) \/ file.phase = "COMMITTED"
    /\ pc \in {"check", "put", "forward"} => file.applied_count = art.applied_count
    /\ pc \in Undoing \ {"saveRollingBack"} => file.phase = "ROLLING_BACK"
    /\ pc = "rename" => file.phase \in Terminal

--------------------------------------------------------------------------------
(* The artifact and the store.                                               *)

\* A version at or above the expected one, and at the expected one the entry
\* that was there.
Pinned(s, entries) ==
    \A i \in 1 .. Len(entries) :
        LET e == entries[i]
        IN  /\ s[e.key].version >= e.expected_version
            /\ s[e.key].version = e.expected_version => s[e.key] = e.previous

PinInv ==
    /\ pc \in Preparing \cup Active => Pinned(store, art.entries)
    /\ IsOpen(file) => Pinned(store, file.entries)
    /\ pc = "undo" =>
        \/ MatchesTarget(LastEntry, store[LastEntry.key])
        \/ store[LastEntry.key].version > LastEntry.expected_version + 1

\* The write of e was made, and is there unless one of the clients that put the
\* keys t replaced it.
Made(s, t, e) ==
    \/ MatchesTarget(e, s[e.key])
    \/ e.key \in t /\ s[e.key].version > e.expected_version + 1

MadeInv ==
    /\ pc \in Onward => \A i \in 1 .. art.applied_count : Made(store, touched, art.entries[i])
    /\ pc \in Scanning => \A i \in 1 .. prefix : Made(store, touched, art.entries[i])

\* The write of e was not made, or was taken back.
Unmade(s, t, e) == e.key \in t \/ MatchesPrevious(e, s[e.key])

SameContent(v, w) == v.exists = w.exists /\ v.value = w.value
Reverted(s, t, e) == e.key \in t \/ SameContent(s[e.key], e.previous)

UnmadeInv ==
    /\ pc \in Preparing => \A i \in 1 .. Len(art.entries) : Unmade(store, touched, art.entries[i])
    /\ pc \in Onward =>
        \A i \in 1 .. Count : i > art.applied_count => Unmade(store, touched, art.entries[i])
    /\ pc = "scanRest" =>
        \A i \in 1 .. Count : (i > prefix /\ i < cursor) => Unmade(store, touched, art.entries[i])
    /\ pc \in Undoing =>
        \A i \in 1 .. Count : i > art.applied_count => Reverted(store, touched, art.entries[i])

\* Under an open artifact every write is made or not.
OpenInv ==
    IsOpen(file) =>
        \A i \in 1 .. Count :
            Made(store, touched, file.entries[i]) \/ Reverted(store, touched, file.entries[i])

--------------------------------------------------------------------------------
(* What the properties need.                                                 *)

Complete(a) == \A i \in 1 .. Count : HasTarget(i, a.entries[i].expected_version)

\* The writes of a were resolved after those of c were made.
Newer(a, c) ==
    \A i \in 1 .. Len(a.entries) : a.entries[i].expected_version > c.entries[i].expected_version

\* A committed artifact is complete.
CommittedInv == \A a \in {file, archive} : a.phase = "COMMITTED" => Complete(a)

\* A task that was told it committed has nothing left to recover.
AckInv ==
    outcome = "committed" =>
        /\ \A i \in 1 .. Count : HasTarget(i, Expected(i))
        /\ pc \in Quiet /\ ~IsOpen(file)

\* A submission after the one that is archived was resolved after it.
NewerInv ==
    archive.phase = "COMMITTED" =>
        /\ pc \in Preparing \cup Active => Newer(art, archive)
        /\ IsOpen(file) => Newer(file, archive)

\* The commit expects the versions its writes were resolved against.
BasedInv ==
    (pc \in Preparing \cup Active /\ ~recovering) =>
        \A i \in 1 .. Len(art.entries) : art.entries[i].expected_version = Expected(i)

\* A terminal artifact at the path is the last one there was.
ResolvedInv ==
    /\ ResolvedIsKept
    /\ resolved = NoArtifact \/ resolved.phase \in Terminal
    /\ file.phase \in Terminal => resolved = file

\* The writes that change a value, on keys nobody else has put.
Mine ==
    {i \in 1 .. Count :
        Writes[i].key \notin touched /\ origin[Writes[i].key].value # Writes[i].value}

\* Either none of the task's values was there when the artifact was prepared, or
\* an earlier submission had written all of them.
Fresh(a) == \A i \in Mine : SameContent(a.entries[i].previous, origin[Writes[i].key])
Again(a) == \A i \in Mine : a.entries[i].previous.value = Writes[i].value

AllVisible == \A i \in Mine : store[Writes[i].key].value = Writes[i].value
NoneVisible == \A i \in Mine : SameContent(store[Writes[i].key], origin[Writes[i].key])

VisibleInv ==
    ~abandoned =>
        /\ IsOpen(file) => Fresh(file) \/ Again(file)
        /\ ~IsOpen(file) => AllVisible \/ NoneVisible

IInv ==
    /\ TypeInv /\ CountInv /\ PhaseInv /\ FileInv /\ PinInv /\ MadeInv /\ UnmadeInv
    /\ OpenInv /\ CommittedInv /\ AckInv /\ NewerInv /\ BasedInv /\ ResolvedInv
    /\ VisibleInv /\ ProgressIsHonest
--------------------------------------------------------------------------------
(* The store, the artifacts and the writes.                                  *)

\* There are writes, each to a key and of a value.
LEMMA WritesFacts ==
    /\ Count \in Nat /\ Count > 0 /\ DOMAIN Writes = 1 .. Count
    /\ \A i \in 1 .. Count : Writes[i].key \in Key /\ Writes[i].value \in Value
    /\ \A i, j \in 1 .. Count : Writes[i].key = Writes[j].key => i = j
<1>1. \A i \in DOMAIN Writes : Writes[i] \in WriteOp
  BY WritesAssumption
<1> QED BY <1>1, WritesAssumption DEF Count, WriteOp

\* What Get may return.
LEMMA VersionedFacts ==
    /\ Absent \in Versioned
    /\ \A v \in Value, n \in Nat : Stored(v, n) \in Versioned
    /\ \A v \in Versioned : v.version \in Nat /\ v.value \in Value /\ (v.version > 0 => v.exists)
BY ValueAssumption DEF Versioned, VersionedValue, Absent, Stored

\* Put keeps the store's type.
LEMMA PutType ==
    ASSUME NEW s \in Store, NEW k \in Key, NEW v \in Value
    PROVE  Put(s, k, v) \in Store
BY VersionedFacts DEF Put, Store

\* A PutIfVersion that is refused on a key with a version changes nothing.
LEMMA RefusedPut ==
    ASSUME NEW s \in Store, NEW k \in Key, NEW n, NEW v, s[k].version > 0, ~VersionIs(s, k, n)
    PROVE  PutIfVersion(s, k, n, v) = s
BY DEF PutIfVersion, Store, Versioned, VersionedValue, Absent

\* An empty artifact, and a new one.
LEMMA EmptyArtifacts == NoArtifact \in Artifacts /\ NewArtifact \in Artifacts
<1>1. <<>> \in Seq(Entry) /\ Len(<<>>) = 0
  OBVIOUS
<1>2. NoArtifact \in Artifact /\ NewArtifact \in Artifact
  BY <1>1, WritesFacts DEF NoArtifact, NewArtifact, Artifact, Phase
<1> QED BY <1>1, <1>2, WritesFacts DEF NoArtifact, NewArtifact, Artifacts

\* The parts of an artifact, and of the entries in it.
LEMMA ArtifactFacts ==
    ASSUME NEW a \in Artifacts
    PROVE  /\ a.phase \in Phase \cup {"NONE"} /\ a.applied_count \in 0 .. Count
           /\ a.entries \in Seq(Entry) /\ Len(a.entries) \in 0 .. Count
           /\ \A i \in 1 .. Len(a.entries) :
                /\ a.entries[i] \in Entry
                /\ a.entries[i].key = Writes[i].key /\ a.entries[i].key \in Key
                /\ a.entries[i].target = Writes[i].value /\ a.entries[i].target \in Value
                /\ a.entries[i].expected_version \in Nat
                /\ a.entries[i].previous \in Versioned
                /\ a.entries[i].previous.version = a.entries[i].expected_version
<1>1. a.phase \in Phase \cup {"NONE"} /\ a.applied_count \in 0 .. Count /\ a.entries \in Seq(Entry)
  BY DEF Artifacts, Artifact
<1>2. Len(a.entries) \in 0 .. Count
  BY <1>1, WritesFacts DEF Artifacts
<1>3. ASSUME NEW i \in 1 .. Len(a.entries)
      PROVE  /\ a.entries[i] \in Entry
             /\ a.entries[i].key = Writes[i].key /\ a.entries[i].target = Writes[i].value
             /\ a.entries[i].previous \in Versioned
             /\ a.entries[i].previous.version = a.entries[i].expected_version
  BY <1>1 DEF Artifacts
<1>4. \A e \in Entry : e.key \in Key /\ e.target \in Value /\ e.expected_version \in Nat
  BY DEF Entry
<1> QED BY <1>1, <1>2, <1>3, <1>4

\* Moving the count or the phase of an artifact leaves an artifact with its entries.
LEMMA ArtifactMoves ==
    ASSUME NEW a \in Artifacts, NEW n \in 0 .. Count, NEW p \in Phase
    PROVE  /\ [a EXCEPT !.applied_count = n, !.phase = p] \in Artifacts
           /\ [a EXCEPT !.applied_count = n, !.phase = p].entries = a.entries
           /\ [a EXCEPT !.applied_count = n] \in Artifacts
           /\ [a EXCEPT !.applied_count = n].entries = a.entries
           /\ [a EXCEPT !.phase = p] \in Artifacts
           /\ [a EXCEPT !.phase = p].entries = a.entries
BY DEF Artifacts, Artifact

\* A further entry, for the next write.
LEMMA AppendEntry ==
    ASSUME NEW a \in Artifacts, NEW v \in Versioned, Len(a.entries) < Count,
           Expected(Len(a.entries) + 1) = v.version
    PROVE  LET e == EntryFor(Len(a.entries) + 1, v)
               b == [a EXCEPT !.entries = Append(@, e)]
           IN  /\ b \in Artifacts
               /\ b.phase = a.phase /\ b.applied_count = a.applied_count
               /\ Len(b.entries) = Len(a.entries) + 1
               /\ b.entries[Len(a.entries) + 1] = e
               /\ \A i \in 1 .. Len(a.entries) : b.entries[i] = a.entries[i]
<1> DEFINE n == Len(a.entries)
           e == EntryFor(n + 1, v)
           b == [a EXCEPT !.entries = Append(@, e)]
<1>1. a.entries \in Seq(Entry) /\ n \in 0 .. Count /\ n + 1 \in 1 .. Count
  BY ArtifactFacts, WritesFacts
<1>2. e \in Entry /\ e.key = Writes[n + 1].key /\ e.target = Writes[n + 1].value
        /\ e.previous = v /\ e.expected_version = v.version
  BY <1>1, WritesFacts, VersionedFacts DEF EntryFor, Entry, Versioned
<1>3. a \in Artifact
  BY DEF Artifacts
<1> HIDE DEF e
<1>4. /\ Append(a.entries, e) \in Seq(Entry) /\ Len(Append(a.entries, e)) = n + 1
      /\ Append(a.entries, e)[n + 1] = e
      /\ \A i \in 1 .. n : Append(a.entries, e)[i] = a.entries[i]
  BY <1>1, <1>2
<1>5. b \in Artifact /\ b.entries = Append(a.entries, e)
        /\ b.phase = a.phase /\ b.applied_count = a.applied_count
  BY <1>3, <1>4 DEF Artifact
<1>6. \A i \in 1 .. n + 1 :
        /\ b.entries[i].key = Writes[i].key /\ b.entries[i].target = Writes[i].value
        /\ b.entries[i].previous \in Versioned
        /\ b.entries[i].previous.version = b.entries[i].expected_version
  BY <1>1, <1>2, <1>4, <1>5, ArtifactFacts
<1>7. b \in Artifacts
  <2>1. b \in Artifact /\ Len(b.entries) = n + 1 /\ n + 1 <= Count
    BY <1>1, <1>4, <1>5
  <2> HIDE DEF b
  <2> QED BY <1>6, <2>1 DEF Artifacts
<1> QED BY <1>4, <1>5, <1>7 DEF e

--------------------------------------------------------------------------------
(* The effect of the calls on the store.                                     *)

\* The write of e is made: the entry it was prepared on was still there.
Makes(e) ==
    /\ store[e.key] = e.previous
    /\ store' = [store EXCEPT ![e.key] = Stored(e.target, e.expected_version + 1)]

\* The write of e is taken back.
Reverts(e) ==
    /\ MatchesTarget(e, store[e.key])
    /\ store' = [store EXCEPT ![e.key] =
            IF e.previous.exists THEN Stored(e.previous.value, e.expected_version + 2) ELSE Absent]

\* The entry of the next write is one of the artifact's.
LEMMA NextEntryFacts ==
    ASSUME TypeInv, CountInv, pc \in {"check", "put", "forward"}
    PROVE  /\ art.applied_count + 1 \in 1 .. Count /\ Len(art.entries) = Count
           /\ NextEntry = art.entries[art.applied_count + 1]
           /\ NextEntry.key \in Key /\ NextEntry.target \in Value
           /\ NextEntry.expected_version \in Nat /\ NextEntry.previous \in Versioned
           /\ NextEntry.previous.version = NextEntry.expected_version
<1>1. art.applied_count \in 0 .. Count /\ art.applied_count < Count /\ Len(art.entries) = Count
  BY ArtifactFacts DEF TypeInv, CountInv, Active, Onward, Applying, Forwarding
<1>2. art.applied_count + 1 \in 1 .. Count
  BY <1>1, WritesFacts
<1> QED BY <1>1, <1>2, ArtifactFacts DEF NextEntry, TypeInv

\* The entry of the last write is one of the artifact's.
LEMMA LastEntryFacts ==
    ASSUME TypeInv, CountInv, pc \in {"undoCheck", "undo"}
    PROVE  /\ art.applied_count \in 1 .. Count /\ Len(art.entries) = Count
           /\ LastEntry = art.entries[art.applied_count]
           /\ LastEntry.key \in Key /\ LastEntry.target \in Value
           /\ LastEntry.expected_version \in Nat /\ LastEntry.previous \in Versioned
           /\ LastEntry.previous.version = LastEntry.expected_version
<1>1. art.applied_count \in 0 .. Count /\ art.applied_count > 0 /\ Len(art.entries) = Count
  BY ArtifactFacts DEF TypeInv, CountInv, Active, Undoing
<1>2. art.applied_count \in 1 .. Count
  BY <1>1, WritesFacts
<1> QED BY <1>1, <1>2, ArtifactFacts DEF LastEntry, TypeInv

\* PutIfVersion of the next write makes it, on the entry it was prepared on, or
\* is refused and changes nothing.
LEMMA PutEffect ==
    ASSUME TypeInv, CountInv, PinInv, pc \in {"put", "forward"},
           store' = PutIfVersion(store, NextEntry.key, NextEntry.expected_version, NextEntry.target)
    PROVE  IF VersionIs(store, NextEntry.key, NextEntry.expected_version)
           THEN Makes(NextEntry) ELSE store' = store
<1> DEFINE e == NextEntry
<1>1. /\ art.applied_count + 1 \in 1 .. Len(art.entries) /\ e = art.entries[art.applied_count + 1]
      /\ e.key \in Key /\ e.expected_version \in Nat
  BY NextEntryFacts
<1>2. /\ store[e.key].version >= e.expected_version
      /\ store[e.key].version = e.expected_version => store[e.key] = e.previous
  BY <1>1 DEF PinInv, Pinned, Active, Onward, Applying, Forwarding
<1>3. store \in Store /\ store[e.key].version \in Nat
  BY <1>1, VersionedFacts DEF TypeInv, Store
<1>4. CASE VersionIs(store, e.key, e.expected_version)
  BY <1>2, <1>4 DEF VersionIs, PutIfVersion, Put, Makes
<1>5. CASE ~VersionIs(store, e.key, e.expected_version)
  <2>1. store[e.key].version > 0
    BY <1>1, <1>2, <1>3, <1>5 DEF VersionIs
  <2> QED BY <1>1, <1>3, <1>5, <2>1, RefusedPut
<1> QED BY <1>4, <1>5

\* The call that undoes the last write takes it back, when it is still there, or
\* is refused and changes nothing.
LEMMA UndoEffect ==
    ASSUME TypeInv, CountInv, PinInv, Undo
    PROVE  IF VersionIs(store, LastEntry.key, UndoVersion(LastEntry))
           THEN Reverts(LastEntry) ELSE store' = store
<1> DEFINE e == LastEntry
<1>0. pc = "undo"
  BY DEF Undo
<1>1. /\ art.applied_count \in 1 .. Len(art.entries) /\ e = art.entries[art.applied_count]
      /\ e.key \in Key /\ e.expected_version \in Nat
      /\ e.previous \in Versioned /\ e.previous.version = e.expected_version
  BY <1>0, LastEntryFacts
<1>2. /\ store[e.key].version >= e.expected_version
      /\ \/ MatchesTarget(e, store[e.key])
         \/ store[e.key].version > e.expected_version + 1
  BY <1>0, <1>1 DEF PinInv, Pinned, Active, Undoing
<1>3. store \in Store /\ store[e.key].version \in Nat
  BY <1>1, VersionedFacts DEF TypeInv, Store
<1>4. UndoVersion(e) = e.expected_version + 1
  BY <1>1 DEF UndoVersion
<1>5. CASE VersionIs(store, e.key, UndoVersion(e))
  <2>1. MatchesTarget(e, store[e.key])
    BY <1>1, <1>2, <1>3, <1>4, <1>5 DEF VersionIs
  <2>2. store' = [store EXCEPT ![e.key] =
            IF e.previous.exists THEN Stored(e.previous.value, e.expected_version + 2) ELSE Absent]
    <3>1. store[e.key].version + 1 = e.expected_version + 2
      BY <1>1, <1>3, <1>4, <1>5 DEF VersionIs
    <3> QED BY <1>5, <3>1 DEF Undo, PutIfVersion, Put, DeleteIfVersion
  <2> QED BY <1>5, <2>1, <2>2 DEF Reverts
<1>6. CASE ~VersionIs(store, e.key, UndoVersion(e))
  <2>1. store[e.key].version > 0
    BY <1>1, <1>2, <1>3 DEF MatchesTarget, Stored
  <2>2. PutIfVersion(store, e.key, UndoVersion(e), e.previous.value) = store
    BY <1>1, <1>3, <1>6, <2>1, RefusedPut
  <2>3. DeleteIfVersion(store, e.key, UndoVersion(e)) = store
    BY <1>6 DEF DeleteIfVersion
  <2> QED BY <1>6, <2>2, <2>3 DEF Undo
<1> QED BY <1>5, <1>6

\* Prepare adds the entry of the next write, or refuses and leaves the artifact.
LEMMA PrepareEffect ==
    ASSUME TypeInv, CountInv, Prepare
    PROVE  LET n == Len(art.entries)
               k == Writes[n + 1].key
           IN  /\ n \in 0 .. Count /\ n + 1 \in 1 .. Count /\ k \in Key
               /\ \/ /\ VersionIs(store, k, Expected(n + 1))
                     /\ art' \in Artifacts
                     /\ art'.phase = art.phase /\ art'.applied_count = art.applied_count
                     /\ Len(art'.entries) = n + 1
                     /\ art'.entries[n + 1] = EntryFor(n + 1, store[k])
                     /\ \A i \in 1 .. n : art'.entries[i] = art.entries[i]
                     /\ pc' = IF n + 1 = Count THEN "savePrepared" ELSE "prepare"
                     /\ outcome' = outcome
                  \/ art' = art /\ GiveUp
<1> DEFINE n == Len(art.entries)
           k == Writes[n + 1].key
<1>1. n \in 0 .. Count /\ n < Count /\ n + 1 \in 1 .. Count
  BY ArtifactFacts, WritesFacts DEF Prepare, CountInv, TypeInv
<1>2. k \in Key /\ store[k] \in Versioned
  BY <1>1, WritesFacts DEF TypeInv, Store
<1>3. CASE VersionIs(store, k, Expected(n + 1))
  <2>1. art' = [art EXCEPT !.entries = Append(@, EntryFor(n + 1, store[k]))]
    BY <1>3 DEF Prepare
  <2>2. Expected(n + 1) = store[k].version
    BY <1>3 DEF VersionIs
  <2>3. art \in Artifacts
    BY DEF TypeInv
  <2>4. pc' = IF n + 1 = Count THEN "savePrepared" ELSE "prepare"
    BY <1>3 DEF Prepare, Goto
  <2>5. outcome' = outcome
    BY <1>3 DEF Prepare
  <2> QED BY <1>1, <1>2, <1>3, <2>1, <2>2, <2>3, <2>4, <2>5, AppendEntry
<1>4. CASE ~VersionIs(store, k, Expected(n + 1))
  BY <1>1, <1>2, <1>4 DEF Prepare
<1> QED BY <1>3, <1>4

\* What Makes does to the keys of the writes.
LEMMA MakesKeys ==
    ASSUME TypeInv, Len(art.entries) = Count, NEW j \in 1 .. Count, Makes(art.entries[j])
    PROVE  /\ store'[Writes[j].key] = Stored(art.entries[j].target, art.entries[j].expected_version + 1)
           /\ store'[Writes[j].key].version = art.entries[j].expected_version + 1
           /\ store[Writes[j].key] = art.entries[j].previous
           /\ store[Writes[j].key].version = art.entries[j].expected_version
           /\ \A k \in Key : k # Writes[j].key => store'[k] = store[k]
           /\ \A i \in 1 .. Count : i # j => store'[Writes[i].key] = store[Writes[i].key]
<1> DEFINE e == art.entries[j]
<1>1. /\ e.key = Writes[j].key /\ e.key \in Key /\ store \in Store
      /\ e.previous.version = e.expected_version
  BY ArtifactFacts DEF TypeInv
<1>2. store[e.key] = e.previous /\ store'[e.key] = Stored(e.target, e.expected_version + 1)
  BY <1>1 DEF Makes, Store
<1>3. Stored(e.target, e.expected_version + 1).version = e.expected_version + 1
  BY DEF Stored
<1>4. \A k \in Key : k # e.key => store'[k] = store[k]
  BY <1>1 DEF Makes, Store
<1> QED BY <1>1, <1>2, <1>3, <1>4, WritesFacts

\* What Reverts does to them.
LEMMA RevertsKeys ==
    ASSUME TypeInv, Len(art.entries) = Count, NEW j \in 1 .. Count, Reverts(art.entries[j])
    PROVE  LET e == art.entries[j] IN
           /\ store'[Writes[j].key] =
                IF e.previous.exists THEN Stored(e.previous.value, e.expected_version + 2) ELSE Absent
           /\ e.previous.exists =>
                /\ store'[Writes[j].key].version = e.expected_version + 2
                /\ store'[Writes[j].key].exists /\ store'[Writes[j].key].value = e.previous.value
           /\ ~e.previous.exists => store'[Writes[j].key] = Absent /\ e.previous = Absent
           /\ MatchesTarget(e, store[Writes[j].key])
           /\ store[Writes[j].key].version = e.expected_version + 1
           /\ \A k \in Key : k # Writes[j].key => store'[k] = store[k]
           /\ \A i \in 1 .. Count : i # j => store'[Writes[i].key] = store[Writes[i].key]
<1> DEFINE e == art.entries[j]
           old == Stored(e.previous.value, e.expected_version + 2)
<1>1. e.key = Writes[j].key /\ e.key \in Key /\ store \in Store /\ e.previous \in Versioned
  BY ArtifactFacts DEF TypeInv
<1>2. /\ store'[e.key] = IF e.previous.exists THEN old ELSE Absent
      /\ MatchesTarget(e, store[e.key])
  BY <1>1 DEF Reverts, Store
<1>3. old.version = e.expected_version + 2 /\ old.exists /\ old.value = e.previous.value
  BY DEF Stored
<1>4. store[e.key].version = e.expected_version + 1
  BY <1>2 DEF MatchesTarget, Stored
<1>5. ~e.previous.exists => e.previous = Absent
  BY <1>1 DEF Versioned
<1>6. \A k \in Key : k # e.key => store'[k] = store[k]
  BY <1>1 DEF Reverts, Store
<1> HIDE DEF old
<1> QED BY <1>1, <1>2, <1>3, <1>4, <1>5, <1>6, WritesFacts DEF old

\* A put of another client.
LEMMA ExternalPutKeys ==
    ASSUME TypeInv, NEW k \in Key, NEW v \in PutValues, ExternalPut(k, v)
    PROVE  /\ store'[k] = Stored(v, store[k].version + 1) /\ store[k].version \in Nat
           /\ store'[k].version = store[k].version + 1
           /\ \A j \in Key : j # k => store'[j] = store[j]
           /\ touched' = touched \cup {k}
<1>1. store'[k] = Stored(v, store[k].version + 1) /\ store[k].version \in Nat
  BY VersionedFacts DEF ExternalPut, Put, TypeInv, Store
<1>2. store'[k].version = store[k].version + 1
  BY <1>1 DEF Stored
<1>3. /\ \A j \in Key : j # k => store'[j] = store[j]
      /\ touched' = touched \cup {k}
  BY DEF ExternalPut, Put, TypeInv, Store
<1> QED BY <1>1, <1>2, <1>3

\* The steps that change the store: the two that put, one that undoes, and the
\* puts of others.
LEMMA StoreChanges ==
    ASSUME TypeInv, CountInv, PinInv, [Next]_vars
    PROVE  \/ store' = store /\ touched' = touched
           \/ /\ PutNext \/ Forward
              /\ Makes(art.entries[art.applied_count + 1]) /\ art.applied_count + 1 \in 1 .. Count
              /\ Len(art.entries) = Count /\ pc \in {"put", "forward"}
              /\ art' = [art EXCEPT !.applied_count = @ + 1, !.phase = "APPLYING"]
              /\ pc' = IF pc = "put" THEN "saveApplied" ELSE "saveForwarded"
              /\ touched' = touched
           \/ /\ Undo /\ Reverts(art.entries[art.applied_count]) /\ art.applied_count \in 1 .. Count
              /\ Len(art.entries) = Count /\ pc = "undo"
              /\ art' = [art EXCEPT !.applied_count = @ - 1] /\ pc' = "saveUndone"
              /\ touched' = touched
           \/ \E k \in Key, v \in PutValues : ExternalPut(k, v)
<1> USE DEF frame, memory, history, bounds
<1>1. CASE PutNext
  <2>1. pc = "put" /\ touched' = touched
    BY <1>1 DEF PutNext
  <2>2. CASE VersionIs(store, NextEntry.key, NextEntry.expected_version)
    BY <1>1, <2>1, <2>2, PutEffect, NextEntryFacts DEF PutNext, Goto
  <2>3. CASE ~VersionIs(store, NextEntry.key, NextEntry.expected_version)
    BY <1>1, <2>1, <2>3, PutEffect DEF PutNext
  <2> QED BY <2>2, <2>3
<1>2. CASE Forward
  <2>1. pc = "forward" /\ touched' = touched
    BY <1>2 DEF Forward
  <2>2. CASE VersionIs(store, NextEntry.key, NextEntry.expected_version)
    BY <1>2, <2>1, <2>2, PutEffect, NextEntryFacts DEF Forward, Goto
  <2>3. CASE ~VersionIs(store, NextEntry.key, NextEntry.expected_version)
    BY <1>2, <2>1, <2>3, PutEffect DEF Forward
  <2> QED BY <2>2, <2>3
<1>3. CASE Undo
  <2>1. pc = "undo" /\ touched' = touched
    BY <1>3 DEF Undo
  <2>2. CASE VersionIs(store, LastEntry.key, UndoVersion(LastEntry))
    BY <1>3, <2>1, <2>2, UndoEffect, LastEntryFacts DEF Undo, Goto
  <2>3. CASE ~VersionIs(store, LastEntry.key, UndoVersion(LastEntry))
    BY <1>3, <2>1, <2>3, UndoEffect
  <2> QED BY <2>2, <2>3
<1>4. CASE Prepare \/ Check \/ MarkCommitted
  BY <1>4 DEF Prepare, Check, MarkCommitted
<1>5. CASE SavePrepared \/ SaveApplied \/ SaveForward \/ SaveForwarded \/ SaveRollingBack \/ SaveUndone
  BY <1>5 DEF SavePrepared, SaveApplied, SaveForward, SaveForwarded, SaveRollingBack, SaveUndone,
     Save
<1>6. CASE SaveCommitted \/ SaveRolledBack
  BY <1>6 DEF SaveCommitted, SaveRolledBack
<1>7. CASE ScanTarget \/ ScanRest \/ ScanDone \/ UndoCheck \/ MarkRolledBack
  BY <1>7 DEF ScanTarget, ScanRest, ScanDone, UndoCheck, MarkRolledBack
<1>8. CASE Finalize \/ Rename \/ Crash \/ Restart \/ Resubmit
  BY <1>8 DEF Finalize, Rename, Crash, Restart, Resubmit
<1>9. CASE UNCHANGED vars
  BY <1>9 DEF vars
<1> QED BY <1>1, <1>2, <1>3, <1>4, <1>5, <1>6, <1>7, <1>8, <1>9 DEF Next, CommitStep, RecoveryStep

\* A store in which versions only went up, from an equal entry, pins the same entries.
LEMMA PinnedUp ==
    ASSUME NEW a \in Artifacts, NEW s \in Store, NEW r \in Store, Pinned(s, a.entries),
           \A i \in 1 .. Len(a.entries) :
              r[Writes[i].key] = s[Writes[i].key] \/ r[Writes[i].key].version > s[Writes[i].key].version
    PROVE  Pinned(r, a.entries)
<1> SUFFICES ASSUME NEW i \in 1 .. Len(a.entries)
             PROVE  LET e == a.entries[i] IN
                    /\ r[e.key].version >= e.expected_version
                    /\ r[e.key].version = e.expected_version => r[e.key] = e.previous
  BY DEF Pinned
<1> DEFINE e == a.entries[i]
<1>1. e.key = Writes[i].key /\ e.key \in Key /\ e.expected_version \in Nat
  BY ArtifactFacts
<1>2. s[e.key].version \in Nat /\ r[e.key].version \in Nat
  BY <1>1, VersionedFacts DEF Store
<1>3. s[e.key].version >= e.expected_version
      /\ (s[e.key].version = e.expected_version => s[e.key] = e.previous)
  BY DEF Pinned
<1> QED BY <1>1, <1>2, <1>3

--------------------------------------------------------------------------------
(* What the calls do to the writes that were made, and to the others.        *)

\* A write that was not made, or is undone as far as the recovery can tell, has
\* the content before it in its place.
LEMMA UnmadeReverted ==
    ASSUME TypeInv, NEW a \in Artifacts, NEW i \in 1 .. Len(a.entries),
           Unmade(store, touched, a.entries[i])
    PROVE  Reverted(store, touched, a.entries[i])
<1> DEFINE e == a.entries[i]
<1>1. e.key \in Key /\ e.previous \in Versioned
  BY ArtifactFacts
<1>2. store[e.key] \in Versioned
  BY <1>1 DEF TypeInv, Store
<1>3. ~store[e.key].exists => store[e.key] = Absent
  BY <1>2 DEF Versioned
<1>4. ~e.previous.exists => e.previous = Absent
  BY <1>1 DEF Versioned
<1>5. CASE e.previous.exists
  BY <1>5 DEF Unmade, Reverted, MatchesPrevious, SameContent
<1>6. CASE ~e.previous.exists
  BY <1>3, <1>4, <1>6 DEF Unmade, Reverted, MatchesPrevious, SameContent
<1> QED BY <1>5, <1>6

\* Making one write leaves what is known of the others.
LEMMA MakesOne ==
    ASSUME TypeInv, Len(art.entries) = Count, NEW j \in 1 .. Count, Makes(art.entries[j]),
           touched' = touched
    PROVE  /\ Made(store', touched', art.entries[j])
           /\ \A i \in 1 .. Count : i # j =>
                /\ Made(store', touched', art.entries[i]) = Made(store, touched, art.entries[i])
                /\ Unmade(store', touched', art.entries[i]) = Unmade(store, touched, art.entries[i])
                /\ Reverted(store', touched', art.entries[i]) = Reverted(store, touched, art.entries[i])
<1>1. \A i \in 1 .. Count : art.entries[i].key = Writes[i].key
  BY ArtifactFacts DEF TypeInv
<1>2. \A i \in 1 .. Count : i # j => store'[art.entries[i].key] = store[art.entries[i].key]
  BY <1>1, MakesKeys
<1>3. MatchesTarget(art.entries[j], store'[art.entries[j].key])
  BY <1>1, MakesKeys DEF MatchesTarget
<1> QED BY <1>2, <1>3 DEF Made, Unmade, Reverted

\* Taking one back does too.
LEMMA RevertsOne ==
    ASSUME TypeInv, Len(art.entries) = Count, NEW j \in 1 .. Count, Reverts(art.entries[j]),
           touched' = touched
    PROVE  /\ Reverted(store', touched', art.entries[j])
           /\ \A i \in 1 .. Count : i # j =>
                /\ Made(store', touched', art.entries[i]) = Made(store, touched, art.entries[i])
                /\ Reverted(store', touched', art.entries[i]) = Reverted(store, touched, art.entries[i])
<1>1. \A i \in 1 .. Count : art.entries[i].key = Writes[i].key
  BY ArtifactFacts DEF TypeInv
<1>2. \A i \in 1 .. Count : i # j => store'[art.entries[i].key] = store[art.entries[i].key]
  BY <1>1, RevertsKeys
<1>3. SameContent(store'[art.entries[j].key], art.entries[j].previous)
  <2> DEFINE e == art.entries[j]
  <2>1. CASE e.previous.exists
    BY <1>1, <2>1, RevertsKeys DEF SameContent
  <2>2. CASE ~e.previous.exists
    BY <1>1, <2>2, RevertsKeys DEF SameContent
  <2> QED BY <2>1, <2>2
<1> QED BY <1>2, <1>3 DEF Made, Reverted

\* A put of another client takes nothing away from what is known.
LEMMA ExternalPutKeeps ==
    ASSUME TypeInv, NEW k \in Key, NEW v \in PutValues, ExternalPut(k, v),
           NEW a \in Artifacts, NEW i \in 1 .. Len(a.entries)
    PROVE  LET e == a.entries[i] IN
           /\ Made(store, touched, e) => Made(store', touched', e)
           /\ Unmade(store, touched, e) => Unmade(store', touched', e)
           /\ Reverted(store, touched, e) => Reverted(store', touched', e)
<1> DEFINE e == a.entries[i]
<1>1. e.key \in Key /\ e.expected_version \in Nat
  BY ArtifactFacts
<1>2. CASE e.key = k
  <2>1. e.key \in touched' /\ store'[e.key].version = store[e.key].version + 1
    BY <1>2, ExternalPutKeys
  <2>2. store[e.key].version \in Nat
    BY <1>2, ExternalPutKeys
  <2>3. Made(store, touched, e) => store[e.key].version > e.expected_version
    BY <1>1, <2>2 DEF Made, MatchesTarget, Stored
  <2> QED BY <1>1, <2>1, <2>2, <2>3 DEF Made, Unmade, Reverted
<1>3. CASE e.key # k
  BY <1>1, <1>3, ExternalPutKeys DEF Made, Unmade, Reverted
<1> QED BY <1>2, <1>3

\* A write that was made has its target in the store, or a later version.
LEMMA MadeHasTarget ==
    ASSUME TypeInv, NEW a \in Artifacts, NEW i \in 1 .. Len(a.entries),
           Made(store, touched, a.entries[i])
    PROVE  HasTarget(i, a.entries[i].expected_version)
BY ArtifactFacts DEF Made, HasTarget, MatchesTarget

\* A target in the store is at a version above the expected one.
LEMMA HasTargetVersion ==
    ASSUME TypeInv, NEW i \in 1 .. Count, NEW n \in Nat, HasTarget(i, n)
    PROVE  store[Writes[i].key].version > n /\ store[Writes[i].key].version \in Nat
<1>1. Writes[i].key \in Key /\ store[Writes[i].key].version \in Nat
  BY WritesFacts, VersionedFacts DEF TypeInv, Store
<1> QED BY <1>1 DEF HasTarget, Stored

\* A write with its target in the store keeps it when its key's entry stays or
\* gets a version above that of the target.
LEMMA HasTargetKept ==
    ASSUME TypeInv, NEW i \in 1 .. Count, NEW n \in Nat, HasTarget(i, n),
           \/ store'[Writes[i].key] = store[Writes[i].key]
           \/ store'[Writes[i].key].version > n + 1
    PROVE  HasTarget(i, n)'
BY DEF HasTarget

\* What is complete stays so under a submission that was resolved after it.
LEMMA CompleteKept ==
    ASSUME TypeInv, NEW c \in Artifacts, Complete(c), Len(c.entries) = Count,
           Len(art.entries) = Count, Newer(art, c), NEW j \in 1 .. Count,
           Makes(art.entries[j]) \/ Reverts(art.entries[j])
    PROVE  \A i \in 1 .. Count : HasTarget(i, c.entries[i].expected_version)'
<1> SUFFICES ASSUME NEW i \in 1 .. Count PROVE HasTarget(i, c.entries[i].expected_version)'
  OBVIOUS
<1> DEFINE n == c.entries[i].expected_version
<1>1. n \in Nat /\ HasTarget(i, n)
  BY ArtifactFacts DEF Complete
<1>2. CASE i # j
  BY <1>1, <1>2, MakesKeys, RevertsKeys, HasTargetKept
<1>3. CASE i = j
  <2>1. /\ art.entries[i].expected_version \in Nat /\ art.entries[i].expected_version > n
        /\ art.entries[i].previous.version = art.entries[i].expected_version
    BY ArtifactFacts DEF Newer, TypeInv
  <2>2. CASE Makes(art.entries[j])
    <3>1. store'[Writes[i].key].version = art.entries[i].expected_version + 1
      BY <1>3, <2>2, MakesKeys
    <3> QED BY <1>1, <2>1, <3>1, HasTargetKept
  <2>3. CASE Reverts(art.entries[j])
    <3>1. art.entries[i].previous.exists
      BY <1>1, <1>3, <2>1, <2>3, RevertsKeys DEF Absent
    <3>2. store'[Writes[i].key].version = art.entries[i].expected_version + 2
      BY <1>3, <2>3, <3>1, RevertsKeys
    <3> QED BY <1>1, <2>1, <3>2, HasTargetKept
  <2> QED BY <2>2, <2>3
<1> QED BY <1>2, <1>3

--------------------------------------------------------------------------------
(* Every step keeps each part of the invariant.                              *)

\* Every step keeps the types.
LEMMA TypeStep == IInv /\ [Next]_vars => TypeInv'
<1> SUFFICES ASSUME IInv, [Next]_vars PROVE TypeInv'
  OBVIOUS
<1> USE DEF frame, memory, history, bounds, TypeInv, Preparing, Active, Onward, Applying, Marking,
   Scanning, Forwarding, Undoing, Quiet
<1>0. TypeInv /\ CountInv /\ PhaseInv /\ PinInv
  BY DEF IInv
<1>a. NoArtifact \in Artifacts /\ NewArtifact \in Artifacts
  BY EmptyArtifacts
<1>b. /\ art.applied_count \in 0 .. Count /\ Count \in Nat /\ Len(art.entries) \in 0 .. Count
      /\ 0 \in 0 .. Count /\ 1 \in 1 .. Count + 1
  BY <1>0, ArtifactFacts, WritesFacts
<1>c. ASSUME NEW n \in 0 .. Count, NEW p \in Phase
      PROVE  /\ [art EXCEPT !.applied_count = n, !.phase = p] \in Artifacts
             /\ [art EXCEPT !.applied_count = n] \in Artifacts
             /\ [art EXCEPT !.phase = p] \in Artifacts
  BY <1>0, ArtifactMoves
<1>d. "APPLYING" \in Phase /\ "ROLLING_BACK" \in Phase /\ "COMMITTED" \in Phase /\ "ROLLED_BACK" \in Phase
  BY DEF Phase
<1>e. ASSUME NEW e, Makes(e), e.key \in Key, e.target \in Value, e.expected_version \in Nat
      PROVE  store' \in Store
  BY <1>0, <1>e, VersionedFacts DEF Makes, Store
<1>f. ASSUME NEW e, Reverts(e), e.key \in Key, e.previous \in Versioned, e.expected_version \in Nat
      PROVE  store' \in Store
  <2>1. Stored(e.previous.value, e.expected_version + 2) \in Versioned /\ Absent \in Versioned
    BY <1>f, VersionedFacts
  <2> QED BY <1>0, <1>f, <2>1 DEF Reverts, Store
<1>1. CASE Prepare
  <2>1. pc = "prepare" /\ Len(art.entries) < Count /\ Len(art.entries) + 1 \in 1 .. Count
    BY <1>1, <1>0, <1>b DEF Prepare, CountInv
  <2>2. CASE VersionIs(store, Writes[Len(art.entries) + 1].key, Expected(Len(art.entries) + 1))
    <3>1. store[Writes[Len(art.entries) + 1].key] \in Versioned
      BY <1>0, <2>1, WritesFacts DEF Store
    <3>2. art' \in Artifacts
      BY <1>1, <1>0, <2>1, <2>2, <3>1, AppendEntry DEF Prepare, VersionIs
    <3> QED BY <1>1, <1>0, <2>2, <3>2 DEF Prepare, Goto
  <2>3. CASE ~VersionIs(store, Writes[Len(art.entries) + 1].key, Expected(Len(art.entries) + 1))
    BY <1>1, <1>0, <2>3 DEF Prepare, GiveUp
  <2> QED BY <2>2, <2>3
<1>2. CASE SavePrepared
  BY <1>2, <1>0, <1>a, <1>b DEF SavePrepared, Save, WriteArtifact, FileFails, GiveUp, Goto
<1>3. CASE Check
  BY <1>3, <1>0, <1>a, <1>b DEF Check, StartRollback, Goto
<1>4. CASE PutNext
  <2>1. store' \in Store
    BY <1>4, <1>0, <1>e, PutEffect, NextEntryFacts DEF PutNext
  <2>2. art' \in Artifacts
    <3>1. art.applied_count + 1 \in 0 .. Count
      BY <1>4, <1>0, <1>b DEF PutNext, CountInv
    <3> QED BY <1>4, <1>0, <1>c, <1>d, <3>1 DEF PutNext
  <2> QED BY <1>4, <1>0, <1>b, <2>1, <2>2 DEF PutNext, StartRollback, Goto
<1>5. CASE SaveApplied
  BY <1>5, <1>0, <1>a, <1>b DEF SaveApplied, Save, WriteArtifact, FileFails, GiveUp, Goto
<1>6. CASE MarkCommitted
  <2>1. art' \in Artifacts
    BY <1>6, <1>b, <1>c, <1>d DEF MarkCommitted
  <2> QED BY <1>6, <1>0, <2>1 DEF MarkCommitted, Goto
<1>7. CASE SaveCommitted
  BY <1>7, <1>0, <1>a, <1>b DEF SaveCommitted, WriteArtifact, FileFails, GiveUp, Succeed
<1>8. CASE ScanTarget
  BY <1>8, <1>0, <1>a, <1>b DEF ScanTarget, Goto
<1>9. CASE ScanRest
  BY <1>9, <1>0, <1>a, <1>b DEF ScanRest, GiveUp
<1>10. CASE ScanDone
  <2>1. art' \in Artifacts
    BY <1>10, <1>0, <1>c, <1>d DEF ScanDone
  <2> QED BY <1>10, <1>0, <2>1 DEF ScanDone, Goto
<1>11. CASE SaveForward
  BY <1>11, <1>0, <1>a, <1>b DEF SaveForward, ForwardLabel, Save, WriteArtifact, FileFails,
     GiveUp, Goto
<1>12. CASE Forward
  <2>1. store' \in Store
    BY <1>12, <1>0, <1>e, PutEffect, NextEntryFacts DEF Forward
  <2>2. art' \in Artifacts
    <3>1. art.applied_count + 1 \in 0 .. Count
      BY <1>12, <1>0, <1>b DEF Forward, CountInv
    <3> QED BY <1>12, <1>0, <1>c, <1>d, <3>1 DEF Forward
  <2> QED BY <1>12, <1>0, <2>1, <2>2 DEF Forward, GiveUp, Goto
<1>13. CASE SaveForwarded
  BY <1>13, <1>0, <1>a, <1>b DEF SaveForwarded, ForwardLabel, Save, WriteArtifact, FileFails,
     GiveUp, Goto
<1>14. CASE SaveRollingBack
  BY <1>14, <1>0, <1>a, <1>b DEF SaveRollingBack, UndoLabel, Save, WriteArtifact, FileFails,
     GiveUp, Goto
<1>15. CASE UndoCheck
  <2>1. art' \in Artifacts
    <3>1. art.applied_count - 1 \in 0 .. Count
      BY <1>15, <1>0, <1>b DEF UndoCheck, CountInv
    <3> QED BY <1>15, <1>0, <1>c, <1>d, <3>1 DEF UndoCheck
  <2> QED BY <1>15, <1>0, <2>1 DEF UndoCheck, GiveUp, Goto
<1>16. CASE Undo
  <2>1. store' \in Store
    BY <1>16, <1>0, <1>f, UndoEffect, LastEntryFacts DEF Undo
  <2>2. art' \in Artifacts
    <3>1. art.applied_count - 1 \in 0 .. Count
      BY <1>16, <1>0, <1>b DEF Undo, CountInv
    <3> QED BY <1>16, <1>0, <1>c, <1>d, <3>1 DEF Undo
  <2> QED BY <1>16, <1>0, <2>1, <2>2 DEF Undo, GiveUp, Goto
<1>17. CASE SaveUndone
  BY <1>17, <1>0, <1>a, <1>b DEF SaveUndone, UndoLabel, Save, WriteArtifact, FileFails, GiveUp, Goto
<1>18. CASE MarkRolledBack
  <2>1. art' \in Artifacts
    BY <1>18, <1>b, <1>c, <1>d DEF MarkRolledBack
  <2> QED BY <1>18, <1>0, <2>1 DEF MarkRolledBack, Goto
<1>19. CASE SaveRolledBack
  BY <1>19, <1>0, <1>a, <1>b DEF SaveRolledBack, WriteArtifact, FileFails, GiveUp, Succeed
<1>20. CASE Finalize
  BY <1>20, <1>0, <1>a, <1>b DEF Finalize, FinalizeFails, FileFails, Forget, Goto
<1>21. CASE Rename
  BY <1>21, <1>0, <1>a, <1>b DEF Rename, FinalizeFails, FileFails, Goto
<1>22. CASE Crash
  BY <1>22, <1>0, <1>a, <1>b DEF Crash, Forget
<1>23. CASE Restart
  BY <1>23, <1>0, <1>a, <1>b DEF Restart, RecoverArtifacts, Goto
<1>24. CASE Resubmit
  BY <1>24, <1>0, <1>a, <1>b DEF Resubmit, Goto
<1>25. ASSUME NEW k \in Key, NEW v \in PutValues, ExternalPut(k, v)
      PROVE  TypeInv'
  <2>1. store' \in Store
    BY <1>25, <1>0, PutType, ValueAssumption DEF ExternalPut
  <2>2. touched' \subseteq Key /\ puts' \in Nat /\ puts' # 0
    BY <1>25, <1>0 DEF ExternalPut
  <2> QED BY <1>25, <1>0, <2>1, <2>2 DEF ExternalPut
<1>26. CASE UNCHANGED vars
  BY <1>26, <1>0, <1>a, <1>b DEF vars
<1> QED
  BY <1>1, <1>2, <1>3, <1>4, <1>5, <1>6, <1>7, <1>8, <1>9, <1>10, <1>11, <1>12, <1>13, <1>14,
     <1>15, <1>16, <1>17, <1>18, <1>19, <1>20, <1>21, <1>22, <1>23, <1>24, <1>25, <1>26
  DEF Next, CommitStep, RecoveryStep

\* Every step keeps what is known of the counts.
LEMMA CountStep == IInv /\ [Next]_vars => CountInv'
<1> SUFFICES ASSUME IInv, [Next]_vars PROVE CountInv'
  OBVIOUS
<1> USE DEF frame, memory, history, bounds, CountInv, Preparing, Active, Onward, Applying,
   Marking, Scanning, Forwarding, Undoing, Quiet
<1>0. TypeInv /\ CountInv /\ PhaseInv /\ FileInv
  BY DEF IInv
<1>a. /\ art.applied_count \in 0 .. Count /\ Len(art.entries) \in 0 .. Count
      /\ prefix \in 0 .. Count /\ cursor \in 1 .. Count + 1
      /\ Count \in Nat /\ Count > 0
  BY <1>0, ArtifactFacts, WritesFacts DEF TypeInv
<1>b. /\ NoArtifact.phase = "NONE" /\ NewArtifact.entries = <<>>
  BY DEF NoArtifact, NewArtifact
<1>c. ASSUME NEW n \in 0 .. Count, NEW p \in Phase
      PROVE  /\ [art EXCEPT !.applied_count = n, !.phase = p].entries = art.entries
             /\ [art EXCEPT !.applied_count = n, !.phase = p].applied_count = n
             /\ [art EXCEPT !.applied_count = n].entries = art.entries
             /\ [art EXCEPT !.applied_count = n].applied_count = n
             /\ [art EXCEPT !.phase = p].entries = art.entries
             /\ [art EXCEPT !.phase = p].applied_count = art.applied_count
  BY <1>0 DEF TypeInv, Artifacts, Artifact
<1>d. "APPLYING" \in Phase /\ "ROLLING_BACK" \in Phase /\ "COMMITTED" \in Phase /\ "ROLLED_BACK" \in Phase
  BY DEF Phase
<1>1. CASE Prepare
  BY <1>1, <1>0, <1>a, PrepareEffect DEF Prepare, GiveUp
<1>2. CASE SavePrepared
  <2>1. pc = "savePrepared" /\ art.applied_count = 0
    BY <1>2, <1>0 DEF SavePrepared, Save, PhaseInv
  <2> QED BY <1>2, <1>0, <1>a, <2>1 DEF SavePrepared, Save, WriteArtifact, FileFails, GiveUp, Goto
<1>3. CASE Check
  BY <1>3, <1>0, <1>a, <1>b DEF Check, StartRollback, Goto
<1>4. CASE PutNext
  <2>1. art.applied_count < Count /\ art.applied_count + 1 \in 0 .. Count
    BY <1>4, <1>0, <1>a DEF PutNext
  <2>2. art'.entries = art.entries
    BY <1>4, <1>0 DEF PutNext, TypeInv, Artifacts, Artifact
  <2> QED BY <1>4, <1>0, <1>a, <2>1, <2>2 DEF PutNext, StartRollback, Goto
<1>5. CASE SaveApplied
  BY <1>5, <1>0, <1>a, <1>b DEF SaveApplied, Save, WriteArtifact, FileFails, GiveUp, Goto
<1>6. CASE MarkCommitted
  BY <1>6, <1>0, <1>a, <1>b DEF MarkCommitted, Goto
<1>7. CASE SaveCommitted
  BY <1>7, <1>0, <1>a, <1>b DEF SaveCommitted, WriteArtifact, FileFails, GiveUp, Succeed
<1>8. CASE ScanTarget
  BY <1>8, <1>0, <1>a, <1>b DEF ScanTarget, Goto
<1>9. CASE ScanRest
  BY <1>9, <1>0, <1>a, <1>b DEF ScanRest, GiveUp
<1>10. CASE ScanDone
  BY <1>10, <1>0, <1>a, <1>b DEF ScanDone, Goto
<1>11. CASE SaveForward
  BY <1>11, <1>0, <1>a, <1>b DEF SaveForward, ForwardLabel, Save, WriteArtifact, FileFails,
     GiveUp, Goto
<1>12. CASE Forward
  <2>1. art.applied_count < Count /\ art.applied_count + 1 \in 0 .. Count
    BY <1>12, <1>0, <1>a DEF Forward
  <2>2. art'.entries = art.entries
    BY <1>12, <1>0 DEF Forward, TypeInv, Artifacts, Artifact
  <2> QED BY <1>12, <1>0, <1>a, <2>1, <2>2 DEF Forward, GiveUp, Goto
<1>13. CASE SaveForwarded
  BY <1>13, <1>0, <1>a, <1>b DEF SaveForwarded, ForwardLabel, Save, WriteArtifact, FileFails,
     GiveUp, Goto
<1>14. CASE SaveRollingBack
  BY <1>14, <1>0, <1>a, <1>b DEF SaveRollingBack, UndoLabel, Save, WriteArtifact, FileFails,
     GiveUp, Goto
<1>15. CASE UndoCheck
  <2>1. art.applied_count > 0 /\ art.applied_count - 1 \in 0 .. Count
    BY <1>15, <1>0, <1>a DEF UndoCheck
  <2>2. art'.entries = art.entries /\ (pc' = "undo" => art' = art)
    BY <1>15, <1>c, <1>d, <2>1 DEF UndoCheck, GiveUp, Goto
  <2> QED BY <1>15, <1>0, <1>a, <2>1, <2>2 DEF UndoCheck, GiveUp, Goto
<1>16. CASE Undo
  <2>1. art.applied_count - 1 \in 0 .. Count
    BY <1>16, <1>0, <1>a DEF Undo
  <2>2. art'.entries = art.entries
    BY <1>16, <1>c, <1>d, <2>1 DEF Undo
  <2> QED BY <1>16, <1>0, <1>a, <2>2 DEF Undo, GiveUp, Goto
<1>17. CASE SaveUndone
  BY <1>17, <1>0, <1>a, <1>b DEF SaveUndone, UndoLabel, Save, WriteArtifact, FileFails, GiveUp, Goto
<1>18. CASE MarkRolledBack
  BY <1>18, <1>0, <1>a, <1>b DEF MarkRolledBack, Goto
<1>19. CASE SaveRolledBack
  BY <1>19, <1>0, <1>a, <1>b DEF SaveRolledBack, WriteArtifact, FileFails, GiveUp, Succeed
<1>20. CASE Finalize
  BY <1>20, <1>0, <1>a, <1>b DEF Finalize, FinalizeFails, FileFails, Forget, Goto
<1>21. CASE Rename
  BY <1>21, <1>0, <1>a, <1>b DEF Rename, FinalizeFails, FileFails, Goto
<1>22. CASE Crash
  BY <1>22, <1>0, <1>a, <1>b DEF Crash, Forget
<1>23. CASE Restart
  <2>1. IsOpen(file) => Len(file.entries) = Count
    BY <1>0 DEF IsOpen, Phase
  <2> QED BY <1>23, <1>0, <1>a, <2>1 DEF Restart, RecoverArtifacts, Goto
<1>24. CASE Resubmit
  BY <1>24, <1>0, <1>a, <1>b DEF Resubmit, Goto
<1>25. ASSUME NEW k \in Key, NEW v \in PutValues, ExternalPut(k, v)
      PROVE  CountInv'
  BY <1>25, <1>0, <1>a, <1>b DEF ExternalPut
<1>26. CASE UNCHANGED vars
  BY <1>26, <1>0, <1>a, <1>b DEF vars
<1> QED
  BY <1>1, <1>2, <1>3, <1>4, <1>5, <1>6, <1>7, <1>8, <1>9, <1>10, <1>11, <1>12, <1>13, <1>14,
     <1>15, <1>16, <1>17, <1>18, <1>19, <1>20, <1>21, <1>22, <1>23, <1>24, <1>25, <1>26
  DEF Next, CommitStep, RecoveryStep

\* Every step keeps what is known of the phase in memory.
LEMMA PhaseStep == IInv /\ [Next]_vars => PhaseInv'
<1> SUFFICES ASSUME IInv, [Next]_vars PROVE PhaseInv'
  OBVIOUS
<1> USE DEF frame, memory, history, bounds, PhaseInv, IsOpen, Phase, Terminal, Preparing, Active,
   Onward, Applying, Marking, Scanning, Forwarding, Undoing
<1>0. TypeInv /\ CountInv /\ PhaseInv
  BY DEF IInv
<1>a. art \in [phase : Phase \cup {"NONE"}, applied_count : 0 .. Count, entries : Seq(Entry)]
  BY <1>0 DEF TypeInv, Artifacts, Artifact
<1>b. Count \in Nat /\ prefix \in 0 .. Count
  BY <1>0, WritesFacts DEF TypeInv
<1>1. CASE Prepare
  BY <1>1, <1>0, <1>a, <1>b DEF Prepare, Goto, GiveUp
<1>2. CASE SavePrepared
  BY <1>2, <1>0, <1>a, <1>b DEF SavePrepared, Save, WriteArtifact, FileFails, GiveUp, Goto
<1>3. CASE Check
  BY <1>3, <1>0, <1>a, <1>b DEF Check, StartRollback, Goto
<1>4. CASE PutNext
  BY <1>4, <1>0, <1>a, <1>b DEF PutNext, StartRollback, Goto
<1>5. CASE SaveApplied
  BY <1>5, <1>0, <1>a, <1>b DEF SaveApplied, Save, WriteArtifact, FileFails, GiveUp, Goto
<1>6. CASE MarkCommitted
  BY <1>6, <1>0, <1>a, <1>b DEF MarkCommitted, Goto
<1>7. CASE SaveCommitted
  BY <1>7, <1>0, <1>a, <1>b DEF SaveCommitted, WriteArtifact, FileFails, GiveUp, Succeed
<1>8. CASE ScanTarget
  BY <1>8, <1>0, <1>a, <1>b DEF ScanTarget, Goto
<1>9. CASE ScanRest
  BY <1>9, <1>0, <1>a, <1>b DEF ScanRest, GiveUp
<1>10. CASE ScanDone
  BY <1>10, <1>0, <1>a, <1>b DEF ScanDone, Goto
<1>11. CASE SaveForward
  BY <1>11, <1>0, <1>a, <1>b DEF SaveForward, ForwardLabel, Save, WriteArtifact, FileFails,
     GiveUp, Goto
<1>12. CASE Forward
  BY <1>12, <1>0, <1>a, <1>b DEF Forward, GiveUp, Goto
<1>13. CASE SaveForwarded
  BY <1>13, <1>0, <1>a, <1>b DEF SaveForwarded, ForwardLabel, Save, WriteArtifact, FileFails,
     GiveUp, Goto
<1>14. CASE SaveRollingBack
  BY <1>14, <1>0, <1>a, <1>b DEF SaveRollingBack, UndoLabel, Save, WriteArtifact, FileFails,
     GiveUp, Goto
<1>15. CASE UndoCheck
  BY <1>15, <1>0, <1>a, <1>b DEF UndoCheck, GiveUp, Goto
<1>16. CASE Undo
  BY <1>16, <1>0, <1>a, <1>b DEF Undo, GiveUp, Goto
<1>17. CASE SaveUndone
  BY <1>17, <1>0, <1>a, <1>b DEF SaveUndone, UndoLabel, Save, WriteArtifact, FileFails, GiveUp, Goto
<1>18. CASE MarkRolledBack
  BY <1>18, <1>0, <1>a, <1>b DEF MarkRolledBack, Goto
<1>19. CASE SaveRolledBack
  BY <1>19, <1>0, <1>a, <1>b DEF SaveRolledBack, WriteArtifact, FileFails, GiveUp, Succeed
<1>20. CASE Finalize
  BY <1>20, <1>0, <1>a, <1>b DEF Finalize, FinalizeFails, FileFails, Forget, Goto
<1>21. CASE Rename
  BY <1>21, <1>0, <1>a, <1>b DEF Rename, FinalizeFails, FileFails, Goto
<1>22. CASE Crash
  BY <1>22, <1>0, <1>a, <1>b DEF Crash, Forget
<1>23. CASE Restart
  BY <1>23, <1>0, <1>a, <1>b DEF Restart, RecoverArtifacts, Goto
<1>24. CASE Resubmit
  BY <1>24, <1>0, <1>a, <1>b DEF Resubmit, Goto, NewArtifact
<1>25. ASSUME NEW k \in Key, NEW v \in PutValues, ExternalPut(k, v)
      PROVE  PhaseInv'
  BY <1>25, <1>0, <1>a, <1>b DEF ExternalPut
<1>26. CASE UNCHANGED vars
  BY <1>26, <1>0, <1>a, <1>b DEF vars
<1> QED
  BY <1>1, <1>2, <1>3, <1>4, <1>5, <1>6, <1>7, <1>8, <1>9, <1>10, <1>11, <1>12, <1>13, <1>14,
     <1>15, <1>16, <1>17, <1>18, <1>19, <1>20, <1>21, <1>22, <1>23, <1>24, <1>25, <1>26
  DEF Next, CommitStep, RecoveryStep

\* Every step keeps what is known of the artifact on disk.
LEMMA FileStep == IInv /\ [Next]_vars => FileInv'
<1> SUFFICES ASSUME IInv, [Next]_vars PROVE FileInv'
  OBVIOUS
<1> USE DEF frame, memory, history, bounds, FileInv, IsOpen, Phase, Terminal, Preparing, Active,
   Onward, Applying, Marking, Scanning, Forwarding, Undoing
<1>0. TypeInv /\ CountInv /\ PhaseInv /\ FileInv
  BY DEF IInv
<1>a. art \in [phase : Phase \cup {"NONE"}, applied_count : 0 .. Count, entries : Seq(Entry)]
  BY <1>0 DEF TypeInv, Artifacts, Artifact
<1>b. Count \in Nat /\ prefix \in 0 .. Count
  BY <1>0, WritesFacts DEF TypeInv
<1>1. CASE Prepare
  BY <1>1, <1>0, <1>a, <1>b DEF Prepare, Goto, GiveUp, PhaseInv
<1>2. CASE SavePrepared
  BY <1>2, <1>0, <1>a, <1>b DEF SavePrepared, Save, WriteArtifact, FileFails, GiveUp, Goto, PhaseInv
<1>3. CASE Check
  BY <1>3, <1>0, <1>a, <1>b DEF Check, StartRollback, Goto, PhaseInv
<1>4. CASE PutNext
  BY <1>4, <1>0, <1>a, <1>b DEF PutNext, StartRollback, Goto, PhaseInv
<1>5. CASE SaveApplied
  BY <1>5, <1>0, <1>a, <1>b DEF SaveApplied, Save, WriteArtifact, FileFails, GiveUp, Goto, PhaseInv
<1>6. CASE MarkCommitted
  BY <1>6, <1>0, <1>a, <1>b DEF MarkCommitted, Goto, PhaseInv
<1>7. CASE SaveCommitted
  BY <1>7, <1>0, <1>a, <1>b DEF SaveCommitted, WriteArtifact, FileFails, GiveUp, Succeed, PhaseInv
<1>8. CASE ScanTarget
  BY <1>8, <1>0, <1>a, <1>b DEF ScanTarget, Goto, PhaseInv
<1>9. CASE ScanRest
  BY <1>9, <1>0, <1>a, <1>b DEF ScanRest, GiveUp, PhaseInv
<1>10. CASE ScanDone
  BY <1>10, <1>0, <1>a, <1>b DEF ScanDone, Goto, PhaseInv
<1>11. CASE SaveForward
  BY <1>11, <1>0, <1>a, <1>b DEF SaveForward, ForwardLabel, Save, WriteArtifact, FileFails,
     GiveUp, Goto, PhaseInv
<1>12. CASE Forward
  BY <1>12, <1>0, <1>a, <1>b DEF Forward, GiveUp, Goto, PhaseInv
<1>13. CASE SaveForwarded
  BY <1>13, <1>0, <1>a, <1>b DEF SaveForwarded, ForwardLabel, Save, WriteArtifact, FileFails,
     GiveUp, Goto, PhaseInv
<1>14. CASE SaveRollingBack
  BY <1>14, <1>0, <1>a, <1>b DEF SaveRollingBack, UndoLabel, Save, WriteArtifact, FileFails,
     GiveUp, Goto, PhaseInv
<1>15. CASE UndoCheck
  BY <1>15, <1>0, <1>a, <1>b DEF UndoCheck, GiveUp, Goto, PhaseInv
<1>16. CASE Undo
  BY <1>16, <1>0, <1>a, <1>b DEF Undo, GiveUp, Goto, PhaseInv
<1>17. CASE SaveUndone
  BY <1>17, <1>0, <1>a, <1>b DEF SaveUndone, UndoLabel, Save, WriteArtifact, FileFails, GiveUp,
     Goto, PhaseInv
<1>18. CASE MarkRolledBack
  BY <1>18, <1>0, <1>a, <1>b DEF MarkRolledBack, Goto, PhaseInv
<1>19. CASE SaveRolledBack
  BY <1>19, <1>0, <1>a, <1>b DEF SaveRolledBack, WriteArtifact, FileFails, GiveUp, Succeed, PhaseInv
<1>20. CASE Finalize
  BY <1>20, <1>0, <1>a, <1>b DEF Finalize, FinalizeFails, FileFails, Forget, Goto, PhaseInv
<1>21. CASE Rename
  BY <1>21, <1>0, <1>a, <1>b DEF Rename, FinalizeFails, FileFails, Goto, PhaseInv
<1>22. CASE Crash
  BY <1>22, <1>0, <1>a, <1>b DEF Crash, Forget, PhaseInv
<1>23. CASE Restart
  BY <1>23, <1>0, <1>a, <1>b DEF Restart, RecoverArtifacts, Goto, PhaseInv
<1>24. CASE Resubmit
  BY <1>24, <1>0, <1>a, <1>b DEF Resubmit, Goto, PhaseInv
<1>25. ASSUME NEW k \in Key, NEW v \in PutValues, ExternalPut(k, v)
      PROVE  FileInv'
  BY <1>25, <1>0, <1>a, <1>b DEF ExternalPut, PhaseInv
<1>26. CASE UNCHANGED vars
  BY <1>26, <1>0, <1>a, <1>b DEF vars, PhaseInv
<1> QED
  BY <1>1, <1>2, <1>3, <1>4, <1>5, <1>6, <1>7, <1>8, <1>9, <1>10, <1>11, <1>12, <1>13, <1>14,
     <1>15, <1>16, <1>17, <1>18, <1>19, <1>20, <1>21, <1>22, <1>23, <1>24, <1>25, <1>26
  DEF Next, CommitStep, RecoveryStep

\* Every step keeps what is known of the versions.
LEMMA PinStep == IInv /\ [Next]_vars => PinInv'
<1> SUFFICES ASSUME IInv, [Next]_vars PROVE PinInv'
  OBVIOUS
<1> USE DEF frame, memory, history, bounds, PinInv
<1>0. TypeInv /\ CountInv /\ PhaseInv /\ FileInv /\ PinInv
  BY DEF IInv
<1>1a. TypeInv'
  BY TypeStep
<1>2a. store \in Store /\ store' \in Store /\ art \in Artifacts /\ file \in Artifacts
  BY <1>0, <1>1a DEF TypeInv
<1>3a. art \in [phase : Phase \cup {"NONE"}, applied_count : 0 .. Count, entries : Seq(Entry)]
  BY <1>0 DEF TypeInv, Artifacts, Artifact
<1>4a. ASSUME NEW a \in Artifacts, NEW i \in 1 .. Len(a.entries)
       PROVE  /\ a.entries[i].key = Writes[i].key /\ i \in 1 .. Count
              /\ a.entries[i].expected_version \in Nat /\ Len(a.entries) <= Count
  BY ArtifactFacts, WritesFacts
<1>m. ASSUME PutNext \/ Forward, Makes(art.entries[art.applied_count + 1]),
             art.applied_count + 1 \in 1 .. Count, Len(art.entries) = Count,
             pc \in {"put", "forward"}, pc' = IF pc = "put" THEN "saveApplied" ELSE "saveForwarded",
             art' = [art EXCEPT !.applied_count = @ + 1, !.phase = "APPLYING"], touched' = touched
      PROVE  PinInv'
  <2>1. \A i \in 1 .. Count :
            \/ store'[Writes[i].key] = store[Writes[i].key]
            \/ store'[Writes[i].key].version > store[Writes[i].key].version
    <3> DEFINE j == art.applied_count + 1
    <3>1. /\ store'[Writes[j].key].version = art.entries[j].expected_version + 1
          /\ store[Writes[j].key].version = art.entries[j].expected_version
          /\ \A i \in 1 .. Count : i # j => store'[Writes[i].key] = store[Writes[i].key]
      BY <1>0, <1>m, MakesKeys
    <3>2. art.entries[j].expected_version \in Nat
      BY <1>2a, <1>m, ArtifactFacts
    <3> QED BY <3>1, <3>2
  <2>2. Pinned(store', art.entries)
    <3>1. Pinned(store, art.entries)
      BY <1>0, <1>m DEF Preparing, Active, Onward, Applying, Marking, Scanning, Forwarding, Undoing
    <3> QED BY <1>2a, <1>m, <2>1, <3>1, PinnedUp
  <2>3. art'.entries = art.entries /\ file' = file /\ file.entries = art.entries
    BY <1>0, <1>3a, <1>m DEF PutNext, Forward, FileInv, Preparing, Active, Onward, Applying,
       Marking, Scanning, Forwarding, Undoing
  <2> QED BY <1>m, <2>2, <2>3 DEF Preparing, Active, Onward, Applying, Marking, Scanning,
     Forwarding, Undoing
<1>r. ASSUME Undo, Reverts(art.entries[art.applied_count]), art.applied_count \in 1 .. Count,
             Len(art.entries) = Count, pc = "undo", pc' = "saveUndone",
             art' = [art EXCEPT !.applied_count = @ - 1], touched' = touched
      PROVE  PinInv'
  <2> DEFINE j == art.applied_count
             e == art.entries[j]
  <2>1. /\ e.previous \in Versioned /\ e.previous.version = e.expected_version
        /\ e.expected_version \in Nat
    BY <1>0, <1>r, ArtifactFacts DEF TypeInv
  <2>2. ASSUME NEW i \in 1 .. Len(art.entries)
        PROVE  LET d == art.entries[i] IN
               /\ store'[d.key].version >= d.expected_version
               /\ store'[d.key].version = d.expected_version => store'[d.key] = d.previous
    <3>1. CASE i = j
      <4>0. e.key = Writes[j].key
        BY <1>2a, <1>4a, <1>r
      <4>1. e.previous.exists => store'[e.key].version = e.expected_version + 2
        BY <1>0, <1>r, <4>0, RevertsKeys
      <4>2. ~e.previous.exists => store'[e.key] = Absent /\ e.previous = Absent
        BY <1>0, <1>r, <4>0, RevertsKeys
      <4> QED BY <2>1, <3>1, <4>1, <4>2 DEF Absent
    <3>2. CASE i # j
      <4>1. art.entries[i].key = Writes[i].key /\ i \in 1 .. Count
        BY <1>2a, <1>4a
      <4>2. store'[Writes[i].key] = store[Writes[i].key]
        BY <1>0, <1>r, <3>2, <4>1, RevertsKeys
      <4>3. Pinned(store, art.entries)
        BY <1>0, <1>r DEF Preparing, Active, Onward, Applying, Marking, Scanning, Forwarding,
           Undoing
      <4> QED BY <4>1, <4>2, <4>3 DEF Pinned
    <3> QED BY <3>1, <3>2
  <2>3. Pinned(store', art.entries)
    BY <2>2 DEF Pinned
  <2>4. art'.entries = art.entries /\ file' = file /\ file.entries = art.entries
    BY <1>0, <1>3a, <1>r DEF Undo, FileInv, Preparing, Active, Onward, Applying, Marking,
       Scanning, Forwarding, Undoing
  <2> QED BY <1>r, <2>3, <2>4 DEF Preparing, Active, Onward, Applying, Marking, Scanning,
     Forwarding, Undoing
<1>x. ASSUME NEW k \in Key, NEW v \in PutValues, ExternalPut(k, v)
      PROVE  PinInv'
  <2>1. \A j \in Key : store'[j] = store[j] \/ store'[j].version > store[j].version
    <3>1. \A j \in Key : store[j].version \in Nat
      BY <1>2a, VersionedFacts DEF Store
    <3>2. store'[k].version = store[k].version + 1
      BY <1>0, <1>x, ExternalPutKeys
    <3> QED BY <1>0, <1>x, <3>1, <3>2, ExternalPutKeys
  <2>2. \A a \in Artifacts : Pinned(store, a.entries) => Pinned(store', a.entries)
    BY <1>2a, <2>1, PinnedUp, WritesFacts, ArtifactFacts
  <2>3. art' = art /\ file' = file /\ pc' = pc
    BY <1>x DEF ExternalPut
  <2>4. pc = "undo" =>
            \/ MatchesTarget(LastEntry, store'[LastEntry.key])
            \/ store'[LastEntry.key].version > LastEntry.expected_version + 1
    <3> SUFFICES ASSUME pc = "undo"
                 PROVE  \/ MatchesTarget(LastEntry, store'[LastEntry.key])
                        \/ store'[LastEntry.key].version > LastEntry.expected_version + 1
      OBVIOUS
    <3>1. LastEntry.key \in Key /\ LastEntry.expected_version \in Nat
      BY <1>0, LastEntryFacts
    <3>2. store[LastEntry.key].version \in Nat /\ store'[LastEntry.key].version \in Nat
      BY <1>2a, <3>1, VersionedFacts DEF Store
    <3> QED BY <1>0, <2>1, <3>1, <3>2 DEF MatchesTarget, Stored
  <2> QED BY <1>0, <1>2a, <2>2, <2>3, <2>4 DEF LastEntry
<1>s. SUFFICES ASSUME store' = store, touched' = touched PROVE PinInv'
  BY <1>0, <1>m, <1>r, <1>x, StoreChanges
<1>1. CASE Prepare
  <2> DEFINE n == Len(art.entries)
             w == Writes[n + 1].key
  <2>1. pc = "prepare" /\ file' = file
    BY <1>1 DEF Prepare
  <2>2. CASE art' = art /\ GiveUp
    BY <1>0, <1>s, <2>1, <2>2 DEF GiveUp, Preparing, Active, Onward, Applying, Marking, Scanning,
       Forwarding, Undoing
  <2>3. CASE /\ VersionIs(store, w, Expected(n + 1)) /\ art' \in Artifacts
             /\ Len(art'.entries) = n + 1 /\ n \in Nat
             /\ art'.entries[n + 1] = EntryFor(n + 1, store[w])
             /\ \A i \in 1 .. n : art'.entries[i] = art.entries[i]
             /\ pc' \in Preparing
    <3>1. Pinned(store, art.entries)
      BY <1>0, <2>1 DEF Preparing
    <3>2. w \in Key /\ store[w].version \in Nat
      BY <1>0, <1>2a, <1>1, PrepareEffect, VersionedFacts DEF Store
    <3>3. /\ art'.entries[n + 1].key = w /\ art'.entries[n + 1].expected_version = store[w].version
          /\ art'.entries[n + 1].previous = store[w]
      BY <2>3 DEF EntryFor, VersionIs
    <3>4. Pinned(store, art'.entries)
      <4> SUFFICES ASSUME NEW i \in 1 .. n + 1
                   PROVE  LET e == art'.entries[i] IN
                          /\ store[e.key].version >= e.expected_version
                          /\ store[e.key].version = e.expected_version => store[e.key] = e.previous
        BY <2>3 DEF Pinned
      <4>1. CASE i = n + 1
        BY <3>2, <3>3, <4>1
      <4>2. CASE i \in 1 .. n
        BY <2>3, <3>1, <4>2 DEF Pinned
      <4> QED BY <2>3, <4>1, <4>2
    <3> QED BY <1>0, <1>s, <2>1, <2>3, <3>4 DEF Preparing, Active, Onward, Applying, Marking,
       Scanning, Forwarding, Undoing
  <2> QED BY <1>1, <1>0, <2>2, <2>3, PrepareEffect DEF Preparing
<1>2. CASE SavePrepared
  BY <1>2, <1>0, <1>s, <1>3a DEF SavePrepared, Save, WriteArtifact, FileFails, GiveUp, Goto,
     LastEntry, IsOpen, Terminal, Phase, Preparing, Active, Onward, Applying, Marking, Scanning,
     Forwarding, Undoing
<1>3. CASE Check
  BY <1>3, <1>0, <1>s, <1>3a DEF Check, StartRollback, Goto, LastEntry, IsOpen, Terminal, Phase,
     Preparing, Active, Onward, Applying, Marking, Scanning, Forwarding, Undoing
<1>4. CASE PutNext
  BY <1>4, <1>0, <1>s, <1>3a DEF PutNext, StartRollback, Goto, LastEntry, IsOpen, Terminal, Phase,
     Preparing, Active, Onward, Applying, Marking, Scanning, Forwarding, Undoing
<1>5. CASE SaveApplied
  BY <1>5, <1>0, <1>s, <1>3a DEF SaveApplied, Save, WriteArtifact, FileFails, GiveUp, Goto,
     LastEntry, IsOpen, Terminal, Phase, Preparing, Active, Onward, Applying, Marking, Scanning,
     Forwarding, Undoing
<1>6. CASE MarkCommitted
  BY <1>6, <1>0, <1>s, <1>3a DEF MarkCommitted, Goto, LastEntry, IsOpen, Terminal, Phase,
     Preparing, Active, Onward, Applying, Marking, Scanning, Forwarding, Undoing
<1>7. CASE SaveCommitted
  BY <1>7, <1>0, <1>s, <1>3a DEF SaveCommitted, WriteArtifact, FileFails, GiveUp, Succeed,
     LastEntry, IsOpen, Terminal, Phase, Preparing, Active, Onward, Applying, Marking, Scanning,
     Forwarding, Undoing
<1>8. CASE ScanTarget
  BY <1>8, <1>0, <1>s, <1>3a DEF ScanTarget, Goto, LastEntry, IsOpen, Terminal, Phase, Preparing,
     Active, Onward, Applying, Marking, Scanning, Forwarding, Undoing
<1>9. CASE ScanRest
  BY <1>9, <1>0, <1>s, <1>3a DEF ScanRest, GiveUp, LastEntry, IsOpen, Terminal, Phase, Preparing,
     Active, Onward, Applying, Marking, Scanning, Forwarding, Undoing
<1>10. CASE ScanDone
  BY <1>10, <1>0, <1>s, <1>3a DEF ScanDone, Goto, LastEntry, IsOpen, Terminal, Phase, Preparing,
     Active, Onward, Applying, Marking, Scanning, Forwarding, Undoing
<1>11. CASE SaveForward
  BY <1>11, <1>0, <1>s, <1>3a DEF SaveForward, ForwardLabel, Save, WriteArtifact, FileFails,
     GiveUp, Goto, LastEntry, IsOpen, Terminal, Phase, Preparing, Active, Onward, Applying,
     Marking, Scanning, Forwarding, Undoing
<1>12. CASE Forward
  BY <1>12, <1>0, <1>s, <1>3a DEF Forward, GiveUp, Goto, LastEntry, IsOpen, Terminal, Phase,
     Preparing, Active, Onward, Applying, Marking, Scanning, Forwarding, Undoing
<1>13. CASE SaveForwarded
  BY <1>13, <1>0, <1>s, <1>3a DEF SaveForwarded, ForwardLabel, Save, WriteArtifact, FileFails,
     GiveUp, Goto, LastEntry, IsOpen, Terminal, Phase, Preparing, Active, Onward, Applying,
     Marking, Scanning, Forwarding, Undoing
<1>14. CASE SaveRollingBack
  BY <1>14, <1>0, <1>s, <1>3a DEF SaveRollingBack, UndoLabel, Save, WriteArtifact, FileFails,
     GiveUp, Goto, LastEntry, IsOpen, Terminal, Phase, Preparing, Active, Onward, Applying,
     Marking, Scanning, Forwarding, Undoing
<1>15. CASE UndoCheck
  BY <1>15, <1>0, <1>s, <1>3a DEF UndoCheck, GiveUp, Goto, LastEntry, IsOpen, Terminal, Phase,
     Preparing, Active, Onward, Applying, Marking, Scanning, Forwarding, Undoing
<1>16. CASE Undo
  BY <1>16, <1>0, <1>s, <1>3a DEF Undo, GiveUp, Goto, LastEntry, IsOpen, Terminal, Phase,
     Preparing, Active, Onward, Applying, Marking, Scanning, Forwarding, Undoing
<1>17. CASE SaveUndone
  BY <1>17, <1>0, <1>s, <1>3a DEF SaveUndone, UndoLabel, Save, WriteArtifact, FileFails, GiveUp,
     Goto, LastEntry, IsOpen, Terminal, Phase, Preparing, Active, Onward, Applying, Marking,
     Scanning, Forwarding, Undoing
<1>18. CASE MarkRolledBack
  BY <1>18, <1>0, <1>s, <1>3a DEF MarkRolledBack, Goto, LastEntry, IsOpen, Terminal, Phase,
     Preparing, Active, Onward, Applying, Marking, Scanning, Forwarding, Undoing
<1>19. CASE SaveRolledBack
  BY <1>19, <1>0, <1>s, <1>3a DEF SaveRolledBack, WriteArtifact, FileFails, GiveUp, Succeed,
     LastEntry, IsOpen, Terminal, Phase, Preparing, Active, Onward, Applying, Marking, Scanning,
     Forwarding, Undoing
<1>20. CASE Finalize
  BY <1>20, <1>0, <1>s, <1>3a DEF Finalize, FinalizeFails, FileFails, Forget, Goto, LastEntry,
     NoArtifact, IsOpen, Terminal, Phase, Preparing, Active, Onward, Applying, Marking, Scanning,
     Forwarding, Undoing
<1>21. CASE Rename
  BY <1>21, <1>0, <1>s, <1>3a DEF Rename, FinalizeFails, FileFails, Goto, LastEntry, NoArtifact,
     IsOpen, Terminal, Phase, Preparing, Active, Onward, Applying, Marking, Scanning, Forwarding,
     Undoing
<1>22. CASE Crash
  BY <1>22, <1>0, <1>s, <1>3a DEF Crash, Forget, LastEntry, IsOpen, Terminal, Phase, Preparing,
     Active, Onward, Applying, Marking, Scanning, Forwarding, Undoing
<1>23. CASE Restart
  BY <1>23, <1>0, <1>s, <1>3a DEF Restart, RecoverArtifacts, Goto, LastEntry, IsOpen, Terminal,
     Phase, Preparing, Active, Onward, Applying, Marking, Scanning, Forwarding, Undoing
<1>24. CASE Resubmit
  BY <1>24, <1>0, <1>s, <1>3a DEF Resubmit, Goto, LastEntry, NewArtifact, Pinned, Preparing,
     Active, Onward, Applying, Marking, Scanning, Forwarding, Undoing
<1>25. ASSUME NEW k \in Key, NEW v \in PutValues, ExternalPut(k, v)
      PROVE  PinInv'
  BY <1>25, <1>x
<1>26. CASE UNCHANGED vars
  BY <1>26, <1>0, <1>s, <1>3a DEF vars, LastEntry, IsOpen, Terminal, Phase, Preparing, Active,
     Onward, Applying, Marking, Scanning, Forwarding, Undoing
<1> QED
  BY <1>1, <1>2, <1>3, <1>4, <1>5, <1>6, <1>7, <1>8, <1>9, <1>10, <1>11, <1>12, <1>13, <1>14,
     <1>15, <1>16, <1>17, <1>18, <1>19, <1>20, <1>21, <1>22, <1>23, <1>24, <1>25, <1>26
  DEF Next, CommitStep, RecoveryStep

\* Every step keeps what is known of the writes that were made.
LEMMA MadeStep == IInv /\ [Next]_vars => MadeInv'
<1> SUFFICES ASSUME IInv, [Next]_vars PROVE MadeInv'
  OBVIOUS
<1> USE DEF frame, memory, history, bounds, MadeInv
<1>0. TypeInv /\ CountInv /\ PhaseInv /\ FileInv /\ PinInv /\ MadeInv /\ UnmadeInv
  BY DEF IInv
<1>2a. /\ art \in Artifacts /\ file \in Artifacts
       /\ art.applied_count \in 0 .. Count /\ prefix \in 0 .. Count /\ Count \in Nat
  BY <1>0, ArtifactFacts, WritesFacts DEF TypeInv
<1>3a. art \in [phase : Phase \cup {"NONE"}, applied_count : 0 .. Count, entries : Seq(Entry)]
  BY <1>0 DEF TypeInv, Artifacts, Artifact
<1>m. ASSUME PutNext \/ Forward, Makes(art.entries[art.applied_count + 1]),
             art.applied_count + 1 \in 1 .. Count, Len(art.entries) = Count,
             pc \in {"put", "forward"}, pc' = IF pc = "put" THEN "saveApplied" ELSE "saveForwarded",
             art' = [art EXCEPT !.applied_count = @ + 1, !.phase = "APPLYING"], touched' = touched
      PROVE  MadeInv'
  <2>1. art'.entries = art.entries /\ art'.applied_count = art.applied_count + 1
    BY <1>3a, <1>m
  <2>2. \A i \in 1 .. art.applied_count : Made(store, touched, art.entries[i])
    BY <1>0, <1>m DEF Preparing, Active, Onward, Applying, Marking, Scanning, Forwarding, Undoing
  <2>3. \A i \in 1 .. art.applied_count + 1 : Made(store', touched', art.entries[i])
    <3> SUFFICES ASSUME NEW i \in 1 .. art.applied_count + 1
                 PROVE  Made(store', touched', art.entries[i])
      OBVIOUS
    <3>1. i = art.applied_count + 1 \/ (i \in 1 .. art.applied_count /\ i \in 1 .. Count /\ i # art.applied_count + 1)
      BY <1>2a, <1>m
    <3> QED BY <1>0, <1>m, <2>2, <3>1, MakesOne
  <2>4. pc' \notin Scanning
    BY <1>m DEF Scanning
  <2> QED BY <2>1, <2>3, <2>4
<1>r. ASSUME Undo, Reverts(art.entries[art.applied_count]), art.applied_count \in 1 .. Count,
             Len(art.entries) = Count, pc = "undo", pc' = "saveUndone",
             art' = [art EXCEPT !.applied_count = @ - 1], touched' = touched
      PROVE  MadeInv'
  BY <1>r DEF Preparing, Active, Onward, Applying, Marking, Scanning, Forwarding, Undoing
<1>x. ASSUME NEW k \in Key, NEW v \in PutValues, ExternalPut(k, v)
      PROVE  MadeInv'
  <2>1. /\ art' = art /\ pc' = pc /\ prefix' = prefix
    BY <1>x DEF ExternalPut
  <2>2. pc \in Onward \cup Scanning => Len(art.entries) = Count
    BY <1>0 DEF CountInv, Active
  <2> QED BY <1>0, <1>2a, <1>x, <2>1, <2>2, ExternalPutKeeps
<1>s. SUFFICES ASSUME store' = store, touched' = touched PROVE MadeInv'
  BY <1>0, <1>m, <1>r, <1>x, StoreChanges
<1>1. CASE Prepare
  BY <1>1, <1>0, <1>s, <1>3a DEF Prepare, Goto, GiveUp, Preparing, Active, Onward, Applying,
     Marking, Scanning, Forwarding, Undoing
<1>2. CASE SavePrepared
  <2>1. pc = "savePrepared" /\ art.applied_count = 0
    BY <1>2, <1>0 DEF SavePrepared, Save, PhaseInv, Preparing
  <2> QED BY <1>2, <1>0, <1>s, <2>1 DEF SavePrepared, Save, WriteArtifact, FileFails, GiveUp,
     Goto, Preparing, Active, Onward, Applying, Marking, Scanning, Forwarding, Undoing
<1>3. CASE Check
  BY <1>3, <1>0, <1>s, <1>3a DEF Check, StartRollback, Goto, Preparing, Active, Onward, Applying,
     Marking, Scanning, Forwarding, Undoing
<1>4. CASE PutNext
  <2>1. pc = "put" /\ touched' = touched
    BY <1>4 DEF PutNext
  <2>2. CASE VersionIs(store, NextEntry.key, NextEntry.expected_version)
    BY <1>4, <1>0, <1>m, <2>1, <2>2, PutEffect, NextEntryFacts DEF PutNext, Goto
  <2>3. CASE ~VersionIs(store, NextEntry.key, NextEntry.expected_version)
    BY <1>4, <1>0, <1>s, <2>1, <2>3, <1>2a DEF PutNext, StartRollback, Goto, Preparing, Active,
       Onward, Applying, Marking, Scanning, Forwarding, Undoing
  <2> QED BY <2>2, <2>3
<1>5. CASE SaveApplied
  BY <1>5, <1>0, <1>s, <1>3a DEF SaveApplied, Save, WriteArtifact, FileFails, GiveUp, Goto,
     Preparing, Active, Onward, Applying, Marking, Scanning, Forwarding, Undoing
<1>6. CASE MarkCommitted
  BY <1>6, <1>0, <1>s, <1>3a DEF MarkCommitted, Goto, Preparing, Active, Onward, Applying,
     Marking, Scanning, Forwarding, Undoing
<1>7. CASE SaveCommitted
  BY <1>7, <1>0, <1>s, <1>3a DEF SaveCommitted, WriteArtifact, FileFails, GiveUp, Succeed,
     Preparing, Active, Onward, Applying, Marking, Scanning, Forwarding, Undoing
<1>8. CASE ScanTarget
  <2>1. pc = "scanTarget" /\ \A i \in 1 .. prefix : Made(store, touched, art.entries[i])
    BY <1>8, <1>0 DEF ScanTarget, Scanning
  <2>2. CASE MatchesTarget(art.entries[prefix + 1], store[art.entries[prefix + 1].key])
    <3>1. Made(store, touched, art.entries[prefix + 1])
      BY <2>2 DEF Made
    <3>2. \A i \in 1 .. prefix + 1 : Made(store, touched, art.entries[i])
      BY <1>2a, <2>1, <3>1
    <3> QED BY <1>8, <1>s, <2>1, <2>2, <3>2 DEF ScanTarget, Goto, Preparing, Active, Onward,
       Applying, Marking, Scanning, Forwarding, Undoing
  <2>3. CASE ~MatchesTarget(art.entries[prefix + 1], store[art.entries[prefix + 1].key])
    BY <1>8, <1>s, <2>1, <2>3 DEF ScanTarget, Goto, Preparing, Active, Onward, Applying, Marking,
       Scanning, Forwarding, Undoing
  <2> QED BY <2>2, <2>3
<1>9. CASE ScanRest
  BY <1>9, <1>0, <1>s, <1>3a DEF ScanRest, GiveUp, Preparing, Active, Onward, Applying, Marking,
     Scanning, Forwarding, Undoing
<1>10. CASE ScanDone
  BY <1>10, <1>0, <1>s, <1>3a DEF ScanDone, Goto, Preparing, Active, Onward, Applying, Marking,
     Scanning, Forwarding, Undoing
<1>11. CASE SaveForward
  BY <1>11, <1>0, <1>s, <1>3a DEF SaveForward, ForwardLabel, Save, WriteArtifact, FileFails,
     GiveUp, Goto, Preparing, Active, Onward, Applying, Marking, Scanning, Forwarding, Undoing
<1>12. CASE Forward
  <2>1. pc = "forward" /\ touched' = touched
    BY <1>12 DEF Forward
  <2>2. CASE VersionIs(store, NextEntry.key, NextEntry.expected_version)
    BY <1>12, <1>0, <1>m, <2>1, <2>2, PutEffect, NextEntryFacts DEF Forward, Goto
  <2>3. CASE ~VersionIs(store, NextEntry.key, NextEntry.expected_version)
    BY <1>12, <1>0, <1>s, <2>1, <2>3, <1>2a DEF Forward, GiveUp, Goto, Preparing, Active, Onward,
       Applying, Marking, Scanning, Forwarding, Undoing
  <2> QED BY <2>2, <2>3
<1>13. CASE SaveForwarded
  BY <1>13, <1>0, <1>s, <1>3a DEF SaveForwarded, ForwardLabel, Save, WriteArtifact, FileFails,
     GiveUp, Goto, Preparing, Active, Onward, Applying, Marking, Scanning, Forwarding, Undoing
<1>14. CASE SaveRollingBack
  BY <1>14, <1>0, <1>s, <1>3a DEF SaveRollingBack, UndoLabel, Save, WriteArtifact, FileFails,
     GiveUp, Goto, Preparing, Active, Onward, Applying, Marking, Scanning, Forwarding, Undoing
<1>15. CASE UndoCheck
  BY <1>15, <1>0, <1>s, <1>3a DEF UndoCheck, GiveUp, Goto, Preparing, Active, Onward, Applying,
     Marking, Scanning, Forwarding, Undoing
<1>16. CASE Undo
  BY <1>16, <1>0, <1>s, <1>3a DEF Undo, GiveUp, Goto, Preparing, Active, Onward, Applying,
     Marking, Scanning, Forwarding, Undoing
<1>17. CASE SaveUndone
  BY <1>17, <1>0, <1>s, <1>3a DEF SaveUndone, UndoLabel, Save, WriteArtifact, FileFails, GiveUp,
     Goto, Preparing, Active, Onward, Applying, Marking, Scanning, Forwarding, Undoing
<1>18. CASE MarkRolledBack
  BY <1>18, <1>0, <1>s, <1>3a DEF MarkRolledBack, Goto, Preparing, Active, Onward, Applying,
     Marking, Scanning, Forwarding, Undoing
<1>19. CASE SaveRolledBack
  BY <1>19, <1>0, <1>s, <1>3a DEF SaveRolledBack, WriteArtifact, FileFails, GiveUp, Succeed,
     Preparing, Active, Onward, Applying, Marking, Scanning, Forwarding, Undoing
<1>20. CASE Finalize
  BY <1>20, <1>0, <1>s, <1>3a DEF Finalize, FinalizeFails, FileFails, Forget, Goto, Preparing,
     Active, Onward, Applying, Marking, Scanning, Forwarding, Undoing
<1>21. CASE Rename
  BY <1>21, <1>0, <1>s, <1>3a DEF Rename, FinalizeFails, FileFails, Goto, Preparing, Active,
     Onward, Applying, Marking, Scanning, Forwarding, Undoing
<1>22. CASE Crash
  BY <1>22, <1>0, <1>s, <1>3a DEF Crash, Forget, Preparing, Active, Onward, Applying, Marking,
     Scanning, Forwarding, Undoing
<1>23. CASE Restart
  BY <1>23, <1>0, <1>s, <1>3a DEF Restart, RecoverArtifacts, Goto, Preparing, Active, Onward,
     Applying, Marking, Scanning, Forwarding, Undoing
<1>24. CASE Resubmit
  BY <1>24, <1>0, <1>s, <1>3a DEF Resubmit, Goto, Preparing, Active, Onward, Applying, Marking,
     Scanning, Forwarding, Undoing
<1>25. ASSUME NEW k \in Key, NEW v \in PutValues, ExternalPut(k, v)
      PROVE  MadeInv'
  BY <1>25, <1>x
<1>26. CASE UNCHANGED vars
  BY <1>26, <1>0, <1>s, <1>3a DEF vars, Preparing, Active, Onward, Applying, Marking, Scanning,
     Forwarding, Undoing
<1> QED
  BY <1>1, <1>2, <1>3, <1>4, <1>5, <1>6, <1>7, <1>8, <1>9, <1>10, <1>11, <1>12, <1>13, <1>14,
     <1>15, <1>16, <1>17, <1>18, <1>19, <1>20, <1>21, <1>22, <1>23, <1>24, <1>25, <1>26
  DEF Next, CommitStep, RecoveryStep

\* Every step keeps what is known of the other writes.
LEMMA UnmadeStep == IInv /\ [Next]_vars => UnmadeInv'
<1> SUFFICES ASSUME IInv, [Next]_vars PROVE UnmadeInv'
  OBVIOUS
<1> USE DEF frame, memory, history, bounds, UnmadeInv
<1>0. TypeInv /\ CountInv /\ PhaseInv /\ FileInv /\ PinInv /\ MadeInv /\ UnmadeInv
  BY DEF IInv
<1>2a. /\ art \in Artifacts /\ file \in Artifacts
       /\ art.applied_count \in 0 .. Count /\ prefix \in 0 .. Count /\ Count \in Nat
  BY <1>0, ArtifactFacts, WritesFacts DEF TypeInv
<1>3a. art \in [phase : Phase \cup {"NONE"}, applied_count : 0 .. Count, entries : Seq(Entry)]
  BY <1>0 DEF TypeInv, Artifacts, Artifact
<1>m. ASSUME PutNext \/ Forward, Makes(art.entries[art.applied_count + 1]),
             art.applied_count + 1 \in 1 .. Count, Len(art.entries) = Count,
             pc \in {"put", "forward"}, pc' = IF pc = "put" THEN "saveApplied" ELSE "saveForwarded",
             art' = [art EXCEPT !.applied_count = @ + 1, !.phase = "APPLYING"], touched' = touched
      PROVE  UnmadeInv'
  <2>1. art'.entries = art.entries /\ art'.applied_count = art.applied_count + 1
    BY <1>3a, <1>m
  <2>2. pc' \notin Preparing \cup Undoing \cup {"scanRest"}
    BY <1>m DEF Preparing, Active, Onward, Applying, Marking, Scanning, Forwarding, Undoing
  <2>3. ASSUME NEW i \in 1 .. Count, i > art.applied_count + 1
        PROVE  Unmade(store', touched', art.entries[i])
    <3>1. i > art.applied_count /\ i # art.applied_count + 1
      BY <1>2a, <2>3
    <3>2. pc \in Onward
      BY <1>m DEF Preparing, Active, Onward, Applying, Marking, Scanning, Forwarding, Undoing
    <3> QED BY <1>0, <1>m, <3>1, <3>2, MakesOne
  <2> QED BY <2>1, <2>2, <2>3
<1>r. ASSUME Undo, Reverts(art.entries[art.applied_count]), art.applied_count \in 1 .. Count,
             Len(art.entries) = Count, pc = "undo", pc' = "saveUndone",
             art' = [art EXCEPT !.applied_count = @ - 1], touched' = touched
      PROVE  UnmadeInv'
  <2>1. art'.entries = art.entries /\ art'.applied_count = art.applied_count - 1
    BY <1>3a, <1>r
  <2>2. pc' \notin Preparing \cup Onward \cup {"scanRest"}
    BY <1>r DEF Preparing, Active, Onward, Applying, Marking, Scanning, Forwarding, Undoing
  <2>3. ASSUME NEW i \in 1 .. Count, i > art.applied_count - 1
        PROVE  Reverted(store', touched', art.entries[i])
    <3>1. i = art.applied_count \/ (i > art.applied_count /\ i # art.applied_count)
      BY <1>2a, <2>3
    <3>2. pc \in Undoing
      BY <1>r DEF Preparing, Active, Onward, Applying, Marking, Scanning, Forwarding, Undoing
    <3> QED BY <1>0, <1>r, <3>1, <3>2, RevertsOne
  <2> QED BY <2>1, <2>2, <2>3
<1>x. ASSUME NEW k \in Key, NEW v \in PutValues, ExternalPut(k, v)
      PROVE  UnmadeInv'
  <2>1. /\ art' = art /\ pc' = pc /\ prefix' = prefix /\ cursor' = cursor
    BY <1>x DEF ExternalPut
  <2>2. pc \in Active => Len(art.entries) = Count
    BY <1>0 DEF CountInv
  <2>3. Onward \subseteq Active /\ Undoing \subseteq Active /\ "scanRest" \in Active
    BY DEF Active, Scanning
  <2>4. \A i \in 1 .. Len(art.entries) :
          /\ Unmade(store, touched, art.entries[i]) => Unmade(store', touched', art.entries[i])
          /\ Reverted(store, touched, art.entries[i]) => Reverted(store', touched', art.entries[i])
    BY <1>0, <1>2a, <1>x, ExternalPutKeeps
  <2> QED BY <1>0, <2>1, <2>2, <2>3, <2>4
<1>s. SUFFICES ASSUME store' = store, touched' = touched PROVE UnmadeInv'
  BY <1>0, <1>m, <1>r, <1>x, StoreChanges
<1>1. CASE Prepare
  <2> DEFINE n == Len(art.entries)
             w == Writes[n + 1].key
  <2>1. pc = "prepare" /\ n \in Nat
    BY <1>1, <1>2a, ArtifactFacts DEF Prepare
  <2>2. CASE art' = art /\ GiveUp
    BY <1>0, <1>s, <2>1, <2>2 DEF GiveUp, Preparing, Active, Onward, Applying, Marking, Scanning,
       Forwarding, Undoing
  <2>3. CASE /\ Len(art'.entries) = n + 1
             /\ art'.entries[n + 1] = EntryFor(n + 1, store[w])
             /\ \A i \in 1 .. n : art'.entries[i] = art.entries[i]
             /\ pc' \in Preparing
    <3>1. \A i \in 1 .. n : Unmade(store, touched, art.entries[i])
      BY <1>0, <2>1 DEF Preparing
    <3>2. ~store[w].exists => store[w].version = 0
      BY <1>0, <1>1, PrepareEffect DEF TypeInv, Store, Versioned, Absent
    <3>3. Unmade(store, touched, art'.entries[n + 1])
      BY <2>3, <3>2 DEF EntryFor, Unmade, MatchesPrevious
    <3>4. \A i \in 1 .. n + 1 : Unmade(store, touched, art'.entries[i])
      BY <2>1, <2>3, <3>1, <3>3
    <3> QED BY <1>s, <2>3, <3>4 DEF Preparing, Active, Onward, Applying, Marking, Scanning,
       Forwarding, Undoing
  <2> QED BY <1>1, <1>0, <2>2, <2>3, PrepareEffect DEF Preparing
<1>2. CASE SavePrepared
  <2>1. pc = "savePrepared" /\ art.applied_count = 0 /\ Len(art.entries) = Count
    BY <1>2, <1>0 DEF SavePrepared, Save, PhaseInv, CountInv, Preparing
  <2> QED BY <1>2, <1>0, <1>s, <2>1 DEF SavePrepared, Save, WriteArtifact, FileFails, GiveUp,
     Goto, Preparing, Active, Onward, Applying, Marking, Scanning, Forwarding, Undoing
<1>3. CASE Check
  BY <1>3, <1>0, <1>s, <1>3a DEF Check, StartRollback, Goto, Preparing, Active, Onward, Applying,
     Marking, Scanning, Forwarding, Undoing
<1>4. CASE PutNext
  <2>1. pc = "put" /\ touched' = touched
    BY <1>4 DEF PutNext
  <2>2. CASE VersionIs(store, NextEntry.key, NextEntry.expected_version)
    BY <1>4, <1>0, <1>m, <2>1, <2>2, PutEffect, NextEntryFacts DEF PutNext, Goto
  <2>3. CASE ~VersionIs(store, NextEntry.key, NextEntry.expected_version)
    BY <1>4, <1>0, <1>s, <2>1, <2>3, <1>2a DEF PutNext, StartRollback, Goto, Preparing, Active,
       Onward, Applying, Marking, Scanning, Forwarding, Undoing
  <2> QED BY <2>2, <2>3
<1>5. CASE SaveApplied
  BY <1>5, <1>0, <1>s, <1>3a DEF SaveApplied, Save, WriteArtifact, FileFails, GiveUp, Goto,
     Preparing, Active, Onward, Applying, Marking, Scanning, Forwarding, Undoing
<1>6. CASE MarkCommitted
  BY <1>6, <1>0, <1>s, <1>3a DEF MarkCommitted, Goto, Preparing, Active, Onward, Applying,
     Marking, Scanning, Forwarding, Undoing
<1>7. CASE SaveCommitted
  BY <1>7, <1>0, <1>s, <1>3a DEF SaveCommitted, WriteArtifact, FileFails, GiveUp, Succeed,
     Preparing, Active, Onward, Applying, Marking, Scanning, Forwarding, Undoing
<1>8. CASE ScanTarget
  <2>1. pc' = "scanTarget" \/ (pc' = "scanRest" /\ cursor' = prefix' + 1 /\ prefix' = prefix)
    BY <1>8 DEF ScanTarget, Goto
  <2> QED BY <1>2a, <2>1 DEF Preparing, Active, Onward, Applying, Marking, Scanning, Forwarding,
     Undoing
<1>9. CASE ScanRest
  <2>1. pc = "scanRest" /\ cursor \in 1 .. Count + 1 /\ prefix' = prefix /\ art' = art
    BY <1>9, <1>0 DEF ScanRest, TypeInv
  <2>2. CASE MatchesPrevious(art.entries[cursor], store[art.entries[cursor].key])
    <3>1. Unmade(store, touched, art.entries[cursor]) /\ cursor' = cursor + 1 /\ pc' = pc
      BY <1>9, <2>2 DEF ScanRest, Unmade
    <3> QED BY <1>0, <1>s, <2>1, <3>1 DEF Preparing, Active, Onward, Applying, Marking, Scanning,
       Forwarding, Undoing
  <2>3. CASE ~MatchesPrevious(art.entries[cursor], store[art.entries[cursor].key])
    BY <1>9, <2>3 DEF ScanRest, GiveUp, Preparing, Active, Onward, Applying, Marking, Scanning,
       Forwarding, Undoing
  <2> QED BY <2>2, <2>3
<1>10. CASE ScanDone
  <2>1. pc = "scanRest" /\ cursor > Count /\ cursor \in 1 .. Count + 1 /\ Len(art.entries) = Count
    BY <1>10, <1>0 DEF ScanDone, TypeInv, CountInv, Active, Scanning
  <2>2. \A i \in 1 .. Count : i > prefix => Unmade(store, touched, art.entries[i])
    BY <1>0, <1>2a, <2>1
  <2>3. \A i \in 1 .. Count : i > prefix => Reverted(store, touched, art.entries[i])
    BY <1>0, <1>2a, <2>1, <2>2, UnmadeReverted
  <2>4. art'.entries = art.entries /\ art'.applied_count = prefix
    BY <1>10, <1>3a DEF ScanDone
  <2>5. pc' \notin Preparing \cup {"scanRest"}
    BY <1>10 DEF ScanDone, Goto, Preparing
  <2> QED BY <1>s, <2>2, <2>3, <2>4, <2>5
<1>11. CASE SaveForward
  BY <1>11, <1>0, <1>s, <1>3a DEF SaveForward, ForwardLabel, Save, WriteArtifact, FileFails,
     GiveUp, Goto, Preparing, Active, Onward, Applying, Marking, Scanning, Forwarding, Undoing
<1>12. CASE Forward
  <2>1. pc = "forward" /\ touched' = touched
    BY <1>12 DEF Forward
  <2>2. CASE VersionIs(store, NextEntry.key, NextEntry.expected_version)
    BY <1>12, <1>0, <1>m, <2>1, <2>2, PutEffect, NextEntryFacts DEF Forward, Goto
  <2>3. CASE ~VersionIs(store, NextEntry.key, NextEntry.expected_version)
    BY <1>12, <1>0, <1>s, <2>1, <2>3, <1>2a DEF Forward, GiveUp, Goto, Preparing, Active, Onward,
       Applying, Marking, Scanning, Forwarding, Undoing
  <2> QED BY <2>2, <2>3
<1>13. CASE SaveForwarded
  BY <1>13, <1>0, <1>s, <1>3a DEF SaveForwarded, ForwardLabel, Save, WriteArtifact, FileFails,
     GiveUp, Goto, Preparing, Active, Onward, Applying, Marking, Scanning, Forwarding, Undoing
<1>14. CASE SaveRollingBack
  BY <1>14, <1>0, <1>s, <1>3a DEF SaveRollingBack, UndoLabel, Save, WriteArtifact, FileFails,
     GiveUp, Goto, Preparing, Active, Onward, Applying, Marking, Scanning, Forwarding, Undoing
<1>15. CASE UndoCheck
  <2>1. pc = "undoCheck" /\ Len(art.entries) = Count /\ art.applied_count \in 1 .. Count
    BY <1>15, <1>0, LastEntryFacts DEF UndoCheck
  <2>2. \A i \in 1 .. Count : i > art.applied_count => Reverted(store, touched, art.entries[i])
    BY <1>0, <2>1 DEF Undoing
  <2>3. CASE MatchesPrevious(LastEntry, store[LastEntry.key])
    <3>1. Unmade(store, touched, art.entries[art.applied_count])
      BY <2>3 DEF Unmade, LastEntry
    <3>2. Reverted(store, touched, art.entries[art.applied_count])
      BY <1>0, <1>2a, <2>1, <3>1, UnmadeReverted
    <3>3. \A i \in 1 .. Count : i > art.applied_count - 1 => Reverted(store, touched, art.entries[i])
      BY <2>1, <2>2, <3>2
    <3>4. art'.entries = art.entries /\ art'.applied_count = art.applied_count - 1
      BY <1>15, <1>3a, <2>3 DEF UndoCheck
    <3>5. pc' = "saveUndone"
      BY <1>15, <2>3 DEF UndoCheck, Goto
    <3> QED BY <1>s, <3>3, <3>4, <3>5 DEF Preparing, Active, Onward, Applying, Marking, Scanning,
       Forwarding, Undoing
  <2>4. CASE ~MatchesPrevious(LastEntry, store[LastEntry.key])
    BY <1>15, <1>0, <1>s, <2>1, <2>4 DEF UndoCheck, GiveUp, Goto, Preparing, Active, Onward,
       Applying, Marking, Scanning, Forwarding, Undoing
  <2> QED BY <2>3, <2>4
<1>16. CASE Undo
  <2>1. pc = "undo" /\ touched' = touched
    BY <1>16 DEF Undo
  <2>2. CASE VersionIs(store, LastEntry.key, UndoVersion(LastEntry))
    BY <1>16, <1>0, <1>r, <2>1, <2>2, UndoEffect, LastEntryFacts DEF Undo, Goto
  <2>3. CASE ~VersionIs(store, LastEntry.key, UndoVersion(LastEntry))
    BY <1>16, <1>0, <1>s, <2>1, <2>3, <1>2a DEF Undo, GiveUp, Goto, Preparing, Active, Onward,
       Applying, Marking, Scanning, Forwarding, Undoing
  <2> QED BY <2>2, <2>3
<1>17. CASE SaveUndone
  BY <1>17, <1>0, <1>s, <1>3a DEF SaveUndone, UndoLabel, Save, WriteArtifact, FileFails, GiveUp,
     Goto, Preparing, Active, Onward, Applying, Marking, Scanning, Forwarding, Undoing
<1>18. CASE MarkRolledBack
  BY <1>18, <1>0, <1>s, <1>3a DEF MarkRolledBack, Goto, Preparing, Active, Onward, Applying,
     Marking, Scanning, Forwarding, Undoing
<1>19. CASE SaveRolledBack
  BY <1>19, <1>0, <1>s, <1>3a DEF SaveRolledBack, WriteArtifact, FileFails, GiveUp, Succeed,
     Preparing, Active, Onward, Applying, Marking, Scanning, Forwarding, Undoing
<1>20. CASE Finalize
  BY <1>20, <1>0, <1>s, <1>3a DEF Finalize, FinalizeFails, FileFails, Forget, Goto, Preparing,
     Active, Onward, Applying, Marking, Scanning, Forwarding, Undoing
<1>21. CASE Rename
  BY <1>21, <1>0, <1>s, <1>3a DEF Rename, FinalizeFails, FileFails, Goto, Preparing, Active,
     Onward, Applying, Marking, Scanning, Forwarding, Undoing
<1>22. CASE Crash
  BY <1>22, <1>0, <1>s, <1>3a DEF Crash, Forget, Preparing, Active, Onward, Applying, Marking,
     Scanning, Forwarding, Undoing
<1>23. CASE Restart
  BY <1>23, <1>0, <1>s, <1>3a DEF Restart, RecoverArtifacts, Goto, Preparing, Active, Onward,
     Applying, Marking, Scanning, Forwarding, Undoing
<1>24. CASE Resubmit
  <2>1. pc' = "prepare" /\ art' = NewArtifact
    BY <1>24 DEF Resubmit, Goto
  <2>2. Len(art'.entries) = 0
    BY <2>1 DEF NewArtifact
  <2> QED BY <2>1, <2>2 DEF Preparing, Active, Onward, Applying, Marking, Scanning, Forwarding,
     Undoing
<1>25. ASSUME NEW k \in Key, NEW v \in PutValues, ExternalPut(k, v)
      PROVE  UnmadeInv'
  BY <1>25, <1>x
<1>26. CASE UNCHANGED vars
  BY <1>26, <1>0, <1>s, <1>3a DEF vars, Preparing, Active, Onward, Applying, Marking, Scanning,
     Forwarding, Undoing
<1> QED
  BY <1>1, <1>2, <1>3, <1>4, <1>5, <1>6, <1>7, <1>8, <1>9, <1>10, <1>11, <1>12, <1>13, <1>14,
     <1>15, <1>16, <1>17, <1>18, <1>19, <1>20, <1>21, <1>22, <1>23, <1>24, <1>25, <1>26
  DEF Next, CommitStep, RecoveryStep

\* Every step keeps what is known of the writes of an open artifact.
LEMMA OpenStep == IInv /\ [Next]_vars => OpenInv'
<1> SUFFICES ASSUME IInv, [Next]_vars PROVE OpenInv'
  OBVIOUS
<1> USE DEF frame, memory, history, bounds, OpenInv
<1>0. OpenInv /\ TypeInv /\ CountInv /\ PhaseInv /\ FileInv /\ PinInv /\ MadeInv /\ UnmadeInv
  BY DEF IInv
<1>2a. /\ art \in Artifacts /\ file \in Artifacts
       /\ art.applied_count \in 0 .. Count /\ prefix \in 0 .. Count /\ Count \in Nat
  BY <1>0, ArtifactFacts, WritesFacts DEF TypeInv
<1>3a. art \in [phase : Phase \cup {"NONE"}, applied_count : 0 .. Count, entries : Seq(Entry)]
  BY <1>0 DEF TypeInv, Artifacts, Artifact
<1>4a. /\ pc \in Active \ Marking => IsOpen(file) /\ file.entries = art.entries
       /\ ~IsOpen(NoArtifact)
  BY <1>0 DEF FileInv, Active, NoArtifact, IsOpen, Phase
<1>m. ASSUME PutNext \/ Forward, Makes(art.entries[art.applied_count + 1]),
             art.applied_count + 1 \in 1 .. Count, Len(art.entries) = Count,
             pc \in {"put", "forward"}, pc' = IF pc = "put" THEN "saveApplied" ELSE "saveForwarded",
             art' = [art EXCEPT !.applied_count = @ + 1, !.phase = "APPLYING"], touched' = touched
      PROVE  OpenInv'
  <2>1. file' = file /\ IsOpen(file) /\ file.entries = art.entries
    BY <1>0, <1>m DEF PutNext, Forward, FileInv, Preparing, Active, Onward, Applying, Marking,
       Scanning, Forwarding, Undoing
  <2> QED BY <1>0, <1>m, <2>1, MakesOne
<1>r. ASSUME Undo, Reverts(art.entries[art.applied_count]), art.applied_count \in 1 .. Count,
             Len(art.entries) = Count, pc = "undo", pc' = "saveUndone",
             art' = [art EXCEPT !.applied_count = @ - 1], touched' = touched
      PROVE  OpenInv'
  <2>1. file' = file /\ IsOpen(file) /\ file.entries = art.entries
    BY <1>0, <1>r DEF Undo, FileInv, Preparing, Active, Onward, Applying, Marking, Scanning,
       Forwarding, Undoing
  <2> QED BY <1>0, <1>r, <2>1, RevertsOne
<1>x. ASSUME NEW k \in Key, NEW v \in PutValues, ExternalPut(k, v)
      PROVE  OpenInv'
  <2>1. file' = file
    BY <1>x DEF ExternalPut
  <2>2. IsOpen(file) => Len(file.entries) = Count
    BY <1>0 DEF CountInv, IsOpen, Phase
  <2> QED BY <1>0, <1>2a, <1>x, <2>1, <2>2, ExternalPutKeeps
<1>s. SUFFICES ASSUME store' = store, touched' = touched PROVE OpenInv'
  BY <1>0, <1>m, <1>r, <1>x, StoreChanges
<1>1. CASE Prepare
  BY <1>1, <1>0, <1>s, <1>4a DEF Prepare, Goto, GiveUp
<1>2. CASE SavePrepared
  <2>1. pc = "savePrepared" /\ Len(art.entries) = Count
    BY <1>2, <1>0 DEF SavePrepared, Save, CountInv
  <2>2. \A i \in 1 .. Count : Reverted(store, touched, art.entries[i])
    BY <1>0, <1>2a, <2>1, UnmadeReverted DEF UnmadeInv, Preparing
  <2>3. file' = file \/ file' = art
    BY <1>2 DEF SavePrepared, Save, WriteArtifact, FileFails, GiveUp, Goto
  <2> QED BY <1>0, <1>s, <2>2, <2>3
<1>3. CASE Check
  BY <1>3, <1>0, <1>s, <1>4a DEF Check, StartRollback, Goto
<1>4. CASE PutNext
  BY <1>4, <1>0, <1>s, <1>4a DEF PutNext, StartRollback, Goto
<1>5. CASE SaveApplied
  BY <1>5, <1>0, <1>s, <1>4a DEF SaveApplied, Save, WriteArtifact, FileFails, GiveUp, Goto,
     Preparing, Active, Onward, Applying, Marking, Scanning, Forwarding, Undoing
<1>6. CASE MarkCommitted
  BY <1>6, <1>0, <1>s, <1>4a DEF MarkCommitted, Goto
<1>7. CASE SaveCommitted
  <2>1. art.phase = "COMMITTED"
    BY <1>7, <1>0 DEF SaveCommitted, PhaseInv
  <2> QED BY <1>7, <1>0, <1>s, <2>1 DEF SaveCommitted, WriteArtifact, FileFails, GiveUp, Succeed,
     IsOpen, Terminal
<1>8. CASE ScanTarget
  BY <1>8, <1>0, <1>s, <1>4a DEF ScanTarget, Goto
<1>9. CASE ScanRest
  BY <1>9, <1>0, <1>s, <1>4a DEF ScanRest, GiveUp
<1>10. CASE ScanDone
  BY <1>10, <1>0, <1>s, <1>4a DEF ScanDone, Goto
<1>11. CASE SaveForward
  BY <1>11, <1>0, <1>s, <1>4a DEF SaveForward, ForwardLabel, Save, WriteArtifact, FileFails,
     GiveUp, Goto, Preparing, Active, Onward, Applying, Marking, Scanning, Forwarding, Undoing
<1>12. CASE Forward
  BY <1>12, <1>0, <1>s, <1>4a DEF Forward, GiveUp, Goto
<1>13. CASE SaveForwarded
  BY <1>13, <1>0, <1>s, <1>4a DEF SaveForwarded, ForwardLabel, Save, WriteArtifact, FileFails,
     GiveUp, Goto, Preparing, Active, Onward, Applying, Marking, Scanning, Forwarding, Undoing
<1>14. CASE SaveRollingBack
  BY <1>14, <1>0, <1>s, <1>4a DEF SaveRollingBack, UndoLabel, Save, WriteArtifact, FileFails,
     GiveUp, Goto, Preparing, Active, Onward, Applying, Marking, Scanning, Forwarding, Undoing
<1>15. CASE UndoCheck
  BY <1>15, <1>0, <1>s, <1>4a DEF UndoCheck, GiveUp, Goto
<1>16. CASE Undo
  BY <1>16, <1>0, <1>s, <1>4a DEF Undo, GiveUp, Goto
<1>17. CASE SaveUndone
  BY <1>17, <1>0, <1>s, <1>4a DEF SaveUndone, UndoLabel, Save, WriteArtifact, FileFails, GiveUp,
     Goto, Preparing, Active, Onward, Applying, Marking, Scanning, Forwarding, Undoing
<1>18. CASE MarkRolledBack
  BY <1>18, <1>0, <1>s, <1>4a DEF MarkRolledBack, Goto
<1>19. CASE SaveRolledBack
  BY <1>19, <1>0, <1>s, <1>4a DEF SaveRolledBack, WriteArtifact, FileFails, GiveUp, Succeed,
     Preparing, Active, Onward, Applying, Marking, Scanning, Forwarding, Undoing
<1>20. CASE Finalize
  BY <1>20, <1>0, <1>s, <1>4a DEF Finalize, FinalizeFails, FileFails, Forget, Goto
<1>21. CASE Rename
  BY <1>21, <1>0, <1>s, <1>4a DEF Rename, FinalizeFails, FileFails, Goto
<1>22. CASE Crash
  BY <1>22, <1>0, <1>s, <1>4a DEF Crash, Forget
<1>23. CASE Restart
  BY <1>23, <1>0, <1>s, <1>4a DEF Restart, RecoverArtifacts, Goto
<1>24. CASE Resubmit
  BY <1>24, <1>0, <1>s, <1>4a DEF Resubmit, Goto
<1>25. ASSUME NEW k \in Key, NEW v \in PutValues, ExternalPut(k, v)
      PROVE  OpenInv'
  BY <1>25, <1>x
<1>26. CASE UNCHANGED vars
  BY <1>26, <1>0, <1>s, <1>4a DEF vars
<1> QED
  BY <1>1, <1>2, <1>3, <1>4, <1>5, <1>6, <1>7, <1>8, <1>9, <1>10, <1>11, <1>12, <1>13, <1>14,
     <1>15, <1>16, <1>17, <1>18, <1>19, <1>20, <1>21, <1>22, <1>23, <1>24, <1>25, <1>26
  DEF Next, CommitStep, RecoveryStep

\* Every step keeps the committed artifacts complete.
LEMMA CommittedStep == IInv /\ [Next]_vars => CommittedInv'
<1> SUFFICES ASSUME IInv, [Next]_vars PROVE CommittedInv'
  OBVIOUS
<1> USE DEF frame, memory, history, bounds
<1>0. /\ TypeInv /\ CountInv /\ PhaseInv /\ FileInv /\ PinInv /\ MadeInv /\ CommittedInv
      /\ NewerInv
  BY DEF IInv
<1>2a. art \in Artifacts /\ file \in Artifacts /\ archive \in Artifacts
  BY <1>0 DEF TypeInv
<1>3a. \A a \in {file, archive} : a.phase = "COMMITTED" => Complete(a) /\ Len(a.entries) = Count
  BY <1>0 DEF CommittedInv, CountInv
<1>4a. ASSUME pc \in {"put", "forward", "undo"}, Len(art.entries) = Count,
              NEW j \in 1 .. Count, Makes(art.entries[j]) \/ Reverts(art.entries[j]),
              file' = file, archive' = archive
       PROVE  CommittedInv'
  <2>1. file.phase # "COMMITTED"
    BY <1>0, <1>4a DEF FileInv, IsOpen, Terminal, Preparing, Active, Onward, Applying, Marking,
       Scanning, Forwarding, Undoing
  <2> SUFFICES ASSUME archive.phase = "COMMITTED"
               PROVE  \A i \in 1 .. Count : HasTarget(i, archive.entries[i].expected_version)'
    BY <1>4a, <2>1 DEF CommittedInv, Complete
  <2>2. PICK c \in Artifacts : c = archive
    BY <1>2a
  <2>3. Newer(art, c)
    BY <1>0, <1>4a, <2>2 DEF NewerInv, Preparing, Active, Onward, Applying, Marking, Scanning,
       Forwarding, Undoing  <2>4. \A i \in 1 .. Count : HasTarget(i,
       c.entries[i].expected_version)'
    BY <1>0, <1>3a, <1>4a, <2>2, <2>3, CompleteKept
  <2> QED BY <1>4a, <2>2, <2>4 DEF HasTarget
<1>m. ASSUME PutNext \/ Forward, Makes(art.entries[art.applied_count + 1]),
             art.applied_count + 1 \in 1 .. Count, Len(art.entries) = Count,
             pc \in {"put", "forward"}, pc' = IF pc = "put" THEN "saveApplied" ELSE "saveForwarded",
             art' = [art EXCEPT !.applied_count = @ + 1, !.phase = "APPLYING"], touched' = touched
      PROVE  CommittedInv'
  BY <1>4a, <1>m DEF PutNext, Forward
<1>r. ASSUME Undo, Reverts(art.entries[art.applied_count]), art.applied_count \in 1 .. Count,
             Len(art.entries) = Count, pc = "undo", pc' = "saveUndone",
             art' = [art EXCEPT !.applied_count = @ - 1], touched' = touched
      PROVE  CommittedInv'
  BY <1>4a, <1>r DEF Undo
<1>x. ASSUME NEW k \in Key, NEW v \in PutValues, ExternalPut(k, v)
      PROVE  CommittedInv'
  <2>1. file' = file /\ archive' = archive
    BY <1>x DEF ExternalPut
  <2>2. ASSUME NEW i \in 1 .. Count, NEW n \in Nat, HasTarget(i, n)
        PROVE  HasTarget(i, n)'
    <3>1. \/ store'[Writes[i].key] = store[Writes[i].key]
          \/ store'[Writes[i].key].version = store[Writes[i].key].version + 1
      BY <1>0, <1>x, WritesFacts, ExternalPutKeys
    <3>2. store[Writes[i].key].version > n /\ store[Writes[i].key].version \in Nat
      BY <1>0, <2>2, HasTargetVersion
    <3> QED BY <1>0, <2>2, <3>1, <3>2, HasTargetKept
  <2>3. ASSUME NEW c \in Artifacts, Complete(c), Len(c.entries) = Count
        PROVE  \A i \in 1 .. Count : HasTarget(i, c.entries[i].expected_version)'
    BY <2>2, <2>3, ArtifactFacts DEF Complete
  <2>4. PICK c \in Artifacts, d \in Artifacts : c = file /\ d = archive
    BY <1>2a
  <2>5. c.phase = "COMMITTED" => \A i \in 1 .. Count : HasTarget(i, c.entries[i].expected_version)'
    BY <1>3a, <2>3, <2>4
  <2>6. d.phase = "COMMITTED" => \A i \in 1 .. Count : HasTarget(i, d.entries[i].expected_version)'
    BY <1>3a, <2>3, <2>4
  <2> QED BY <2>1, <2>4, <2>5, <2>6 DEF CommittedInv, Complete, HasTarget
<1>s. SUFFICES ASSUME store' = store, touched' = touched PROVE CommittedInv'
  BY <1>0, <1>m, <1>r, <1>x, StoreChanges
<1>5a. ASSUME archive' \in {archive, NoArtifact, file}, file' \in {file, NoArtifact}
       PROVE  CommittedInv'
  BY <1>0, <1>s, <1>5a DEF CommittedInv, Complete, HasTarget, NoArtifact
<1>6a. ASSUME archive' = archive, file' = art,
              art.phase = "COMMITTED" => \A i \in 1 .. Count : Made(store, touched, art.entries[i]),
              art.phase = "COMMITTED" => Len(art.entries) = Count
       PROVE  CommittedInv'
  <2>1. art.phase = "COMMITTED" => Complete(art)
    BY <1>0, <1>2a, <1>6a, MadeHasTarget DEF Complete
  <2> QED BY <1>0, <1>s, <1>6a, <2>1 DEF CommittedInv, Complete, HasTarget
<1>1. CASE Prepare
  BY <1>1, <1>5a DEF Prepare, Goto, GiveUp
<1>2. CASE SavePrepared
  <2>1. pc = "savePrepared" /\ art.phase = "PREPARED"
    BY <1>2, <1>0 DEF SavePrepared, Save, PhaseInv, Preparing, Undoing
  <2> QED BY <1>2, <1>5a, <1>6a, <2>1 DEF SavePrepared, Save, WriteArtifact, FileFails, GiveUp, Goto
<1>3. CASE Check
  BY <1>3, <1>5a DEF Check, StartRollback, Goto
<1>4. CASE PutNext
  BY <1>4, <1>5a DEF PutNext, StartRollback, Goto
<1>5. CASE SaveApplied
  <2>1. pc = "saveApplied" /\ art.phase = "APPLYING"
    BY <1>5, <1>0 DEF SaveApplied, Save, PhaseInv, Preparing, Undoing
  <2> QED BY <1>5, <1>5a, <1>6a, <2>1 DEF SaveApplied, Save, WriteArtifact, FileFails, GiveUp, Goto
<1>6. CASE MarkCommitted
  BY <1>6, <1>5a DEF MarkCommitted, Goto
<1>7. CASE SaveCommitted
  <2>1. pc = "saveCommitted" /\ Len(art.entries) = Count /\ pc \in Onward
    BY <1>7, <1>0 DEF SaveCommitted, CountInv, Preparing, Active, Onward, Applying, Marking,
       Scanning, Forwarding, Undoing
  <2>2. art.phase = "COMMITTED" => art.applied_count = Count
    BY <1>0, <2>1 DEF PhaseInv, CountInv, Marking
  <2> QED BY <1>7, <1>0, <1>5a, <1>6a, <2>1, <2>2 DEF SaveCommitted, WriteArtifact, FileFails,
     GiveUp, Succeed, MadeInv
<1>8. CASE ScanTarget
  BY <1>8, <1>5a DEF ScanTarget, Goto
<1>9. CASE ScanRest
  BY <1>9, <1>5a DEF ScanRest, GiveUp
<1>10. CASE ScanDone
  BY <1>10, <1>5a DEF ScanDone, Goto
<1>11. CASE SaveForward
  <2>1. pc = "saveForward" /\ Len(art.entries) = Count /\ pc \in Onward
    BY <1>11, <1>0 DEF SaveForward, Save, CountInv, Preparing, Active, Onward, Applying, Marking,
       Scanning, Forwarding, Undoing
  <2>2. art.phase = "COMMITTED" => art.applied_count = Count
    BY <1>0, <2>1 DEF PhaseInv, CountInv, Marking
  <2> QED BY <1>11, <1>0, <1>5a, <1>6a, <2>1, <2>2 DEF SaveForward, ForwardLabel, Save,
     WriteArtifact, FileFails, GiveUp, Goto, MadeInv
<1>12. CASE Forward
  BY <1>12, <1>5a DEF Forward, GiveUp, Goto
<1>13. CASE SaveForwarded
  <2>1. pc = "saveForwarded" /\ art.phase = "APPLYING"
    BY <1>13, <1>0 DEF SaveForwarded, Save, PhaseInv, Preparing, Undoing
  <2> QED BY <1>13, <1>5a, <1>6a, <2>1 DEF SaveForwarded, ForwardLabel, Save, WriteArtifact,
     FileFails, GiveUp, Goto
<1>14. CASE SaveRollingBack
  <2>1. pc = "saveRollingBack" /\ art.phase = "ROLLING_BACK"
    BY <1>14, <1>0 DEF SaveRollingBack, Save, PhaseInv, Preparing, Undoing
  <2> QED BY <1>14, <1>5a, <1>6a, <2>1 DEF SaveRollingBack, UndoLabel, Save, WriteArtifact,
     FileFails, GiveUp, Goto
<1>15. CASE UndoCheck
  BY <1>15, <1>5a DEF UndoCheck, GiveUp, Goto
<1>16. CASE Undo
  BY <1>16, <1>5a DEF Undo, GiveUp, Goto
<1>17. CASE SaveUndone
  <2>1. pc = "saveUndone" /\ art.phase = "ROLLING_BACK"
    BY <1>17, <1>0 DEF SaveUndone, Save, PhaseInv, Preparing, Undoing
  <2> QED BY <1>17, <1>5a, <1>6a, <2>1 DEF SaveUndone, UndoLabel, Save, WriteArtifact, FileFails,
     GiveUp, Goto
<1>18. CASE MarkRolledBack
  BY <1>18, <1>5a DEF MarkRolledBack, Goto
<1>19. CASE SaveRolledBack
  <2>1. pc = "saveRolledBack" /\ art.phase = "ROLLED_BACK"
    BY <1>19, <1>0 DEF SaveRolledBack, PhaseInv, Preparing, Undoing
  <2> QED BY <1>19, <1>5a, <1>6a, <2>1 DEF SaveRolledBack, WriteArtifact, FileFails, GiveUp, Succeed
<1>20. CASE Finalize
  BY <1>20, <1>5a DEF Finalize, FinalizeFails, FileFails, Forget, Goto
<1>21. CASE Rename
  BY <1>21, <1>5a DEF Rename, FinalizeFails, FileFails, Goto
<1>22. CASE Crash
  BY <1>22, <1>5a DEF Crash, Forget
<1>23. CASE Restart
  BY <1>23, <1>5a DEF Restart, RecoverArtifacts, Goto
<1>24. CASE Resubmit
  BY <1>24, <1>5a DEF Resubmit, Goto
<1>25. ASSUME NEW k \in Key, NEW v \in PutValues, ExternalPut(k, v)
      PROVE  CommittedInv'
  BY <1>25, <1>x
<1>26. CASE UNCHANGED vars
  BY <1>26, <1>5a DEF vars
<1> QED
  BY <1>1, <1>2, <1>3, <1>4, <1>5, <1>6, <1>7, <1>8, <1>9, <1>10, <1>11, <1>12, <1>13, <1>14,
     <1>15, <1>16, <1>17, <1>18, <1>19, <1>20, <1>21, <1>22, <1>23, <1>24, <1>25, <1>26
  DEF Next, CommitStep, RecoveryStep

\* Every step keeps the versions that the commit expects.
LEMMA BasedStep == IInv /\ [Next]_vars => BasedInv'
<1> SUFFICES ASSUME IInv, [Next]_vars PROVE BasedInv'
  OBVIOUS
<1> USE DEF frame, memory, history, bounds, BasedInv
<1>0. TypeInv /\ CountInv /\ PhaseInv /\ BasedInv
  BY DEF IInv

<1>3a. art \in [phase : Phase \cup {"NONE"}, applied_count : 0 .. Count, entries : Seq(Entry)]
  BY <1>0 DEF TypeInv, Artifacts, Artifact
<1>4a. base' = base => \A i : Expected(i)' = Expected(i)
  BY DEF Expected
<1>1. CASE Prepare
  <2> DEFINE n == Len(art.entries)
             w == Writes[n + 1].key
  <2>1. pc = "prepare" /\ n \in Nat /\ base' = base /\ recovering' = recovering
    BY <1>1, <1>0, ArtifactFacts DEF Prepare, TypeInv
  <2>2. CASE art' = art /\ GiveUp
    BY <1>0, <1>4a, <2>1, <2>2 DEF GiveUp, Preparing, Active, Onward, Applying, Marking, Scanning,
       Forwarding, Undoing
  <2>3. CASE /\ Len(art'.entries) = n + 1
             /\ art'.entries[n + 1] = EntryFor(n + 1, store[w])
             /\ \A i \in 1 .. n : art'.entries[i] = art.entries[i]
    <3> SUFFICES ASSUME ~recovering, NEW i \in 1 .. n + 1
                 PROVE  art'.entries[i].expected_version = Expected(i)
      BY <1>4a, <2>1, <2>3
    <3>1. art'.entries[n + 1].expected_version = Expected(n + 1)
      BY <2>3 DEF EntryFor
    <3>2. \A j \in 1 .. n : art.entries[j].expected_version = Expected(j)
      BY <1>0, <2>1 DEF Preparing
    <3> QED BY <2>1, <2>3, <3>1, <3>2
  <2> QED BY <1>1, <1>0, <2>2, <2>3, PrepareEffect
<1>2. CASE SavePrepared
  BY <1>2, <1>0, <1>3a, <1>4a DEF SavePrepared, Save, WriteArtifact, FileFails, GiveUp, Goto,
     Preparing, Active, Onward, Applying, Marking, Scanning, Forwarding, Undoing
<1>3. CASE Check
  BY <1>3, <1>0, <1>3a, <1>4a DEF Check, StartRollback, Goto, Preparing, Active, Onward, Applying,
     Marking, Scanning, Forwarding, Undoing
<1>4. CASE PutNext
  BY <1>4, <1>0, <1>3a, <1>4a DEF PutNext, StartRollback, Goto, Preparing, Active, Onward,
     Applying, Marking, Scanning, Forwarding, Undoing
<1>5. CASE SaveApplied
  BY <1>5, <1>0, <1>3a, <1>4a DEF SaveApplied, Save, WriteArtifact, FileFails, GiveUp, Goto,
     Preparing, Active, Onward, Applying, Marking, Scanning, Forwarding, Undoing
<1>6. CASE MarkCommitted
  BY <1>6, <1>0, <1>3a, <1>4a DEF MarkCommitted, Goto, Preparing, Active, Onward, Applying,
     Marking, Scanning, Forwarding, Undoing
<1>7. CASE SaveCommitted
  BY <1>7, <1>0, <1>3a, <1>4a DEF SaveCommitted, WriteArtifact, FileFails, GiveUp, Succeed,
     Preparing, Active, Onward, Applying, Marking, Scanning, Forwarding, Undoing
<1>8. CASE ScanTarget
  BY <1>8, <1>0, <1>3a, <1>4a DEF ScanTarget, Goto, Preparing, Active, Onward, Applying, Marking,
     Scanning, Forwarding, Undoing
<1>9. CASE ScanRest
  BY <1>9, <1>0, <1>3a, <1>4a DEF ScanRest, GiveUp, Preparing, Active, Onward, Applying, Marking,
     Scanning, Forwarding, Undoing
<1>10. CASE ScanDone
  BY <1>10, <1>0, <1>3a, <1>4a DEF ScanDone, Goto, Preparing, Active, Onward, Applying, Marking,
     Scanning, Forwarding, Undoing
<1>11. CASE SaveForward
  BY <1>11, <1>0, <1>3a, <1>4a DEF SaveForward, ForwardLabel, Save, WriteArtifact, FileFails,
     GiveUp, Goto, Preparing, Active, Onward, Applying, Marking, Scanning, Forwarding, Undoing
<1>12. CASE Forward
  BY <1>12, <1>0, <1>3a, <1>4a DEF Forward, GiveUp, Goto, Preparing, Active, Onward, Applying,
     Marking, Scanning, Forwarding, Undoing
<1>13. CASE SaveForwarded
  BY <1>13, <1>0, <1>3a, <1>4a DEF SaveForwarded, ForwardLabel, Save, WriteArtifact, FileFails,
     GiveUp, Goto, Preparing, Active, Onward, Applying, Marking, Scanning, Forwarding, Undoing
<1>14. CASE SaveRollingBack
  BY <1>14, <1>0, <1>3a, <1>4a DEF SaveRollingBack, UndoLabel, Save, WriteArtifact, FileFails,
     GiveUp, Goto, Preparing, Active, Onward, Applying, Marking, Scanning, Forwarding, Undoing
<1>15. CASE UndoCheck
  BY <1>15, <1>0, <1>3a, <1>4a DEF UndoCheck, GiveUp, Goto, Preparing, Active, Onward, Applying,
     Marking, Scanning, Forwarding, Undoing
<1>16. CASE Undo
  BY <1>16, <1>0, <1>3a, <1>4a DEF Undo, GiveUp, Goto, Preparing, Active, Onward, Applying,
     Marking, Scanning, Forwarding, Undoing
<1>17. CASE SaveUndone
  BY <1>17, <1>0, <1>3a, <1>4a DEF SaveUndone, UndoLabel, Save, WriteArtifact, FileFails, GiveUp,
     Goto, Preparing, Active, Onward, Applying, Marking, Scanning, Forwarding, Undoing
<1>18. CASE MarkRolledBack
  BY <1>18, <1>0, <1>3a, <1>4a DEF MarkRolledBack, Goto, Preparing, Active, Onward, Applying,
     Marking, Scanning, Forwarding, Undoing
<1>19. CASE SaveRolledBack
  BY <1>19, <1>0, <1>3a, <1>4a DEF SaveRolledBack, WriteArtifact, FileFails, GiveUp, Succeed,
     Preparing, Active, Onward, Applying, Marking, Scanning, Forwarding, Undoing
<1>20. CASE Finalize
  BY <1>20, <1>0, <1>3a, <1>4a DEF Finalize, FinalizeFails, FileFails, Forget, Goto, Preparing,
     Active, Onward, Applying, Marking, Scanning, Forwarding, Undoing
<1>21. CASE Rename
  BY <1>21, <1>0, <1>3a, <1>4a DEF Rename, FinalizeFails, FileFails, Goto, Preparing, Active,
     Onward, Applying, Marking, Scanning, Forwarding, Undoing
<1>22. CASE Crash
  BY <1>22, <1>0, <1>3a, <1>4a DEF Crash, Forget, Preparing, Active, Onward, Applying, Marking,
     Scanning, Forwarding, Undoing
<1>23. CASE Restart
  BY <1>23, <1>0, <1>3a, <1>4a DEF Restart, RecoverArtifacts, Goto, Preparing, Active, Onward,
     Applying, Marking, Scanning, Forwarding, Undoing
<1>24. CASE Resubmit
  <2>1. Len(art'.entries) = 0
    BY <1>24 DEF Resubmit, NewArtifact
  <2> QED BY <2>1
<1>25. ASSUME NEW k \in Key, NEW v \in PutValues, ExternalPut(k, v)
      PROVE  BasedInv'
  BY <1>25, <1>0, <1>3a, <1>4a DEF ExternalPut, Preparing, Active, Onward, Applying, Marking,
     Scanning, Forwarding, Undoing
<1>26. CASE UNCHANGED vars
  BY <1>26, <1>0, <1>3a, <1>4a DEF vars, Preparing, Active, Onward, Applying, Marking, Scanning,
     Forwarding, Undoing
<1> QED
  BY <1>1, <1>2, <1>3, <1>4, <1>5, <1>6, <1>7, <1>8, <1>9, <1>10, <1>11, <1>12, <1>13, <1>14,
     <1>15, <1>16, <1>17, <1>18, <1>19, <1>20, <1>21, <1>22, <1>23, <1>24, <1>25, <1>26
  DEF Next, CommitStep, RecoveryStep

\* Every step keeps the order of the submissions.
LEMMA NewerStep == IInv /\ [Next]_vars => NewerInv'
<1> SUFFICES ASSUME IInv, [Next]_vars PROVE NewerInv'
  OBVIOUS
<1> USE DEF frame, memory, history, bounds, NewerInv
<1>0. TypeInv /\ CountInv /\ PhaseInv /\ FileInv /\ CommittedInv /\ NewerInv
  BY DEF IInv

<1>3a. art \in [phase : Phase \cup {"NONE"}, applied_count : 0 .. Count, entries : Seq(Entry)]
  BY <1>0 DEF TypeInv, Artifacts, Artifact
<1>4a. NoArtifact.phase = "NONE" /\ ~IsOpen(NoArtifact)
  BY DEF NoArtifact, IsOpen, Phase
<1>5a. \A a, b, c : a.entries = b.entries => (Newer(a, c) <=> Newer(b, c))
  BY DEF Newer
<1>1. CASE Prepare
  <2> DEFINE n == Len(art.entries)
             w == Writes[n + 1].key
  <2>1. pc = "prepare" /\ n \in Nat /\ archive' = archive /\ file' = file
    BY <1>1, <1>0, ArtifactFacts DEF Prepare, TypeInv
  <2>2. CASE art' = art /\ GiveUp
    BY <1>0, <2>1, <2>2 DEF GiveUp, Preparing, Active, Onward, Applying, Marking, Scanning,
       Forwarding, Undoing
  <2>3. CASE /\ n + 1 \in 1 .. Count /\ w \in Key /\ VersionIs(store, w, Expected(n + 1))
             /\ Len(art'.entries) = n + 1
             /\ art'.entries[n + 1] = EntryFor(n + 1, store[w])
             /\ \A i \in 1 .. n : art'.entries[i] = art.entries[i]
    <3> SUFFICES ASSUME archive.phase = "COMMITTED" PROVE Newer(art', archive)
      BY <1>0, <2>1
    <3>1. art'.entries[n + 1].expected_version = store[w].version
      BY <2>3 DEF EntryFor, VersionIs
    <3>2. Complete(archive) /\ Len(archive.entries) = Count /\ archive \in Artifacts
      BY <1>0 DEF CommittedInv, CountInv, TypeInv
    <3>3. store[w].version > archive.entries[n + 1].expected_version
      BY <1>0, <2>3, <3>2, ArtifactFacts, HasTargetVersion DEF Complete
    <3>4. \A j \in 1 .. n : art.entries[j].expected_version > archive.entries[j].expected_version
      BY <1>0, <2>1 DEF Preparing, Newer
    <3>5. \A i \in 1 .. n + 1 : art'.entries[i].expected_version > archive.entries[i].expected_version
      <4> SUFFICES ASSUME NEW i \in 1 .. n + 1
                   PROVE  art'.entries[i].expected_version > archive.entries[i].expected_version
        OBVIOUS
      <4>1. i = n + 1 \/ i \in 1 .. n
        BY <2>1
      <4> QED BY <2>3, <3>1, <3>3, <3>4, <4>1
    <3> QED BY <2>3, <3>5 DEF Newer
  <2> QED BY <1>1, <1>0, <2>2, <2>3, PrepareEffect
<1>2. CASE SavePrepared
  BY <1>2, <1>0, <1>3a, <1>5a DEF SavePrepared, Save, WriteArtifact, FileFails, GiveUp, Goto,
     Preparing, Active, Onward, Applying, Marking, Scanning, Forwarding, Undoing
<1>3. CASE Check
  BY <1>3, <1>0, <1>3a, <1>5a DEF Check, StartRollback, Goto, Preparing, Active, Onward, Applying,
     Marking, Scanning, Forwarding, Undoing
<1>4. CASE PutNext
  BY <1>4, <1>0, <1>3a, <1>5a DEF PutNext, StartRollback, Goto, Preparing, Active, Onward,
     Applying, Marking, Scanning, Forwarding, Undoing
<1>5. CASE SaveApplied
  BY <1>5, <1>0, <1>3a, <1>5a DEF SaveApplied, Save, WriteArtifact, FileFails, GiveUp, Goto,
     Preparing, Active, Onward, Applying, Marking, Scanning, Forwarding, Undoing
<1>6. CASE MarkCommitted
  BY <1>6, <1>0, <1>3a, <1>5a DEF MarkCommitted, Goto, Preparing, Active, Onward, Applying,
     Marking, Scanning, Forwarding, Undoing
<1>7. CASE SaveCommitted
  BY <1>7, <1>0, <1>3a, <1>5a DEF SaveCommitted, WriteArtifact, FileFails, GiveUp, Succeed,
     Preparing, Active, Onward, Applying, Marking, Scanning, Forwarding, Undoing
<1>8. CASE ScanTarget
  BY <1>8, <1>0, <1>3a, <1>5a DEF ScanTarget, Goto, Preparing, Active, Onward, Applying, Marking,
     Scanning, Forwarding, Undoing
<1>9. CASE ScanRest
  BY <1>9, <1>0, <1>3a, <1>5a DEF ScanRest, GiveUp, Preparing, Active, Onward, Applying, Marking,
     Scanning, Forwarding, Undoing
<1>10. CASE ScanDone
  BY <1>10, <1>0, <1>3a, <1>5a DEF ScanDone, Goto, Preparing, Active, Onward, Applying, Marking,
     Scanning, Forwarding, Undoing
<1>11. CASE SaveForward
  BY <1>11, <1>0, <1>3a, <1>5a DEF SaveForward, ForwardLabel, Save, WriteArtifact, FileFails,
     GiveUp, Goto, Preparing, Active, Onward, Applying, Marking, Scanning, Forwarding, Undoing
<1>12. CASE Forward
  BY <1>12, <1>0, <1>3a, <1>5a DEF Forward, GiveUp, Goto, Preparing, Active, Onward, Applying,
     Marking, Scanning, Forwarding, Undoing
<1>13. CASE SaveForwarded
  BY <1>13, <1>0, <1>3a, <1>5a DEF SaveForwarded, ForwardLabel, Save, WriteArtifact, FileFails,
     GiveUp, Goto, Preparing, Active, Onward, Applying, Marking, Scanning, Forwarding, Undoing
<1>14. CASE SaveRollingBack
  BY <1>14, <1>0, <1>3a, <1>5a DEF SaveRollingBack, UndoLabel, Save, WriteArtifact, FileFails,
     GiveUp, Goto, Preparing, Active, Onward, Applying, Marking, Scanning, Forwarding, Undoing
<1>15. CASE UndoCheck
  BY <1>15, <1>0, <1>3a, <1>5a DEF UndoCheck, GiveUp, Goto, Preparing, Active, Onward, Applying,
     Marking, Scanning, Forwarding, Undoing
<1>16. CASE Undo
  BY <1>16, <1>0, <1>3a, <1>5a DEF Undo, GiveUp, Goto, Preparing, Active, Onward, Applying,
     Marking, Scanning, Forwarding, Undoing
<1>17. CASE SaveUndone
  BY <1>17, <1>0, <1>3a, <1>5a DEF SaveUndone, UndoLabel, Save, WriteArtifact, FileFails, GiveUp,
     Goto, Preparing, Active, Onward, Applying, Marking, Scanning, Forwarding, Undoing
<1>18. CASE MarkRolledBack
  BY <1>18, <1>0, <1>3a, <1>5a DEF MarkRolledBack, Goto, Preparing, Active, Onward, Applying,
     Marking, Scanning, Forwarding, Undoing
<1>19. CASE SaveRolledBack
  BY <1>19, <1>0, <1>3a, <1>5a DEF SaveRolledBack, WriteArtifact, FileFails, GiveUp, Succeed,
     Preparing, Active, Onward, Applying, Marking, Scanning, Forwarding, Undoing
<1>20. CASE Finalize
  <2>1. /\ archive' \in {NoArtifact, archive} /\ file' \in {NoArtifact, file}
        /\ pc' \in {"done", "rename", "failed"}
    BY <1>20 DEF Finalize, FinalizeFails, FileFails, Forget, Goto
  <2> QED BY <1>0, <1>4a, <2>1 DEF Preparing, Active, Onward, Applying, Marking, Scanning,
     Forwarding, Undoing
<1>21. CASE Rename
  <2>1. CASE archive' = archive /\ file' = file /\ pc' \in {"done", "failed"}
    BY <1>0, <2>1 DEF Preparing, Active, Onward, Applying, Marking, Scanning, Forwarding, Undoing
  <2>2. CASE file' = NoArtifact /\ pc' = "done"
    BY <1>4a, <2>2 DEF Preparing, Active, Onward, Applying, Marking, Scanning, Forwarding, Undoing
  <2> QED BY <1>21, <2>1, <2>2 DEF Rename, FinalizeFails, FileFails, Goto
<1>22. CASE Crash
  BY <1>22, <1>0, <1>3a, <1>5a DEF Crash, Forget, Preparing, Active, Onward, Applying, Marking,
     Scanning, Forwarding, Undoing
<1>23. CASE Restart
  BY <1>23, <1>0, <1>3a, <1>5a DEF Restart, RecoverArtifacts, Goto, Preparing, Active, Onward,
     Applying, Marking, Scanning, Forwarding, Undoing
<1>24. CASE Resubmit
  <2>1. Len(art'.entries) = 0 /\ archive' = archive /\ file' = file
    BY <1>24 DEF Resubmit, NewArtifact
  <2> QED BY <1>0, <2>1 DEF Newer
<1>25. ASSUME NEW k \in Key, NEW v \in PutValues, ExternalPut(k, v)
      PROVE  NewerInv'
  BY <1>25, <1>0, <1>3a, <1>5a DEF ExternalPut
<1>26. CASE UNCHANGED vars
  BY <1>26, <1>0, <1>3a, <1>5a DEF vars, Preparing, Active, Onward, Applying, Marking, Scanning,
     Forwarding, Undoing
<1> QED
  BY <1>1, <1>2, <1>3, <1>4, <1>5, <1>6, <1>7, <1>8, <1>9, <1>10, <1>11, <1>12, <1>13, <1>14,
     <1>15, <1>16, <1>17, <1>18, <1>19, <1>20, <1>21, <1>22, <1>23, <1>24, <1>25, <1>26
  DEF Next, CommitStep, RecoveryStep

\* Every step keeps what a task was told.
LEMMA AckStep == IInv /\ [Next]_vars => AckInv'
<1> SUFFICES ASSUME IInv, [Next]_vars PROVE AckInv'
  OBVIOUS
<1> USE DEF frame, memory, history, bounds
<1>0. TypeInv /\ CountInv /\ PhaseInv /\ FileInv /\ PinInv /\ MadeInv /\ AckInv /\ BasedInv
  BY DEF IInv
<1>4a. pc \notin Quiet => outcome # "committed"
  BY <1>0 DEF AckInv
<1>5a. ASSUME store' = store, base' = base, pc' \in Quiet, file' \in {file, NoArtifact},
              outcome' = outcome \/ outcome' # "committed"
       PROVE  AckInv'
  <2>1. \A i : Expected(i)' = Expected(i)
    BY <1>5a DEF Expected
  <2> QED BY <1>0, <1>5a, <2>1 DEF AckInv, HasTarget, IsOpen, NoArtifact, Phase
<1>6a. ASSUME outcome' = outcome \/ outcome' # "committed", pc \notin Quiet
       PROVE  AckInv'
  BY <1>4a, <1>6a DEF AckInv
<1>1. CASE Prepare
  BY <1>1, <1>6a DEF Prepare, Goto, GiveUp, Quiet
<1>2. CASE SavePrepared
  BY <1>2, <1>6a DEF SavePrepared, Save, WriteArtifact, FileFails, GiveUp, Goto, Quiet
<1>3. CASE Check
  BY <1>3, <1>6a DEF Check, StartRollback, Goto, Quiet
<1>4. CASE PutNext
  BY <1>4, <1>6a DEF PutNext, StartRollback, Goto, Quiet
<1>5. CASE SaveApplied
  BY <1>5, <1>6a DEF SaveApplied, Save, WriteArtifact, FileFails, GiveUp, Goto, Quiet
<1>6. CASE MarkCommitted
  BY <1>6, <1>6a DEF MarkCommitted, Goto, Quiet
<1>7. CASE SaveCommitted
  <2>1. pc = "saveCommitted" /\ pc \notin Quiet
    BY <1>7 DEF SaveCommitted, Quiet
  <2>2. CASE FileFails /\ GiveUp
    BY <1>6a, <2>1, <2>2 DEF GiveUp
  <2>3. CASE WriteArtifact /\ Succeed /\ recovering
    BY <1>6a, <2>1, <2>3 DEF Succeed
  <2>4. CASE WriteArtifact /\ Succeed /\ ~recovering
    <3>1. pc' = "finalize" /\ file' = art /\ art.phase = "COMMITTED"
      BY <1>0, <2>1, <2>4 DEF WriteArtifact, Succeed, PhaseInv
    <3>2. Len(art.entries) = Count /\ art.applied_count = Count /\ art \in Artifacts
      BY <1>0, <2>1 DEF TypeInv, CountInv, Active, Onward, Marking
    <3>3. \A i \in 1 .. Count : Made(store, touched, art.entries[i])
      BY <1>0, <2>1, <3>2 DEF MadeInv, Onward, Marking
    <3>4. \A i \in 1 .. Count : art.entries[i].expected_version = Expected(i)
      BY <1>0, <2>1, <2>4, <3>2 DEF BasedInv, Active, Onward, Marking
    <3>5. \A i \in 1 .. Count : HasTarget(i, Expected(i))
      BY <1>0, <3>2, <3>3, <3>4, MadeHasTarget
    <3>6. \A i : Expected(i)' = Expected(i)
      BY <1>7 DEF SaveCommitted, Expected
    <3>7. store' = store
      BY <1>7 DEF SaveCommitted
    <3> QED BY <3>1, <3>5, <3>6, <3>7 DEF AckInv, HasTarget, Quiet, IsOpen, Terminal
  <2> QED BY <1>7, <2>2, <2>3, <2>4 DEF SaveCommitted
<1>8. CASE ScanTarget
  BY <1>8, <1>6a DEF ScanTarget, Goto, Quiet
<1>9. CASE ScanRest
  BY <1>9, <1>6a DEF ScanRest, GiveUp, Quiet
<1>10. CASE ScanDone
  BY <1>10, <1>6a DEF ScanDone, Goto, Quiet
<1>11. CASE SaveForward
  BY <1>11, <1>6a DEF SaveForward, ForwardLabel, Save, WriteArtifact, FileFails, GiveUp, Goto, Quiet
<1>12. CASE Forward
  BY <1>12, <1>6a DEF Forward, GiveUp, Goto, Quiet
<1>13. CASE SaveForwarded
  BY <1>13, <1>6a DEF SaveForwarded, ForwardLabel, Save, WriteArtifact, FileFails, GiveUp, Goto,
     Quiet
<1>14. CASE SaveRollingBack
  BY <1>14, <1>6a DEF SaveRollingBack, UndoLabel, Save, WriteArtifact, FileFails, GiveUp, Goto,
     Quiet
<1>15. CASE UndoCheck
  BY <1>15, <1>6a DEF UndoCheck, GiveUp, Goto, Quiet
<1>16. CASE Undo
  BY <1>16, <1>6a DEF Undo, GiveUp, Goto, Quiet
<1>17. CASE SaveUndone
  BY <1>17, <1>6a DEF SaveUndone, UndoLabel, Save, WriteArtifact, FileFails, GiveUp, Goto, Quiet
<1>18. CASE MarkRolledBack
  BY <1>18, <1>6a DEF MarkRolledBack, Goto, Quiet
<1>19. CASE SaveRolledBack
  BY <1>19, <1>6a DEF SaveRolledBack, WriteArtifact, FileFails, GiveUp, Succeed, Quiet
<1>20. CASE Finalize
  BY <1>20, <1>5a DEF Finalize, FinalizeFails, FileFails, Forget, Goto, Quiet
<1>21. CASE Rename
  BY <1>21, <1>5a DEF Rename, FinalizeFails, FileFails, Goto, Quiet
<1>22. CASE Crash
  BY <1>22, <1>5a DEF Crash, Forget, Quiet
<1>23. CASE Restart
  <2>1. CASE pc' \in Quiet
    BY <1>23, <1>5a, <2>1 DEF Restart
  <2>2. CASE pc' \notin Quiet
    <3>1. IsOpen(file) /\ outcome' = outcome
      BY <1>23, <2>2 DEF Restart, RecoverArtifacts, Goto, Quiet
    <3> QED BY <1>0, <3>1 DEF AckInv
  <2> QED BY <2>1, <2>2
<1>24. CASE Resubmit
  BY <1>24 DEF Resubmit, AckInv
<1>25. ASSUME NEW k \in Key, NEW v \in PutValues, ExternalPut(k, v)
      PROVE  AckInv'
  <2> SUFFICES ASSUME outcome = "committed"
               PROVE  \A i \in 1 .. Count : HasTarget(i, Expected(i))'
    BY <1>25, <1>0 DEF ExternalPut, AckInv, IsOpen
  <2>1. \A i : Expected(i)' = Expected(i)
    BY <1>25 DEF ExternalPut, Expected
  <2> SUFFICES ASSUME NEW i \in 1 .. Count PROVE HasTarget(i, Expected(i))'
    OBVIOUS
  <2>2. Expected(i) \in Nat /\ Writes[i].key \in Key /\ HasTarget(i, Expected(i))
    BY <1>0, WritesFacts, VersionedFacts DEF Expected, TypeInv, Store, AckInv
  <2>3. \/ store'[Writes[i].key] = store[Writes[i].key]
        \/ store'[Writes[i].key].version = store[Writes[i].key].version + 1
    BY <1>25, <1>0, <2>2, ExternalPutKeys
  <2>4. store[Writes[i].key].version > Expected(i) /\ store[Writes[i].key].version \in Nat
    BY <1>0, <2>2, HasTargetVersion
  <2>5. PICK n \in Nat : n = Expected(i)
    BY <2>2
  <2>6. HasTarget(i, n)'
    BY <1>0, <2>2, <2>3, <2>4, <2>5, HasTargetKept
  <2> QED BY <2>1, <2>5, <2>6 DEF HasTarget
<1>26. CASE UNCHANGED vars
  <2>1. \A i : Expected(i)' = Expected(i)
    BY <1>26 DEF vars, Expected
  <2> QED BY <1>26, <1>0, <2>1 DEF vars, AckInv, HasTarget, IsOpen
<1> QED
  BY <1>1, <1>2, <1>3, <1>4, <1>5, <1>6, <1>7, <1>8, <1>9, <1>10, <1>11, <1>12, <1>13, <1>14,
     <1>15, <1>16, <1>17, <1>18, <1>19, <1>20, <1>21, <1>22, <1>23, <1>24, <1>25, <1>26
  DEF Next, CommitStep, RecoveryStep

\* What is visible depends on the store at the keys of the task's own writes only.
LEMMA SameVisible ==
    ASSUME origin' = origin, touched' = touched,
           \A i \in Mine : store'[Writes[i].key] = store[Writes[i].key]
    PROVE  AllVisible' = AllVisible /\ NoneVisible' = NoneVisible
BY DEF AllVisible, NoneVisible, Mine

\* Every step keeps the record of how a submission ended.
LEMMA ResolvedStep == IInv /\ [Next]_vars => ResolvedInv'
<1> SUFFICES ASSUME IInv, [Next]_vars PROVE ResolvedInv'
  OBVIOUS
<1> USE DEF frame, memory, history, bounds, ResolvedInv, ResolvedIsKept, Terminal
<1>0. TypeInv /\ CountInv /\ PhaseInv /\ FileInv /\ ResolvedInv
  BY DEF IInv
<1>4a. NoArtifact.phase = "NONE"
  BY DEF NoArtifact
<1>1. CASE Prepare
  BY <1>1, <1>0 DEF Prepare, Goto, GiveUp
<1>2. CASE SavePrepared
  BY <1>2, <1>0 DEF SavePrepared, Save, WriteArtifact, FileFails, GiveUp, Goto, PhaseInv, Preparing
<1>3. CASE Check
  BY <1>3, <1>0 DEF Check, StartRollback, Goto
<1>4. CASE PutNext
  BY <1>4, <1>0 DEF PutNext, StartRollback, Goto
<1>5. CASE SaveApplied
  <2>1. /\ IsOpen(file) /\ art.phase \in {"APPLYING", "ROLLING_BACK", "COMMITTED"}
    BY <1>5, <1>0 DEF SaveApplied, Save, PhaseInv, FileInv, Preparing, Active, Onward, Applying,
       Marking, Scanning, Forwarding, Undoing
  <2>2. resolved # file
    BY <1>0, <1>4a, <2>1 DEF IsOpen, Phase
  <2> QED BY <1>5, <1>0, <2>1, <2>2 DEF SaveApplied, Save, WriteArtifact, FileFails, GiveUp, Goto
<1>6. CASE MarkCommitted
  BY <1>6, <1>0 DEF MarkCommitted, Goto
<1>7. CASE SaveCommitted
  BY <1>7, <1>0 DEF SaveCommitted, WriteArtifact, FileFails, GiveUp, Succeed, PhaseInv, Preparing
<1>8. CASE ScanTarget
  BY <1>8, <1>0 DEF ScanTarget, Goto
<1>9. CASE ScanRest
  BY <1>9, <1>0 DEF ScanRest, GiveUp
<1>10. CASE ScanDone
  BY <1>10, <1>0 DEF ScanDone, Goto
<1>11. CASE SaveForward
  <2>1. /\ IsOpen(file) /\ art.phase \in {"APPLYING", "ROLLING_BACK", "COMMITTED"}
    BY <1>11, <1>0 DEF SaveForward, Save, PhaseInv, FileInv, Preparing, Active, Onward, Applying,
       Marking, Scanning, Forwarding, Undoing
  <2>2. resolved # file
    BY <1>0, <1>4a, <2>1 DEF IsOpen, Phase
  <2> QED BY <1>11, <1>0, <2>1, <2>2 DEF SaveForward, ForwardLabel, Save, WriteArtifact,
     FileFails, GiveUp, Goto
<1>12. CASE Forward
  BY <1>12, <1>0 DEF Forward, GiveUp, Goto
<1>13. CASE SaveForwarded
  <2>1. /\ IsOpen(file) /\ art.phase \in {"APPLYING", "ROLLING_BACK", "COMMITTED"}
    BY <1>13, <1>0 DEF SaveForwarded, Save, PhaseInv, FileInv, Preparing, Active, Onward,
       Applying, Marking, Scanning, Forwarding, Undoing
  <2>2. resolved # file
    BY <1>0, <1>4a, <2>1 DEF IsOpen, Phase
  <2> QED BY <1>13, <1>0, <2>1, <2>2 DEF SaveForwarded, ForwardLabel, Save, WriteArtifact,
     FileFails, GiveUp, Goto
<1>14. CASE SaveRollingBack
  <2>1. /\ IsOpen(file) /\ art.phase \in {"APPLYING", "ROLLING_BACK", "COMMITTED"}
    BY <1>14, <1>0 DEF SaveRollingBack, Save, PhaseInv, FileInv, Preparing, Active, Onward,
       Applying, Marking, Scanning, Forwarding, Undoing
  <2>2. resolved # file
    BY <1>0, <1>4a, <2>1 DEF IsOpen, Phase
  <2> QED BY <1>14, <1>0, <2>1, <2>2 DEF SaveRollingBack, UndoLabel, Save, WriteArtifact,
     FileFails, GiveUp, Goto
<1>15. CASE UndoCheck
  BY <1>15, <1>0 DEF UndoCheck, GiveUp, Goto
<1>16. CASE Undo
  BY <1>16, <1>0 DEF Undo, GiveUp, Goto
<1>17. CASE SaveUndone
  <2>1. /\ IsOpen(file) /\ art.phase \in {"APPLYING", "ROLLING_BACK", "COMMITTED"}
    BY <1>17, <1>0 DEF SaveUndone, Save, PhaseInv, FileInv, Preparing, Active, Onward, Applying,
       Marking, Scanning, Forwarding, Undoing
  <2>2. resolved # file
    BY <1>0, <1>4a, <2>1 DEF IsOpen, Phase
  <2> QED BY <1>17, <1>0, <2>1, <2>2 DEF SaveUndone, UndoLabel, Save, WriteArtifact, FileFails,
     GiveUp, Goto
<1>18. CASE MarkRolledBack
  BY <1>18, <1>0 DEF MarkRolledBack, Goto
<1>19. CASE SaveRolledBack
  BY <1>19, <1>0 DEF SaveRolledBack, WriteArtifact, FileFails, GiveUp, Succeed, PhaseInv, Preparing
<1>20. CASE Finalize
  BY <1>20, <1>0, <1>4a DEF Finalize, FinalizeFails, FileFails, Forget, Goto, PolicyFor
<1>21. CASE Rename
  BY <1>21, <1>0, <1>4a DEF Rename, FinalizeFails, FileFails, Goto, FileInv
<1>22. CASE Crash
  BY <1>22, <1>0 DEF Crash, Forget
<1>23. CASE Restart
  BY <1>23, <1>0 DEF Restart, RecoverArtifacts, Goto
<1>24. CASE Resubmit
  BY <1>24, <1>0 DEF Resubmit, Goto
<1>25. ASSUME NEW k \in Key, NEW v \in PutValues, ExternalPut(k, v)
      PROVE  ResolvedInv'
  BY <1>25, <1>0 DEF ExternalPut
<1>26. CASE UNCHANGED vars
  BY <1>26, <1>0 DEF vars
<1> QED
  BY <1>1, <1>2, <1>3, <1>4, <1>5, <1>6, <1>7, <1>8, <1>9, <1>10, <1>11, <1>12, <1>13, <1>14,
     <1>15, <1>16, <1>17, <1>18, <1>19, <1>20, <1>21, <1>22, <1>23, <1>24, <1>25, <1>26
  DEF Next, CommitStep, RecoveryStep

\* Every step keeps what is known of the visible values.
LEMMA VisibleStep == IInv /\ [Next]_vars => VisibleInv'
<1> SUFFICES ASSUME IInv, [Next]_vars PROVE VisibleInv'
  OBVIOUS
<1> USE DEF frame, memory, history, bounds
<1>0. /\ TypeInv /\ CountInv /\ PhaseInv /\ FileInv /\ PinInv /\ MadeInv /\ UnmadeInv
      /\ VisibleInv
  BY DEF IInv
<1>2a. art \in Artifacts /\ file \in Artifacts
  BY <1>0 DEF TypeInv
<1>3a. \A i \in Mine : i \in 1 .. Count /\ Writes[i].key \notin touched
  BY DEF Mine
<1>4a. \A a, b : a.entries = b.entries => (Fresh(a) <=> Fresh(b)) /\ (Again(a) <=> Again(b))
  BY DEF Fresh, Again
<1>5a. ASSUME IsOpen(file), file' = file, origin' = origin, touched' = touched, abandoned' = abandoned
       PROVE  VisibleInv'
  BY <1>0, <1>5a DEF VisibleInv, Fresh, Again, Mine, IsOpen
<1>m. ASSUME PutNext \/ Forward, Makes(art.entries[art.applied_count + 1]),
             art.applied_count + 1 \in 1 .. Count, Len(art.entries) = Count,
             pc \in {"put", "forward"}, pc' = IF pc = "put" THEN "saveApplied" ELSE "saveForwarded",
             art' = [art EXCEPT !.applied_count = @ + 1, !.phase = "APPLYING"], touched' = touched
      PROVE  VisibleInv'
  <2>1. IsOpen(file)
    BY <1>0, <1>m DEF FileInv, Preparing, Active, Onward, Applying, Marking, Scanning, Forwarding,
       Undoing
  <2> QED BY <1>5a, <1>m, <2>1 DEF PutNext, Forward
<1>r. ASSUME Undo, Reverts(art.entries[art.applied_count]), art.applied_count \in 1 .. Count,
             Len(art.entries) = Count, pc = "undo", pc' = "saveUndone",
             art' = [art EXCEPT !.applied_count = @ - 1], touched' = touched
      PROVE  VisibleInv'
  <2>1. IsOpen(file)
    BY <1>0, <1>r DEF FileInv, Preparing, Active, Onward, Applying, Marking, Scanning, Forwarding,
       Undoing
  <2> QED BY <1>5a, <1>r, <2>1 DEF Undo
<1>x. ASSUME NEW k \in Key, NEW v \in PutValues, ExternalPut(k, v)
      PROVE  VisibleInv'
  <2>1. file' = file /\ origin' = origin /\ abandoned' = abandoned /\ touched \subseteq touched'
    BY <1>0, <1>x, ExternalPutKeys DEF ExternalPut
  <2>2. Mine' \subseteq Mine
    BY <2>1 DEF Mine
  <2>3. \A i \in Mine' : store'[Writes[i].key] = store[Writes[i].key]
    BY <1>0, <1>x, WritesFacts, ExternalPutKeys DEF Mine
  <2>4. /\ Fresh(file) => Fresh(file)'
        /\ Again(file) => Again(file)'
        /\ AllVisible => AllVisible'
        /\ NoneVisible => NoneVisible'
    BY <2>1, <2>2, <2>3 DEF Fresh, Again, AllVisible, NoneVisible
  <2> QED BY <1>0, <2>1, <2>4 DEF VisibleInv, IsOpen
<1>s. SUFFICES ASSUME store' = store, touched' = touched PROVE VisibleInv'
  BY <1>0, <1>m, <1>r, <1>x, StoreChanges
<1>6a. ASSUME origin' = origin, abandoned => abandoned',
              \/ file' = file
              \/ IsOpen(file) /\ IsOpen(file') /\ file'.entries = file.entries
              \/ ~IsOpen(file) /\ ~IsOpen(file')
       PROVE  VisibleInv'
  <2>1. Mine' = Mine /\ AllVisible' = AllVisible /\ NoneVisible' = NoneVisible
    BY <1>s, <1>6a, SameVisible DEF Mine
  <2>2. file'.entries = file.entries => Fresh(file)' = Fresh(file) /\ Again(file)' = Again(file)
    BY <1>6a, <2>1 DEF Fresh, Again
  <2> QED BY <1>0, <1>6a, <2>1, <2>2 DEF VisibleInv, IsOpen
<1>7a. ASSUME origin' = origin, file' = art, art.phase = "COMMITTED", Len(art.entries) = Count,
              \A i \in 1 .. Count : Made(store, touched, art.entries[i])
       PROVE  VisibleInv'
  <2>1. ASSUME NEW i \in Mine PROVE store[Writes[i].key].value = Writes[i].value
    <3>1. /\ i \in 1 .. Count /\ art.entries[i].key = Writes[i].key
          /\ art.entries[i].target = Writes[i].value
      BY <1>2a, <1>3a, <1>7a, ArtifactFacts
    <3>2. MatchesTarget(art.entries[i], store[Writes[i].key])
      BY <1>3a, <1>7a, <3>1 DEF Made
    <3> QED BY <3>1, <3>2 DEF MatchesTarget, Stored
  <2>2. AllVisible'
    BY <1>s, <1>7a, <2>1, SameVisible DEF AllVisible
  <2>3. ~IsOpen(file')
    BY <1>7a DEF IsOpen, Terminal
  <2> QED BY <2>2, <2>3 DEF VisibleInv, IsOpen
<1>8a. ASSUME Len(art.entries) = Count, \A i \in 1 .. Count : Reverted(store, touched, art.entries[i])
       PROVE  \A i \in Mine : SameContent(store[Writes[i].key], art.entries[i].previous)
  BY <1>2a, <1>3a, <1>8a, ArtifactFacts DEF Reverted
<1>1. CASE Prepare
  BY <1>1, <1>6a DEF Prepare, Goto, GiveUp
<1>2. CASE SavePrepared
  <2>1. pc = "savePrepared" /\ Len(art.entries) = Count /\ art.phase = "PREPARED"
    BY <1>2, <1>0 DEF SavePrepared, Save, CountInv, PhaseInv, Preparing
  <2>2. \A i \in Mine : SameContent(store[Writes[i].key], art.entries[i].previous)
    BY <1>0, <1>2a, <1>8a, <2>1, UnmadeReverted DEF UnmadeInv, Preparing
  <2>3. AllVisible => Again(art)
    BY <2>2 DEF AllVisible, Again, SameContent
  <2>4. NoneVisible => Fresh(art)
    BY <2>2 DEF NoneVisible, Fresh, SameContent
  <2>5. CASE file' = file /\ abandoned' = abandoned
    BY <1>2, <1>6a, <2>5 DEF SavePrepared, Save
  <2>6. CASE file' = art /\ abandoned' = (abandoned \/ IsOpen(file))
    <3>1. Mine' = Mine /\ IsOpen(art)
      BY <1>2, <1>s, <2>1 DEF SavePrepared, Save, Mine, IsOpen, Phase, Terminal
    <3>2. Fresh(file)' = Fresh(art) /\ Again(file)' = Again(art)
      BY <1>2, <2>6, <3>1 DEF SavePrepared, Save, Fresh, Again
    <3> QED BY <1>0, <2>3, <2>4, <2>6, <3>1, <3>2 DEF VisibleInv, IsOpen
  <2> QED BY <1>2, <2>1, <2>5, <2>6 DEF SavePrepared, Save, WriteArtifact, FileFails, GiveUp, Goto
<1>3. CASE Check
  BY <1>3, <1>6a DEF Check, StartRollback, Goto
<1>4. CASE PutNext
  BY <1>4, <1>6a DEF PutNext, StartRollback, Goto
<1>5. CASE SaveApplied
  <2>1. /\ pc = "saveApplied" /\ art.phase = "APPLYING"
        /\ IsOpen(file) /\ file.entries = art.entries
    BY <1>5, <1>0 DEF SaveApplied, Save, PhaseInv, FileInv, Preparing, Active, Onward, Applying,
       Marking, Scanning, Forwarding, Undoing
  <2>2. IsOpen(art)
    BY <2>1 DEF IsOpen, Phase, Terminal
  <2>3. abandoned => abandoned'
    BY <1>5 DEF SaveApplied, Save, WriteArtifact, FileFails, GiveUp, Goto
  <2> QED BY <1>5, <1>6a, <2>1, <2>2, <2>3 DEF SaveApplied, Save, WriteArtifact, FileFails,
     GiveUp, Goto
<1>6. CASE MarkCommitted
  BY <1>6, <1>6a DEF MarkCommitted, Goto
<1>7. CASE SaveCommitted
  <2>1. /\ pc = "saveCommitted" /\ Len(art.entries) = Count /\ art.phase = "COMMITTED"
        /\ art.applied_count = Count
    BY <1>7, <1>0 DEF SaveCommitted, CountInv, PhaseInv, Preparing, Active, Onward, Applying,
       Marking, Scanning, Forwarding, Undoing
  <2>2. CASE file' = art
    <3>1. \A i \in 1 .. Count : Made(store, touched, art.entries[i])
      BY <1>0, <2>1 DEF MadeInv, Preparing, Active, Onward, Applying, Marking, Scanning,
         Forwarding, Undoing
    <3> QED BY <1>7, <1>7a, <2>1, <2>2, <3>1 DEF SaveCommitted
  <2>3. CASE file' = file
    <3>1. abandoned => abandoned'
      BY <1>7 DEF SaveCommitted, WriteArtifact, FileFails, GiveUp, Succeed
    <3> QED BY <1>7, <1>6a, <2>1, <2>3, <3>1 DEF SaveCommitted, WriteArtifact, FileFails, GiveUp,
       Succeed
  <2> QED BY <1>7, <2>2, <2>3 DEF SaveCommitted, WriteArtifact, FileFails, GiveUp, Succeed
<1>8. CASE ScanTarget
  BY <1>8, <1>6a DEF ScanTarget, Goto
<1>9. CASE ScanRest
  BY <1>9, <1>6a DEF ScanRest, GiveUp
<1>10. CASE ScanDone
  BY <1>10, <1>6a DEF ScanDone, Goto
<1>11. CASE SaveForward
  <2>1. /\ pc = "saveForward" /\ Len(art.entries) = Count /\ IsOpen(file) /\ file.entries = art.entries
    BY <1>11, <1>0 DEF SaveForward, Save, CountInv, FileInv, Preparing, Active, Onward, Applying,
       Marking, Scanning, Forwarding, Undoing
  <2>2. CASE file' = file \/ art.phase = "APPLYING"
    <3>1. art.phase = "APPLYING" => IsOpen(art)
      BY DEF IsOpen, Phase, Terminal
    <3>2. art.phase # "PREPARED"
      BY <1>0, <2>1 DEF PhaseInv
    <3>3. abandoned => abandoned'
      BY <1>11 DEF SaveForward, ForwardLabel, Save, WriteArtifact, FileFails, GiveUp, Goto
    <3> QED BY <1>11, <1>6a, <2>1, <2>2, <3>1, <3>2, <3>3 DEF SaveForward, ForwardLabel, Save,
       WriteArtifact, FileFails, GiveUp, Goto
  <2>3. CASE file' = art /\ art.phase = "COMMITTED"
    <3>1. \A i \in 1 .. Count : Made(store, touched, art.entries[i])
      BY <1>0, <2>1, <2>3 DEF MadeInv, PhaseInv, Preparing, Active, Onward, Applying, Marking,
         Scanning, Forwarding, Undoing
    <3> QED BY <1>11, <1>7a, <2>1, <2>3, <3>1 DEF SaveForward, Save
  <2> QED BY <1>11, <1>0, <2>1, <2>2, <2>3 DEF SaveForward, ForwardLabel, Save, WriteArtifact,
     FileFails, GiveUp, Goto, PhaseInv
<1>12. CASE Forward
  BY <1>12, <1>6a DEF Forward, GiveUp, Goto
<1>13. CASE SaveForwarded
  <2>1. /\ pc = "saveForwarded" /\ art.phase = "APPLYING"
        /\ IsOpen(file) /\ file.entries = art.entries
    BY <1>13, <1>0 DEF SaveForwarded, Save, PhaseInv, FileInv, Preparing, Active, Onward,
       Applying, Marking, Scanning, Forwarding, Undoing
  <2>2. IsOpen(art)
    BY <2>1 DEF IsOpen, Phase, Terminal
  <2>3. abandoned => abandoned'
    BY <1>13 DEF SaveForwarded, ForwardLabel, Save, WriteArtifact, FileFails, GiveUp, Goto
  <2> QED BY <1>13, <1>6a, <2>1, <2>2, <2>3 DEF SaveForwarded, ForwardLabel, Save, WriteArtifact,
     FileFails, GiveUp, Goto
<1>14. CASE SaveRollingBack
  <2>1. /\ pc = "saveRollingBack" /\ art.phase = "ROLLING_BACK"
        /\ IsOpen(file) /\ file.entries = art.entries
    BY <1>14, <1>0 DEF SaveRollingBack, Save, PhaseInv, FileInv, Preparing, Active, Onward,
       Applying, Marking, Scanning, Forwarding, Undoing
  <2>2. IsOpen(art)
    BY <2>1 DEF IsOpen, Phase, Terminal
  <2>3. abandoned => abandoned'
    BY <1>14 DEF SaveRollingBack, UndoLabel, Save, WriteArtifact, FileFails, GiveUp, Goto
  <2> QED BY <1>14, <1>6a, <2>1, <2>2, <2>3 DEF SaveRollingBack, UndoLabel, Save, WriteArtifact,
     FileFails, GiveUp, Goto
<1>15. CASE UndoCheck
  BY <1>15, <1>6a DEF UndoCheck, GiveUp, Goto
<1>16. CASE Undo
  BY <1>16, <1>6a DEF Undo, GiveUp, Goto
<1>17. CASE SaveUndone
  <2>1. /\ pc = "saveUndone" /\ art.phase = "ROLLING_BACK"
        /\ IsOpen(file) /\ file.entries = art.entries
    BY <1>17, <1>0 DEF SaveUndone, Save, PhaseInv, FileInv, Preparing, Active, Onward, Applying,
       Marking, Scanning, Forwarding, Undoing
  <2>2. IsOpen(art)
    BY <2>1 DEF IsOpen, Phase, Terminal
  <2>3. abandoned => abandoned'
    BY <1>17 DEF SaveUndone, UndoLabel, Save, WriteArtifact, FileFails, GiveUp, Goto
  <2> QED BY <1>17, <1>6a, <2>1, <2>2, <2>3 DEF SaveUndone, UndoLabel, Save, WriteArtifact,
     FileFails, GiveUp, Goto
<1>18. CASE MarkRolledBack
  BY <1>18, <1>6a DEF MarkRolledBack, Goto
<1>19. CASE SaveRolledBack
  <2>1. /\ pc = "saveRolledBack" /\ Len(art.entries) = Count /\ art.applied_count = 0
        /\ art.phase = "ROLLED_BACK" /\ IsOpen(file) /\ file.entries = art.entries
    BY <1>19, <1>0 DEF SaveRolledBack, CountInv, PhaseInv, FileInv, Preparing, Active, Onward,
       Applying, Marking, Scanning, Forwarding, Undoing
  <2>2. CASE file' = file
    <3>1. abandoned => abandoned'
      BY <1>19 DEF SaveRolledBack, WriteArtifact, FileFails, GiveUp, Succeed
    <3> QED BY <1>19, <1>6a, <2>1, <2>2, <3>1 DEF SaveRolledBack, WriteArtifact, FileFails,
       GiveUp, Succeed
  <2>3. CASE file' = art
    <3>1. \A i \in Mine : SameContent(store[Writes[i].key], art.entries[i].previous)
      BY <1>0, <1>8a, <2>1 DEF UnmadeInv, Undoing
    <3>2. Fresh(file) => NoneVisible
      BY <2>1, <3>1 DEF NoneVisible, Fresh, SameContent
    <3>3. Again(file) => AllVisible
      BY <2>1, <3>1 DEF AllVisible, Again, SameContent
    <3>4. AllVisible' = AllVisible /\ NoneVisible' = NoneVisible
      BY <1>19, <1>s, SameVisible DEF SaveRolledBack
    <3>5. (abandoned => abandoned') /\ ~IsOpen(file')
      BY <1>19, <2>1, <2>3 DEF SaveRolledBack, WriteArtifact, FileFails, GiveUp, Succeed, IsOpen,
         Terminal
    <3> QED BY <1>0, <2>1, <3>2, <3>3, <3>4, <3>5 DEF VisibleInv, IsOpen
  <2> QED BY <1>19, <2>2, <2>3 DEF SaveRolledBack, WriteArtifact, FileFails, GiveUp, Succeed
<1>20. CASE Finalize
  BY <1>20, <1>6a DEF Finalize, FinalizeFails, FileFails, Forget, Goto, IsOpen, NoArtifact, Phase,
     Terminal
<1>21. CASE Rename
  BY <1>21, <1>0, <1>6a DEF Rename, FinalizeFails, FileFails, Goto, FileInv, IsOpen, NoArtifact,
     Phase, Terminal
<1>22. CASE Crash
  BY <1>22, <1>6a DEF Crash, Forget
<1>23. CASE Restart
  BY <1>23, <1>6a DEF Restart, RecoverArtifacts, Goto
<1>24. CASE Resubmit
  BY <1>24, <1>6a DEF Resubmit, Goto
<1>25. ASSUME NEW k \in Key, NEW v \in PutValues, ExternalPut(k, v)
      PROVE  VisibleInv'
  BY <1>25, <1>x
<1>26. CASE UNCHANGED vars
  BY <1>26, <1>6a DEF vars
<1> QED
  BY <1>1, <1>2, <1>3, <1>4, <1>5, <1>6, <1>7, <1>8, <1>9, <1>10, <1>11, <1>12, <1>13, <1>14,
     <1>15, <1>16, <1>17, <1>18, <1>19, <1>20, <1>21, <1>22, <1>23, <1>24, <1>25, <1>26
  DEF Next, CommitStep, RecoveryStep

\* Every step keeps the count on disk honest.
LEMMA HonestStep == IInv /\ [Next]_vars => ProgressIsHonest'
<1> SUFFICES ASSUME IInv, [Next]_vars PROVE ProgressIsHonest'
  OBVIOUS
<1> USE DEF frame, memory, history, bounds
<1>0. /\ TypeInv /\ CountInv /\ PhaseInv /\ FileInv /\ PinInv /\ MadeInv /\ UnmadeInv
      /\ ProgressIsHonest
  BY DEF IInv
<1>1a. TypeInv' /\ CountInv' /\ FileInv' /\ MadeInv' /\ UnmadeInv'
  BY TypeStep, CountStep, FileStep, MadeStep, UnmadeStep
<1>2a. art \in Artifacts /\ file \in Artifacts /\ art.applied_count \in 0 .. Count
  BY <1>0, ArtifactFacts DEF TypeInv
<1>3a. art \in [phase : Phase \cup {"NONE"}, applied_count : 0 .. Count, entries : Seq(Entry)]
  BY <1>0 DEF TypeInv, Artifacts, Artifact
<1>m. ASSUME PutNext \/ Forward, Makes(art.entries[art.applied_count + 1]),
             art.applied_count + 1 \in 1 .. Count, Len(art.entries) = Count,
             pc \in {"put", "forward"}, pc' = IF pc = "put" THEN "saveApplied" ELSE "saveForwarded",
             art' = [art EXCEPT !.applied_count = @ + 1, !.phase = "APPLYING"], touched' = touched
      PROVE  ProgressIsHonest'
  <2> SUFFICES ASSUME puts' = 0
               PROVE  \A i \in DOMAIN file.entries :
                        LET e == file.entries[i] IN
                        IF i <= file.applied_count + 1
                        THEN MatchesTarget(e, store'[e.key]) ELSE MatchesPrevious(e, store'[e.key])
    BY <1>m DEF ProgressIsHonest, PutNext, Forward
  <2>1. touched' = {}
    BY <1>1a DEF TypeInv
  <2>2. file.entries = art.entries /\ file.applied_count = art.applied_count
    BY <1>0, <1>m DEF FileInv, Preparing, Active, Onward, Applying, Marking, Scanning, Forwarding,
       Undoing
  <2>3. art'.entries = art.entries /\ art'.applied_count = art.applied_count + 1 /\ pc' \in Onward
    BY <1>3a, <1>m DEF Preparing, Active, Onward, Applying, Marking, Scanning, Forwarding, Undoing
  <2>4. /\ \A i \in 1 .. art.applied_count + 1 : MatchesTarget(art.entries[i], store'[art.entries[i].key])
        /\ \A i \in 1 .. Count : i > art.applied_count + 1 =>
                MatchesPrevious(art.entries[i], store'[art.entries[i].key])
    BY <1>1a, <2>1, <2>3 DEF MadeInv, UnmadeInv, Made, Unmade
  <2>5. DOMAIN file.entries = 1 .. Count
    BY <1>2a, <1>m, <2>2, ArtifactFacts
  <2> QED BY <1>2a, <2>2, <2>4, <2>5
<1>r. ASSUME Undo, Reverts(art.entries[art.applied_count]), art.applied_count \in 1 .. Count,
             Len(art.entries) = Count, pc = "undo", pc' = "saveUndone",
             art' = [art EXCEPT !.applied_count = @ - 1], touched' = touched
      PROVE  ProgressIsHonest'
  <2>1. file' = file /\ file.phase = "ROLLING_BACK"
    BY <1>0, <1>r DEF Undo, FileInv, Undoing
  <2> QED BY <2>1 DEF ProgressIsHonest
<1>x. ASSUME NEW k \in Key, NEW v \in PutValues, ExternalPut(k, v)
      PROVE  ProgressIsHonest'
  <2>1. puts' # 0
    BY <1>0, <1>x DEF ExternalPut, TypeInv
  <2> QED BY <2>1 DEF ProgressIsHonest
<1>s. SUFFICES ASSUME store' = store, touched' = touched PROVE ProgressIsHonest'
  BY <1>0, <1>m, <1>r, <1>x, StoreChanges
<1>4a. ASSUME file' = file, puts' = puts
       PROVE  ProgressIsHonest'
  BY <1>0, <1>s, <1>4a DEF ProgressIsHonest
<1>5a. ASSUME file'.phase \in {"ROLLING_BACK", "ROLLED_BACK", "NONE"}
       PROVE  ProgressIsHonest'
  BY <1>5a DEF ProgressIsHonest
<1>6a. ASSUME file' = art, puts' = puts, Len(art.entries) = Count,
              \A i \in 1 .. art.applied_count : Made(store, touched, art.entries[i]),
              \A i \in 1 .. Count : i > art.applied_count => Unmade(store, touched, art.entries[i])
       PROVE  ProgressIsHonest'
  <2> SUFFICES ASSUME puts = 0
               PROVE  \A i \in DOMAIN art.entries :
                        LET e == art.entries[i] IN
                        IF i <= art.applied_count
                        THEN MatchesTarget(e, store[e.key]) ELSE MatchesPrevious(e, store[e.key])
    BY <1>s, <1>6a DEF ProgressIsHonest
  <2>1. touched = {} /\ DOMAIN art.entries = 1 .. Count
    BY <1>0, <1>2a, <1>6a, ArtifactFacts DEF TypeInv
  <2> QED BY <1>2a, <1>6a, <2>1 DEF Made, Unmade
<1>1. CASE Prepare
  BY <1>1, <1>4a DEF Prepare, Goto, GiveUp
<1>2. CASE SavePrepared
  <2>1. /\ pc = "savePrepared" /\ Len(art.entries) = Count /\ art.applied_count = 0
    BY <1>2, <1>0 DEF SavePrepared, Save, CountInv, PhaseInv, Preparing
  <2>2. \A i \in 1 .. Count : Unmade(store, touched, art.entries[i])
    BY <1>0, <2>1 DEF UnmadeInv, Preparing
  <2> QED BY <1>2, <1>4a, <1>6a, <2>1, <2>2 DEF SavePrepared, Save, WriteArtifact, FileFails,
     GiveUp, Goto
<1>3. CASE Check
  BY <1>3, <1>4a DEF Check, StartRollback, Goto
<1>4. CASE PutNext
  BY <1>4, <1>4a DEF PutNext, StartRollback, Goto
<1>5. CASE SaveApplied
  <2>1. pc = "saveApplied" /\ pc \in Onward /\ Len(art.entries) = Count
    BY <1>5, <1>0 DEF SaveApplied, Save, CountInv, Preparing, Active, Onward, Applying, Marking,
       Scanning, Forwarding, Undoing
  <2>2. /\ \A i \in 1 .. art.applied_count : Made(store, touched, art.entries[i])
        /\ \A i \in 1 .. Count : i > art.applied_count => Unmade(store, touched, art.entries[i])
    BY <1>0, <2>1 DEF MadeInv, UnmadeInv
  <2> QED BY <1>5, <1>4a, <1>6a, <2>1, <2>2 DEF SaveApplied, Save, WriteArtifact, FileFails,
     GiveUp, Goto
<1>6. CASE MarkCommitted
  BY <1>6, <1>4a DEF MarkCommitted, Goto
<1>7. CASE SaveCommitted
  <2>1. pc = "saveCommitted" /\ pc \in Onward /\ Len(art.entries) = Count
    BY <1>7, <1>0 DEF SaveCommitted, CountInv, Preparing, Active, Onward, Applying, Marking,
       Scanning, Forwarding, Undoing
  <2>2. /\ \A i \in 1 .. art.applied_count : Made(store, touched, art.entries[i])
        /\ \A i \in 1 .. Count : i > art.applied_count => Unmade(store, touched, art.entries[i])
    BY <1>0, <2>1 DEF MadeInv, UnmadeInv
  <2> QED BY <1>7, <1>4a, <1>6a, <2>1, <2>2 DEF SaveCommitted, WriteArtifact, FileFails, GiveUp,
     Succeed
<1>8. CASE ScanTarget
  BY <1>8, <1>4a DEF ScanTarget, Goto
<1>9. CASE ScanRest
  BY <1>9, <1>4a DEF ScanRest, GiveUp
<1>10. CASE ScanDone
  BY <1>10, <1>4a DEF ScanDone, Goto
<1>11. CASE SaveForward
  <2>1. pc = "saveForward" /\ pc \in Onward /\ Len(art.entries) = Count
    BY <1>11, <1>0 DEF SaveForward, Save, CountInv, Preparing, Active, Onward, Applying, Marking,
       Scanning, Forwarding, Undoing
  <2>2. /\ \A i \in 1 .. art.applied_count : Made(store, touched, art.entries[i])
        /\ \A i \in 1 .. Count : i > art.applied_count => Unmade(store, touched, art.entries[i])
    BY <1>0, <2>1 DEF MadeInv, UnmadeInv
  <2> QED BY <1>11, <1>4a, <1>6a, <2>1, <2>2 DEF SaveForward, ForwardLabel, Save, WriteArtifact,
     FileFails, GiveUp, Goto
<1>12. CASE Forward
  BY <1>12, <1>4a DEF Forward, GiveUp, Goto
<1>13. CASE SaveForwarded
  <2>1. pc = "saveForwarded" /\ pc \in Onward /\ Len(art.entries) = Count
    BY <1>13, <1>0 DEF SaveForwarded, Save, CountInv, Preparing, Active, Onward, Applying,
       Marking, Scanning, Forwarding, Undoing
  <2>2. /\ \A i \in 1 .. art.applied_count : Made(store, touched, art.entries[i])
        /\ \A i \in 1 .. Count : i > art.applied_count => Unmade(store, touched, art.entries[i])
    BY <1>0, <2>1 DEF MadeInv, UnmadeInv
  <2> QED BY <1>13, <1>4a, <1>6a, <2>1, <2>2 DEF SaveForwarded, ForwardLabel, Save, WriteArtifact,
     FileFails, GiveUp, Goto
<1>14. CASE SaveRollingBack
  <2>1. pc = "saveRollingBack" /\ art.phase = "ROLLING_BACK"
    BY <1>14, <1>0 DEF SaveRollingBack, Save, PhaseInv, Undoing
  <2> QED BY <1>14, <1>4a, <1>5a, <2>1 DEF SaveRollingBack, UndoLabel, Save, WriteArtifact,
     FileFails, GiveUp, Goto
<1>15. CASE UndoCheck
  BY <1>15, <1>4a DEF UndoCheck, GiveUp, Goto
<1>16. CASE Undo
  BY <1>16, <1>4a DEF Undo, GiveUp, Goto
<1>17. CASE SaveUndone
  <2>1. pc = "saveUndone" /\ art.phase = "ROLLING_BACK"
    BY <1>17, <1>0 DEF SaveUndone, Save, PhaseInv, Undoing
  <2> QED BY <1>17, <1>4a, <1>5a, <2>1 DEF SaveUndone, UndoLabel, Save, WriteArtifact, FileFails,
     GiveUp, Goto
<1>18. CASE MarkRolledBack
  BY <1>18, <1>4a DEF MarkRolledBack, Goto
<1>19. CASE SaveRolledBack
  <2>1. pc = "saveRolledBack" /\ art.phase = "ROLLED_BACK"
    BY <1>19, <1>0 DEF SaveRolledBack, PhaseInv, Undoing
  <2> QED BY <1>19, <1>4a, <1>5a, <2>1 DEF SaveRolledBack, WriteArtifact, FileFails, GiveUp, Succeed
<1>20. CASE Finalize
  BY <1>20, <1>4a, <1>5a DEF Finalize, FinalizeFails, FileFails, Forget, Goto, NoArtifact
<1>21. CASE Rename
  BY <1>21, <1>4a, <1>5a DEF Rename, FinalizeFails, FileFails, Goto, NoArtifact
<1>22. CASE Crash
  BY <1>22, <1>4a DEF Crash, Forget
<1>23. CASE Restart
  BY <1>23, <1>4a DEF Restart, RecoverArtifacts, Goto
<1>24. CASE Resubmit
  BY <1>24, <1>4a DEF Resubmit, Goto
<1>25. ASSUME NEW k \in Key, NEW v \in PutValues, ExternalPut(k, v)
      PROVE  ProgressIsHonest'
  BY <1>25, <1>x
<1>26. CASE UNCHANGED vars
  BY <1>26, <1>4a DEF vars
<1> QED
  BY <1>1, <1>2, <1>3, <1>4, <1>5, <1>6, <1>7, <1>8, <1>9, <1>10, <1>11, <1>12, <1>13, <1>14,
     <1>15, <1>16, <1>17, <1>18, <1>19, <1>20, <1>21, <1>22, <1>23, <1>24, <1>25, <1>26
  DEF Next, CommitStep, RecoveryStep

--------------------------------------------------------------------------------
(* The theorems.                                                             *)

\* The first submission starts with nothing on disk and nothing prepared.
LEMMA InitInv == Init => IInv
<1> SUFFICES ASSUME Init PROVE IInv
  OBVIOUS
<1> USE DEF Init
<1>1. base \in Store
  BY StoreAssumption DEF Store, Versioned
<1>2. NoArtifact \in Artifacts /\ NewArtifact \in Artifacts
  BY EmptyArtifacts
<1>3. /\ NoArtifact.phase = "NONE" /\ NewArtifact.phase = "PREPARED" /\ NewArtifact.applied_count = 0
      /\ Len(NewArtifact.entries) = 0
  BY DEF NoArtifact, NewArtifact
<1>4. pc = "prepare" /\ pc \in Preparing /\ pc \notin Active \cup Quiet
  BY DEF Preparing, Active, Onward, Applying, Forwarding, Marking, Scanning, Undoing, Quiet
<1>5. ~IsOpen(file) /\ file.phase = "NONE"
  BY <1>3 DEF IsOpen, Phase
<1>6. TypeInv
  <2>1. prefix \in 0 .. Count /\ cursor \in 1 .. Count + 1
    BY WritesFacts
  <2>2. recovering \in BOOLEAN /\ rollback \in BOOLEAN /\ abandoned \in BOOLEAN
    OBVIOUS
  <2> QED BY <1>1, <1>2, <1>4, <2>1, <2>2 DEF TypeInv
<1>7. CountInv
  BY <1>3, <1>4, WritesFacts DEF CountInv, Marking
<1>8. PhaseInv
  BY <1>3, <1>4 DEF PhaseInv, Applying, Scanning, Undoing
<1>9. FileInv
  BY <1>4 DEF FileInv, Active, Onward, Undoing
<1>10. PinInv
  BY <1>3, <1>5 DEF PinInv, Pinned
<1>11. MadeInv /\ UnmadeInv
  BY <1>3, <1>4 DEF MadeInv, UnmadeInv, Active
<1>12. OpenInv
  BY <1>5 DEF OpenInv
<1>13. CommittedInv /\ AckInv /\ NewerInv
  BY <1>3 DEF CommittedInv, AckInv, NewerInv
<1>14. BasedInv
  BY <1>3 DEF BasedInv
<1>15. ResolvedInv
  BY <1>3 DEF ResolvedInv, ResolvedIsKept, Terminal
<1>16. VisibleInv
  <2>1. NoneVisible
    BY DEF NoneVisible, SameContent
  <2> QED BY <1>5, <2>1 DEF VisibleInv
<1>17. ProgressIsHonest
  BY <1>5 DEF ProgressIsHonest
<1> QED
  BY <1>6, <1>7, <1>8, <1>9, <1>10, <1>11, <1>12, <1>13, <1>14, <1>15, <1>16, <1>17 DEF IInv

\* Every reachable state satisfies the invariant.
LEMMA Invariance == Spec => []IInv
<1>1. IInv /\ [Next]_vars => IInv'
  BY TypeStep, CountStep, PhaseStep, FileStep, PinStep, MadeStep, UnmadeStep, OpenStep,
     CommittedStep, AckStep, NewerStep, BasedStep, ResolvedStep, VisibleStep, HonestStep
  DEF IInv
<1> QED BY <1>1, InitInv, PTL DEF Spec

\* The store and the artifacts, in memory, on disk and in the archive, always have
\* the types of the code, and the artifacts describe a prefix of the writes.
THEOREM TypeOKHolds == Spec => []TypeOK
<1>1. ASSUME IInv PROVE TypeOK
  <2>1. store \in [Key -> VersionedValue]
    BY <1>1 DEF IInv, TypeInv, Store, Versioned
  <2>2. \A a \in {file, archive, art} : a \in Artifacts
    BY <1>1 DEF IInv, TypeInv
  <2>3. ASSUME NEW a \in Artifacts
        PROVE  /\ a \in Artifact /\ Len(a.entries) <= Count
               /\ \A i \in DOMAIN a.entries :
                    a.entries[i].key = Writes[i].key /\ a.entries[i].target = Writes[i].value
    BY ArtifactFacts DEF Artifacts
  <2> QED BY <1>1, <2>1, <2>2, <2>3 DEF TypeOK, IInv, TypeInv
<1> QED BY <1>1, Invariance, PTL

\* Whatever crashes and whoever interferes, a transaction that was told it
\* committed, or whose artifact says so, has every write in the store.
THEOREM CommittedIsCompleteHolds == Spec => []CommittedIsComplete
<1>1. IInv => CommittedIsComplete
  BY WritesFacts DEF IInv, CommittedInv, AckInv, Complete, CommittedIsComplete
<1> QED BY <1>1, Invariance, PTL

\* Without an open artifact the task has had its effect on all keys or on none,
\* and under an open one each write that is visible can be taken back.
THEOREM VisibleIsLoggedHolds == Spec => []VisibleIsLogged
<1>1. ASSUME IInv PROVE VisibleIsLogged
  <2> DEFINE Now(i) == store[Writes[i].key]
             IsVisible(i) == Now(i).value = Writes[i].value
  <2> SUFFICES ASSUME ~abandoned
               PROVE  /\ \A i \in Mine :
                            IsVisible(i) \/ SameContent(Now(i), origin[Writes[i].key])
                      /\ (\E i \in Mine : ~IsVisible(i)) =>
                            \A i \in Mine : IsVisible(i) =>
                                /\ IsOpen(file)
                                /\ MatchesTarget(file.entries[i], Now(i))
                                /\ file.entries[i].previous.value = origin[Writes[i].key].value
    BY WritesFacts DEF VisibleIsLogged, Mine, SameContent
  <2>1. \A i \in Mine : i \in 1 .. Count /\ origin[Writes[i].key].value # Writes[i].value
    BY DEF Mine
  <2>2. CASE ~IsOpen(file)
    <3>1. AllVisible \/ NoneVisible
      BY <1>1, <2>2 DEF IInv, VisibleInv
    <3> QED BY <2>1, <3>1 DEF AllVisible, NoneVisible, SameContent
  <2>3. CASE IsOpen(file)
    <3>1. Fresh(file) \/ Again(file)
      BY <1>1, <2>3 DEF IInv, VisibleInv
    <3>2. file \in Artifacts /\ Len(file.entries) = Count
      BY <1>1, <2>3 DEF IInv, TypeInv, CountInv, IsOpen, Phase
    <3>3. ASSUME NEW i \in Mine
          PROVE  \/ MatchesTarget(file.entries[i], Now(i)) /\ IsVisible(i)
                 \/ SameContent(Now(i), file.entries[i].previous)
      <4>1. /\ i \in 1 .. Count /\ file.entries[i].key = Writes[i].key
            /\ file.entries[i].target = Writes[i].value
        BY <2>1, <3>2, ArtifactFacts
      <4>2. Made(store, touched, file.entries[i]) \/ Reverted(store, touched, file.entries[i])
        BY <1>1, <2>3, <4>1 DEF IInv, OpenInv
      <4>3. Writes[i].key \notin touched
        BY DEF Mine
      <4> QED BY <4>1, <4>2, <4>3 DEF Made, Reverted, MatchesTarget, Stored
    <3>4. CASE Fresh(file)
      BY <2>1, <2>3, <3>3, <3>4 DEF Fresh, SameContent
    <3>5. CASE Again(file)
      BY <2>1, <3>3, <3>5 DEF Again, SameContent
    <3> QED BY <3>1, <3>4, <3>5
  <2> QED BY <2>2, <2>3
<1> QED BY <1>1, Invariance, PTL

\* The count on disk is that of the writes in the store, to within one.
THEOREM ProgressIsHonestHolds == Spec => []ProgressIsHonest
<1>1. IInv => ProgressIsHonest
  BY DEF IInv
<1> QED BY <1>1, Invariance, PTL

\* No crash or failure in the maintenance loses the record of how a submission ended.
THEOREM ResolvedIsKeptHolds == Spec => []ResolvedIsKept
<1>1. IInv => ResolvedIsKept
  BY DEF IInv, ResolvedInv
<1> QED BY <1>1, Invariance, PTL

\* Neither the commit nor a recovery ever changes what another client has put.
THEOREM ChangesOwnWritesOnlyHolds == Spec => ChangesOwnWritesOnly
<1> DEFINE Own(k) ==
        \E i \in DOMAIN file.entries :
            LET e == file.entries[i]
            IN  /\ e.key = k
                /\ \/ MatchesPrevious(e, store[k]) /\ MatchesTarget(e, store'[k])
                   \/ MatchesTarget(e, store[k]) /\ store'[k].value = e.previous.value
<1>1. ASSUME IInv, [Next]_vars, NEW k \in Key, store'[k] # store[k], puts' = puts
      PROVE  Own(k)
  <2>0. TypeInv /\ CountInv /\ FileInv /\ PinInv
    BY <1>1 DEF IInv
  <2>1. ASSUME NEW j \in 1 .. Count, Len(art.entries) = Count, file.entries = art.entries
        PROVE  /\ j \in DOMAIN file.entries /\ file.entries[j].key = Writes[j].key
               /\ file.entries[j].previous \in Versioned
    BY <2>0, <2>1, ArtifactFacts DEF TypeInv
  <2>2. ASSUME Makes(art.entries[art.applied_count + 1]), art.applied_count + 1 \in 1 .. Count,
               Len(art.entries) = Count, pc \in {"put", "forward"}
        PROVE  Own(k)
    <3> DEFINE j == art.applied_count + 1
               e == file.entries[j]
    <3>1. file.entries = art.entries
      BY <2>0, <2>2 DEF FileInv, Active, Onward, Applying, Forwarding
    <3>2. j \in DOMAIN file.entries /\ e.key = Writes[j].key /\ e.previous \in Versioned
      BY <2>1, <2>2, <3>1
    <3>3. k = e.key
      BY <1>1, <2>0, <2>2, <3>2, MakesKeys
    <3>4. MatchesTarget(e, store'[k]) /\ store[k] = e.previous
      BY <2>0, <2>2, <3>1, <3>2, <3>3, MakesKeys DEF MatchesTarget
    <3>5. MatchesPrevious(e, store[k])
      BY <3>2, <3>4 DEF MatchesPrevious, Versioned, Absent
    <3> QED BY <3>2, <3>3, <3>4, <3>5
  <2>3. ASSUME Reverts(art.entries[art.applied_count]), art.applied_count \in 1 .. Count,
               Len(art.entries) = Count, pc = "undo"
        PROVE  Own(k)
    <3> DEFINE j == art.applied_count
               e == file.entries[j]
    <3>1. file.entries = art.entries
      BY <2>0, <2>3 DEF FileInv, Active, Undoing
    <3>2. j \in DOMAIN file.entries /\ e.key = Writes[j].key
      BY <2>1, <2>3, <3>1
    <3>3. k = e.key
      BY <1>1, <2>0, <2>3, <3>2, RevertsKeys
    <3>4. MatchesTarget(e, store[k])
      BY <2>0, <2>3, <3>1, <3>2, <3>3, RevertsKeys
    <3>5. store'[k].value = e.previous.value
      <4>1. CASE e.previous.exists
        BY <2>0, <2>3, <3>1, <3>2, <3>3, <4>1, RevertsKeys
      <4>2. CASE ~e.previous.exists
        BY <2>0, <2>3, <3>1, <3>2, <3>3, <4>2, RevertsKeys
      <4> QED BY <4>1, <4>2
    <3> QED BY <3>2, <3>3, <3>4, <3>5
  <2>4. ASSUME NEW n \in Key, NEW v \in PutValues, ExternalPut(n, v)
        PROVE  Own(k)
    BY <1>1, <2>0, <2>4 DEF ExternalPut, TypeInv
  <2> QED BY <1>1, <2>0, <2>2, <2>3, <2>4, StoreChanges
<1>2. IInv /\ [Next]_vars =>
        [\A k \in Key : (store'[k] # store[k] /\ puts' = puts) => Own(k)]_vars
  BY <1>1
<1> QED BY <1>2, Invariance, PTL DEF Spec, ChangesOwnWritesOnly
=================================================================================
