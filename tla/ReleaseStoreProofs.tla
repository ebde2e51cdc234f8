------------------------ MODULE ReleaseStoreProofs ------------------------
(***************************************************************************)
(* What ReleaseStore promises for any number of processes, documents,      *)
(* objects, releases, crashes and damaged files.                           *)
(*                                                                         *)
(* The argument: a process holds, from its first object to its manifest, a *)
(* release whose objects are intact in the repository except those it has  *)
(* yet to write, and the manifest is renamed when none is left to write.   *)
(* A process whose manifest is renamed and that has not yet returned holds *)
(* a release that no other such process holds and nobody has reported.     *)
(*                                                                         *)
(* A lineage is a recursive function.  What it computes is shown by        *)
(* induction over the natural numbers, stated for sets (SetInduction): the *)
(* definition has a solution (LineExists), which is a line of parents that *)
(* is whole or has MaxDepth generations (LineageOK), and two lines that    *)
(* meet go on together (SameLine).  No lineage is too deep for a catalog   *)
(* because a parent is created before its children (RankOK).               *)
(***************************************************************************)
EXTENDS ReleaseStore, TLAPS, FiniteSetTheorems, WellFoundedInduction

Intact == objects \ badObjects

\* A release that a process writes or has written.
Sound(release) ==
    /\ release.doc \in Documents /\ Len(release.parent) <= 1
    /\ damages = 0 /\ release.parent # <<>> =>
           release.parent[1] \in releases /\ release.parent[1].doc = release.doc

\* What a process has written so far is intact.
WriterOK(state) ==
    /\ state.pc \in {"idle", "objects", "persist_object", "persist_manifest", "returning"}
    /\ state.pc # "idle" => state.result = "none"
    /\ state.pc # "idle" => Sound(state.release)
    /\ state.pc # "idle" => ObjectsOf(state.release) \ state.todo \subseteq Intact
    /\ state.pc = "persist_manifest" => state.todo = {}

WritersOK ==
    /\ DOMAIN writer = Writers
    /\ \A w \in Writers : WriterOK(writer[w])

FilesOK ==
    /\ badObjects \subseteq objects
    /\ badReleases \subseteq releases
    /\ IsFiniteSet(releases)
    /\ \A r \in releases : Sound(r)
    /\ damages = 0 => \A r \in releases : ObjectsOf(r) \subseteq Intact

FreshOK ==
    /\ fresh \subseteq releases \ badReleases
    /\ \A r \in fresh : ObjectsOf(r) \subseteq Intact

CountsOK ==
    /\ leftovers \in Nat /\ crashes \in Nat /\ leftovers <= crashes /\ crashes <= MaxCrashes
    /\ damages \in Nat
    /\ begun \in Nat /\ begun <= MaxReleases
    /\ catalog.pc \in {"idle", "listing", "reading"}

\* In a repository nobody else touched, a release that is about to be reported was not.
ReportedOK ==
    damages = 0 =>
        /\ created \subseteq releases
        /\ \A w \in Writers :
              writer[w].pc = "returning" => writer[w].release \in releases \ created
        /\ \A v, w \in Writers :
              v # w /\ writer[v].pc = "returning" /\ writer[w].pc = "returning" =>
                  writer[v].release # writer[w].release

Inv == WritersOK /\ FilesOK /\ FreshOK /\ CountsOK /\ ReportedOK

------------------------------------------------------------------------------
(* Steps of one process *)

\* A process takes a step that removes nothing from the repository.
LEMMA WritersStep ==
    ASSUME WritersOK, NEW w \in Writers, NEW state,
           writer' = [writer EXCEPT ![w] = state], WriterOK(state)',
           Intact \subseteq Intact', releases \subseteq releases', damages' = damages
    PROVE  WritersOK'
<1>1. DOMAIN writer' = Writers /\ writer'[w] = state
  BY DEF WritersOK
<1>2. ASSUME NEW v \in Writers
      PROVE  WriterOK(writer[v])'
  <2>1. CASE v = w
    BY <1>1, <2>1
  <2>2. CASE v # w
    <3>1. writer'[v] = writer[v]
      BY <2>2 DEF WritersOK
    <3>2. WriterOK(writer[v])
      BY DEF WritersOK
    <3> QED
      BY <3>1, <3>2 DEF WriterOK, Sound
  <2> QED
    BY <2>1, <2>2
<1> QED
  BY <1>1, <1>2 DEF WritersOK

\* A process is at rest in any state of the repository.
LEMMA IdleOK ==
    ASSUME NEW result PROVE WriterOK(Idle(result))' /\ Idle(result).pc = "idle"
BY DEF WriterOK, Idle

\* A process that is not about to report keeps what is about to be reported.
LEMMA ReportedStep ==
    ASSUME WritersOK, ReportedOK, NEW w \in Writers, NEW state, state.pc # "returning",
           writer' = [writer EXCEPT ![w] = state], UNCHANGED <<releases, created, damages>>
    PROVE  ReportedOK'
<1>1. ASSUME NEW v \in Writers, writer'[v].pc = "returning"
      PROVE  writer[v].pc = "returning" /\ writer'[v].release = writer[v].release
  <2>1. CASE v = w
    BY <1>1, <2>1 DEF WritersOK
  <2>2. CASE v # w
    BY <1>1, <2>2 DEF WritersOK
  <2> QED
    BY <2>1, <2>2
<1> QED
  BY <1>1 DEF ReportedOK

\* A step of a process that leaves the manifests alone and adds at most intact objects.
LEMMA ObjectStep ==
    ASSUME Inv, objects \subseteq objects',
           UNCHANGED <<releases, badObjects, badReleases, damages, fresh>>,
           WritersOK', CountsOK', ReportedOK'
    PROVE  Inv'
<1>1. Intact \subseteq Intact'
  BY DEF Intact
<1>2. FilesOK'
  BY <1>1 DEF Inv, FilesOK, Sound
<1>3. FreshOK'
  BY <1>1 DEF Inv, FreshOK
<1> QED
  BY <1>2, <1>3 DEF Inv

\* An object that was found or renamed no longer has to be written.
LEMMA WroteOK ==
    ASSUME NEW release, NEW todo, NEW object, Sound(release),
           ObjectsOf(release) \ todo \subseteq Intact,
           object \in Intact', Intact \subseteq Intact', UNCHANGED <<releases, damages>>
    PROVE  WriterOK(At("objects", release, todo \ {object}, NoRelease))'
<1> DEFINE state == At("objects", release, todo \ {object}, NoRelease)
<1>1. /\ state.pc = "objects" /\ state.release = release /\ state.todo = todo \ {object}
      /\ state.result = "none"
  BY DEF At
<1>2. Sound(release)'
  BY DEF Sound
<1>3. ObjectsOf(release) \ (todo \ {object}) \subseteq Intact'
  OBVIOUS
<1> QED
  BY <1>1, <1>2, <1>3 DEF WriterOK, ObjectsOf, DependencyObjects

\* A step of a process that goes on with sound work, or gives up, keeps the invariant.
LEMMA GoesOK ==
    ASSUME Inv, NEW w \in Writers, NEW state, Goes(w, state), WriterOK(state)',
           state.pc # "returning", objects \subseteq objects',
           UNCHANGED <<releases, badObjects, badReleases, leftovers, fresh>>
    PROVE  Inv'
<1>1. Intact \subseteq Intact'
  BY DEF Intact
<1>2. WritersOK'
  BY <1>1, WritersStep DEF Goes, Inv
<1>3. CountsOK'
  BY DEF Goes, Inv, CountsOK
<1>4. ReportedOK'
  BY ReportedStep DEF Goes, Inv
<1> QED
  BY <1>2, <1>3, <1>4, ObjectStep DEF Goes

\* An object that is there is compared: it is intact, or the creation ends.
LEMMA VerifiedOK ==
    ASSUME Inv, NEW w \in Writers, NEW object, writer[w].pc # "idle", Verified(w, object),
           UNCHANGED <<objects, releases, badObjects, badReleases, leftovers, fresh>>
    PROVE  Inv'
<1>1. CASE ObjectReads(object)
  <2>1. object \in Intact' /\ Intact \subseteq Intact'
    BY <1>1 DEF ObjectReads, Intact
  <2>2. Sound(writer[w].release) /\ ObjectsOf(writer[w].release) \ writer[w].todo \subseteq Intact
    BY DEF Inv, WritersOK, WriterOK
  <2>3. UNCHANGED <<releases, damages>> /\ Goes(w, Wrote(w, object))
    BY <1>1 DEF Verified, Goes
  <2> DEFINE release == writer[w].release
             todo == writer[w].todo
             state == At("objects", release, todo \ {object}, NoRelease)
  <2> HIDE DEF release, todo
  <2>4. \A r, t : r = release /\ t = todo =>
            WriterOK(At("objects", r, t \ {object}, NoRelease))'
    BY <2>1, <2>2, <2>3, WroteOK DEF release, todo
  <2>5. state.pc = "objects"
    BY DEF At
  <2> QED
    BY <2>3, <2>4, <2>5, GoesOK DEF Wrote, release, todo
<1>2. CASE ~ObjectReads(object)
  BY <1>2, IdleOK, GoesOK DEF Verified
<1> QED
  BY <1>1, <1>2

------------------------------------------------------------------------------
(* The actions *)

\* A creation begins with all of its objects to write and a parent that reads.
LEMMA StartOK ==
    ASSUME Inv, NEW w \in Writers, NEW release, Sound(release), Start(w, release),
           begun < MaxReleases
    PROVE  Inv'
<1> DEFINE state == At("objects", release, ObjectsOf(release), NoRelease)
<1>1. Sound(release)'
  BY DEF Sound, Start
<1>2. WriterOK(state)' /\ state.pc # "returning"
  BY <1>1 DEF WriterOK, At, ObjectsOf, DependencyObjects
<1>3. Intact \subseteq Intact' /\ writer' = [writer EXCEPT ![w] = state]
  BY DEF Intact, Start
<1>4. WritersOK'
  BY <1>2, <1>3, WritersStep DEF Start, Inv
<1>5. CountsOK'
  BY LimitsAssumption DEF Start, Inv, CountsOK
<1>6. ReportedOK'
  BY <1>2, <1>3, ReportedStep DEF Start, Inv
<1> QED
  BY <1>4, <1>5, <1>6, ObjectStep DEF Start

\* A creation that is refused writes nothing.
LEMMA RefusedOK ==
    ASSUME Inv, NEW w \in Writers, create_refused(w) PROVE Inv'
<1>1. /\ writer' = [writer EXCEPT ![w] = Idle("none")] /\ Intact' = Intact
      /\ UNCHANGED <<objects, releases, badObjects, badReleases, damages, fresh, created,
                     leftovers, crashes, begun, catalog>>
  BY DEF create_refused, Intact
<1>2. WritersOK'
  BY <1>1, IdleOK, WritersStep DEF Inv
<1>3. CountsOK'
  BY <1>1 DEF Inv, CountsOK
<1>4. ReportedOK'
  BY <1>1, IdleOK, ReportedStep DEF Inv
<1> QED
  BY <1>1, <1>2, <1>3, <1>4, ObjectStep

\* A release or a child release begun keeps the invariant.
LEMMA CreateOK ==
    ASSUME Inv, NEW w \in Writers, create_release(w) \/ create_child_release(w)
    PROVE  Inv'
<1>1. CASE create_release(w)
  <2>1. PICK doc \in Documents, rev \in Revisions, deps \in Dependencies, audit \in Audits :
            Start(w, Payload(<<>>, doc, rev, deps, audit))
    BY <1>1 DEF create_release
  <2>2. Sound(Payload(<<>>, doc, rev, deps, audit))
    BY DEF Sound, Payload
  <2> QED
    BY <1>1, <2>1, <2>2, StartOK DEF create_release
<1>2. CASE create_child_release(w)
  <2>1. PICK parent \in releases, rev \in Revisions, deps \in Dependencies, audit \in Audits :
            Start(w, Payload(<<parent>>, parent.doc, rev, deps, audit))
    BY <1>2 DEF create_child_release
  <2>2. parent.doc \in Documents
    BY DEF Inv, FilesOK, Sound
  <2>3. Sound(Payload(<<parent>>, parent.doc, rev, deps, audit))
    BY <2>2 DEF Sound, Payload
  <2> QED
    BY <1>2, <2>1, <2>3, StartOK DEF create_child_release
<1> QED
  BY <1>1, <1>2

\* A look for the object file keeps the invariant: a damaged one is refused.
LEMMA LookObjectOK ==
    ASSUME Inv, NEW w \in Writers, look_object(w) PROVE Inv'
<1>1. PICK object \in writer[w].todo :
          IF object \in objects THEN Verified(w, object)
          ELSE Goes(w, At("persist_object", writer[w].release, writer[w].todo, object))
  BY DEF look_object
<1>2. UNCHANGED <<objects, releases, badObjects, badReleases, leftovers, fresh>>
      /\ writer[w].pc = "objects"
  BY DEF look_object
<1>3. CASE object \in objects
  BY <1>1, <1>2, <1>3, VerifiedOK
<1>4. CASE object \notin objects
  <2>1. PICK release, todo : release = writer[w].release /\ todo = writer[w].todo
    OBVIOUS
  <2>2. Sound(release) /\ ObjectsOf(release) \ todo \subseteq Intact
    BY <1>2, <2>1 DEF Inv, WritersOK, WriterOK
  <2>3. damages' = damages /\ Goes(w, At("persist_object", release, todo, object))
    BY <1>1, <1>4, <2>1 DEF Goes
  <2>4. /\ WriterOK(At("persist_object", release, todo, object))'
        /\ At("persist_object", release, todo, object).pc = "persist_object"
    BY <1>2, <2>2, <2>3 DEF WriterOK, At, Sound, Intact, ObjectsOf, DependencyObjects
  <2> QED
    BY <1>2, <2>3, <2>4, GoesOK
<1> QED
  BY <1>3, <1>4

\* The object file put in place keeps the invariant.
LEMMA PersistObjectOK ==
    ASSUME Inv, NEW w \in Writers, persist_object(w) PROVE Inv'
<1> DEFINE object == writer[w].object
<1>1. UNCHANGED <<releases, badObjects, badReleases, leftovers, fresh>>
      /\ writer[w].pc = "persist_object"
  BY DEF persist_object
<1>2. CASE object \in objects
  BY <1>1, <1>2, VerifiedOK DEF persist_object
<1>3. CASE object \notin objects
  <2>1. PICK release, todo, o :
            release = writer[w].release /\ todo = writer[w].todo /\ o = object
    OBVIOUS
  <2>2. Sound(release) /\ ObjectsOf(release) \ todo \subseteq Intact
    BY <1>1, <2>1 DEF Inv, WritersOK, WriterOK
  <2>3. objects' = objects \cup {o} /\ Goes(w, At("objects", release, todo \ {o}, NoRelease))
    BY <1>3, <2>1 DEF persist_object, Wrote
  <2>4. o \in Intact' /\ Intact \subseteq Intact' /\ damages' = damages
    BY <1>1, <1>3, <2>1, <2>3 DEF Inv, FilesOK, Intact, Goes
  <2>5. WriterOK(At("objects", release, todo \ {o}, NoRelease))'
    BY <1>1, <2>2, <2>4, WroteOK
  <2>6. At("objects", release, todo \ {o}, NoRelease).pc = "objects"
    BY DEF At
  <2> QED
    BY <1>1, <2>3, <2>5, <2>6, GoesOK
<1> QED
  BY <1>2, <1>3

\* A look for the manifest keeps the invariant.
LEMMA LookManifestOK ==
    ASSUME Inv, NEW w \in Writers, look_manifest(w) PROVE Inv'
<1>1. UNCHANGED <<objects, releases, badObjects, badReleases, leftovers, fresh>>
      /\ writer[w].pc = "objects" /\ writer[w].todo = {}
  BY DEF look_manifest
<1>2. CASE writer[w].release \in releases
  BY <1>1, <1>2, IdleOK, GoesOK DEF look_manifest
<1>3. CASE writer[w].release \notin releases
  <2>1. PICK release : release = writer[w].release
    OBVIOUS
  <2>2. Sound(release) /\ ObjectsOf(release) \subseteq Intact
    BY <1>1, <2>1 DEF Inv, WritersOK, WriterOK
  <2>3. damages' = damages /\ Goes(w, At("persist_manifest", release, {}, NoRelease))
    BY <1>3, <2>1 DEF look_manifest, Goes
  <2>4. /\ WriterOK(At("persist_manifest", release, {}, NoRelease))'
        /\ At("persist_manifest", release, {}, NoRelease).pc = "persist_manifest"
    BY <1>1, <2>2, <2>3 DEF WriterOK, At, Sound, Intact, ObjectsOf, DependencyObjects
  <2> QED
    BY <1>1, <2>3, <2>4, GoesOK
<1> QED
  BY <1>2, <1>3

\* The manifest put in place keeps the invariant: its object and its parents are there.
LEMMA PersistManifestOK ==
    ASSUME Inv, NEW w \in Writers, persist_manifest(w) PROVE Inv'
<1>1. UNCHANGED <<objects, badObjects, badReleases, leftovers, catalog, begun, crashes, damages>>
      /\ writer[w].pc = "persist_manifest"
  BY DEF persist_manifest, Published, Goes
<1>2. CASE writer[w].release \in releases
  BY <1>1, <1>2, IdleOK, GoesOK DEF persist_manifest, Goes
<1>3. CASE writer[w].release \notin releases
  <2>1. PICK release : release = writer[w].release
    OBVIOUS
  <2>2. Sound(release) /\ ObjectsOf(release) \subseteq Intact
    BY <1>1, <2>1 DEF Inv, WritersOK, WriterOK
  <2> DEFINE state == At("returning", release, {}, NoRelease)
  <2>3. /\ releases' = releases \cup {release} /\ fresh' = fresh \cup {release}
        /\ writer' = [writer EXCEPT ![w] = state] /\ created' = created
    BY <1>3, <2>1 DEF persist_manifest, Published, Goes
  <2>4. Intact' = Intact
    BY <1>1 DEF Intact
  <2>10. /\ state.pc = "returning" /\ state.release = release /\ state.todo = {}
         /\ state.result = "none"
    BY DEF At
  <2>11. WriterOK(state)'
    <3>1. Sound(release)'
      BY <1>1, <2>2, <2>3 DEF Sound
    <3> QED
      BY <2>2, <2>4, <2>10, <3>1 DEF WriterOK, ObjectsOf, DependencyObjects
  <2> HIDE DEF state
  <2>5. WritersOK'
    BY <1>1, <2>3, <2>4, <2>11, WritersStep DEF Inv
  <2>6. FilesOK'
    <3>1. IsFiniteSet(releases')
      BY <2>3, FS_AddElement DEF Inv, FilesOK
    <3>2. \A r \in releases' : Sound(r)'
      BY <1>1, <2>2, <2>3 DEF Inv, FilesOK, Sound
    <3>3. damages' = 0 => \A r \in releases' : ObjectsOf(r) \subseteq Intact'
      BY <1>1, <2>2, <2>3, <2>4 DEF Inv, FilesOK
    <3> QED
      BY <1>1, <2>3, <3>1, <3>2, <3>3 DEF Inv, FilesOK, ObjectsOf, DependencyObjects
  <2>7. FreshOK'
    <3>1. fresh' \subseteq releases' \ badReleases'
      BY <1>1, <1>3, <2>1, <2>3 DEF Inv, FreshOK, FilesOK
    <3>2. \A r \in fresh' : ObjectsOf(r) \subseteq Intact'
      BY <2>2, <2>3, <2>4 DEF Inv, FreshOK
    <3> QED
      BY <3>1, <3>2 DEF FreshOK, ObjectsOf, DependencyObjects
  <2>8. CountsOK'
    BY <1>1, <2>3 DEF Inv, CountsOK
  <2>9. ReportedOK'
    <3> SUFFICES ASSUME damages' = 0 PROVE ReportedOK'
      BY DEF ReportedOK
    <3>1. /\ created \subseteq releases /\ release \notin releases
          /\ \A v \in Writers : writer[v].pc = "returning" => writer[v].release \in releases \ created
      BY <1>1, <1>3, <2>1 DEF Inv, ReportedOK
    <3>2. writer'[w] = state /\ \A v \in Writers \ {w} : writer'[v] = writer[v]
      BY <2>3 DEF Inv, WritersOK
    <3>3. \A v \in Writers \ {w} : writer'[v].pc = "returning" =>
              writer'[v].release \in releases \ created /\ writer'[v].release # release
      BY <3>1, <3>2
    <3>4. ASSUME NEW u \in Writers, NEW v \in Writers, u # v,
                 writer'[u].pc = "returning", writer'[v].pc = "returning"
          PROVE  writer'[u].release # writer'[v].release
      <4>1. CASE u = w
        BY <2>10, <3>2, <3>3, <3>4, <4>1
      <4>2. CASE v = w
        BY <2>10, <3>2, <3>3, <3>4, <4>2
      <4>3. CASE u # w /\ v # w
        BY <1>1, <3>2, <3>4, <4>3 DEF Inv, ReportedOK
      <4> QED
        BY <4>1, <4>2, <4>3
    <3>5. \A v \in Writers : writer'[v].pc = "returning" => writer'[v].release \in releases' \ created'
      BY <2>3, <2>10, <3>1, <3>2, <3>3
    <3>6. created' \subseteq releases'
      BY <2>3, <3>1
    <3> QED
      BY <3>4, <3>5, <3>6 DEF ReportedOK
  <2> QED
    BY <2>5, <2>6, <2>7, <2>8, <2>9 DEF Inv
<1> QED
  BY <1>2, <1>3

\* A creation that returns keeps the invariant: what it reports nobody else will.
LEMMA ReturnOK ==
    ASSUME Inv, NEW w \in Writers, return_manifest(w) PROVE Inv'
<1>1. PICK state :
        /\ writer' = [writer EXCEPT ![w] = state]
        /\ \/ state = Idle("created") /\ created' = created \cup {writer[w].release}
           \/ state = Idle("none") /\ created' = created
  BY DEF return_manifest
<1>2. /\ writer[w].pc = "returning" /\ Intact' = Intact
      /\ UNCHANGED <<objects, releases, badObjects, badReleases, damages, fresh,
                     leftovers, crashes, begun, catalog>>
  BY DEF return_manifest, Intact
<1>3. WriterOK(state)' /\ state.pc = "idle"
  BY <1>1, IdleOK
<1>4. WritersOK'
  BY <1>1, <1>2, <1>3, WritersStep DEF Inv
<1>5. CountsOK'
  BY <1>2 DEF Inv, CountsOK
<1>6. ReportedOK'
  <2> SUFFICES ASSUME damages' = 0 PROVE ReportedOK'
    BY DEF ReportedOK
  <2>1. created' \subseteq releases' /\ created' \subseteq created \cup {writer[w].release}
    BY <1>1, <1>2 DEF Inv, ReportedOK
  <2>2. \A v \in Writers : writer'[v].pc = "returning" => v # w /\ writer'[v] = writer[v]
    BY <1>1, <1>3 DEF Inv, WritersOK
  <2>3. \A v \in Writers : writer'[v].pc = "returning" => writer'[v].release \in releases' \ created'
    BY <1>2, <2>1, <2>2 DEF Inv, ReportedOK
  <2>4. ASSUME NEW u \in Writers, NEW v \in Writers, u # v,
               writer'[u].pc = "returning", writer'[v].pc = "returning"
        PROVE  writer'[u].release # writer'[v].release
    BY <1>2, <2>2, <2>4 DEF Inv, ReportedOK
  <2> QED
    BY <2>1, <2>3, <2>4 DEF ReportedOK
<1> QED
  BY <1>2, <1>4, <1>5, <1>6, ObjectStep

\* A failed write or a crash keeps the invariant: only temporary files are left.
LEMMA CrashOK ==
    ASSUME Inv, NEW w \in Writers, write_fails(w) \/ crash(w) PROVE Inv'
<1>1. CASE write_fails(w)
  BY <1>1, IdleOK, GoesOK DEF write_fails
<1>2. CASE crash(w)
  <2>1. Intact' = Intact
    BY <1>2 DEF crash, Intact
  <2>2. WritersOK'
    BY <1>2, <2>1, IdleOK, WritersStep DEF crash, Inv
  <2>3. CountsOK'
    BY <1>2, LimitsAssumption DEF crash, Inv, CountsOK
  <2>4. ReportedOK'
    BY <1>2, IdleOK, ReportedStep DEF crash, Inv
  <2> QED
    BY <1>2, <2>2, <2>3, <2>4, ObjectStep DEF crash
<1> QED
  BY <1>1, <1>2

\* Something else changes a file: no process is writing, and nothing counts as created since.
LEMMA DamageOK ==
    ASSUME Inv, Damage PROVE Inv'
<1>1. /\ damages' = damages + 1 /\ damages' # 0 /\ fresh' = {}
      /\ UNCHANGED <<leftovers, writer, catalog, created, begun, crashes>>
      /\ \A w \in Writers : writer[w].pc = "idle"
  BY DEF Damage, Inv, CountsOK
<1>2. /\ badObjects' \subseteq objects' /\ badReleases' \subseteq releases'
      /\ releases' \subseteq releases
  BY DEF Damage, Inv, FilesOK
<1>3. WritersOK'
  BY <1>1 DEF Inv, WritersOK, WriterOK
<1>4. IsFiniteSet(releases')
  BY <1>2, FS_Subset DEF Inv, FilesOK
<1>5. FilesOK'
  BY <1>1, <1>2, <1>4 DEF Inv, FilesOK, Sound
<1>6. FreshOK' /\ CountsOK' /\ ReportedOK'
  BY <1>1 DEF Inv, FreshOK, CountsOK, ReportedOK
<1> QED
  BY <1>3, <1>5, <1>6 DEF Inv

\* Reading the catalog changes no file.
LEMMA CatalogOK ==
    ASSUME Inv, open_directory \/ list_directory \/ read_catalog PROVE Inv'
<1>1. /\ UNCHANGED <<objects, releases, badObjects, badReleases, leftovers, writer, fresh,
                     created, begun, crashes, damages>>
      /\ catalog'.pc \in {"idle", "listing", "reading"}
  BY DEF open_directory, list_directory, read_catalog, Catalog
<1>2. WritersOK'
  BY <1>1 DEF Inv, WritersOK, WriterOK, Sound, Intact
<1>3. CountsOK'
  BY <1>1 DEF Inv, CountsOK
<1>4. ReportedOK'
  BY <1>1 DEF Inv, ReportedOK
<1> QED
  BY <1>1, <1>2, <1>3, <1>4, ObjectStep

------------------------------------------------------------------------------
\* The empty repository satisfies the invariant.
LEMMA InitOK == ASSUME Init PROVE Inv
<1>1. WritersOK
  BY DEF Init, WritersOK, WriterOK, Idle
<1>2. FilesOK /\ ReportedOK
  BY FS_EmptySet DEF Init, FilesOK, ReportedOK, Idle
<1>3. FreshOK /\ CountsOK
  BY LimitsAssumption DEF Init, FreshOK, CountsOK, Catalog
<1> QED
  BY <1>1, <1>2, <1>3 DEF Inv

\* Every step keeps the invariant.
LEMMA NextOK == ASSUME Inv, [Next]_vars PROVE Inv'
<1>1. ASSUME NEW w \in Writers, Creation(w) PROVE Inv'
  BY <1>1, RefusedOK, CreateOK, LookObjectOK, PersistObjectOK, LookManifestOK,
     PersistManifestOK, ReturnOK, CrashOK
  DEF Creation
<1>2. CASE Damage
  BY <1>2, DamageOK
<1>3. CASE open_directory \/ list_directory \/ read_catalog
  BY <1>3, CatalogOK
<1>4. CASE UNCHANGED vars
  <2>1. WritersOK'
    BY <1>4 DEF vars, Inv, WritersOK, WriterOK, Sound, Intact
  <2>2. CountsOK' /\ ReportedOK'
    BY <1>4 DEF vars, Inv, CountsOK, ReportedOK
  <2> QED
    BY <1>4, <2>1, <2>2, ObjectStep DEF vars
<1> QED
  BY <1>1, <1>2, <1>3, <1>4 DEF Next

\* The invariant holds in every state, for every value of the constants.
LEMMA Invariance == Spec => []Inv
<1>1. Init => Inv
  BY InitOK
<1>2. Inv /\ [Next]_vars => Inv'
  BY NextOK
<1> QED
  BY <1>1, <1>2, PTL DEF Spec

\* Every variable keeps its type, and no failed write leaves a temporary file: at most one is
\* left for every process that died (write_manifest).
THEOREM TypeCorrect == Spec => []TypeOK
<1>1. Inv => TypeOK
  BY LimitsAssumption DEF Inv, WritersOK, WriterOK, FilesOK, Sound, CountsOK, TypeOK
<1> QED
  BY <1>1, Invariance, PTL

\* In a repository nobody else touched every release has all of its objects, intact, and its
\* parent, of the same document (create_release_internal: objects first, the manifest last).
THEOREM ReleasesWhole == Spec => []ReleaseIsWhole
<1>1. Inv => ReleaseIsWhole
  BY DEF Inv, FilesOK, Sound, Intact, ReleaseIsWhole
<1> QED
  BY <1>1, Invariance, PTL

\* A process whose creation goes on hears that its release was created only by the last step
\* of create.
LEMMA ReportsAtReturn ==
    ASSUME Inv, [Next]_vars, NEW w \in Writers, writer[w].pc # "idle",
           writer'[w].result = "created"
    PROVE  writer[w].pc = "returning"
<1>1. writer[w].result = "none" /\ DOMAIN writer = Writers
  BY DEF Inv, WritersOK, WriterOK
<1>2. writer' # writer
  BY <1>1
<1>3. PICK v \in Writers : Creation(v)
  BY <1>2 DEF Next, Damage, open_directory, list_directory, read_catalog, vars
<1>4. v = w
  <2> SUFFICES ASSUME v # w PROVE FALSE
    OBVIOUS
  <2>1. ASSUME NEW state, writer' = [writer EXCEPT ![v] = state]
        PROVE  writer'[w] = writer[w]
    BY <1>1, <2>1
  <2>2. ASSUME NEW state, Goes(v, state) PROVE writer'[w] = writer[w]
    BY <2>1, <2>2 DEF Goes
  <2>3. ASSUME NEW object, Verified(v, object) PROVE writer'[w] = writer[w]
    BY <2>2, <2>3 DEF Verified
  <2>4. CASE create_release(v) \/ create_child_release(v)
    <3>1. PICK release : Start(v, release)
      BY <2>4 DEF create_release, create_child_release
    <3>2. writer'[w] = writer[w]
      BY <2>1, <3>1 DEF Start
    <3> QED
      BY <1>1, <3>2
  <2>5. CASE create_refused(v) \/ return_manifest(v) \/ crash(v)
    <3>1. writer'[w] = writer[w]
      BY <2>1, <2>5 DEF create_refused, return_manifest, crash
    <3> QED
      BY <1>1, <3>1
  <2>6. CASE \/ look_object(v) \/ persist_object(v) \/ look_manifest(v)
             \/ persist_manifest(v) \/ write_fails(v)
    <3>1. writer'[w] = writer[w]
      BY <2>2, <2>3, <2>6 DEF look_object, persist_object, look_manifest, persist_manifest,
         Published, write_fails
    <3> QED
      BY <1>1, <3>1
  <2> QED
    BY <1>3, <2>4, <2>5, <2>6 DEF Creation
<1>5. CASE return_manifest(w)
  BY <1>5 DEF return_manifest
<1>6. CASE ~return_manifest(w)
  <2>1. ASSUME NEW state, state.result = "none", writer' = [writer EXCEPT ![w] = state]
        PROVE  writer'[w].result = "none"
    BY <1>1, <2>1
  <2>2. \A pc, release, todo, object : At(pc, release, todo, object).result = "none"
    BY DEF At
  <2>3. Idle("none").result = "none"
    BY DEF Idle
  <2>4. ASSUME NEW state, state.result = "none", Goes(w, state)
        PROVE  writer'[w].result = "none"
    BY <2>1, <2>4 DEF Goes
  <2>5. ASSUME NEW object, Verified(w, object) PROVE writer'[w].result = "none"
    BY <2>2, <2>3, <2>4, <2>5 DEF Verified, Wrote
  <2>6. CASE create_refused(w)
    BY <2>1, <2>3, <2>6 DEF create_refused
  <2>7. CASE create_release(w) \/ create_child_release(w)
    <3>1. PICK release : Start(w, release)
      BY <2>7 DEF create_release, create_child_release
    <3> QED
      BY <2>1, <2>2, <3>1 DEF Start
  <2>8. CASE look_object(w)
    BY <2>2, <2>4, <2>5, <2>8 DEF look_object
  <2>9. CASE persist_object(w)
    BY <2>2, <2>4, <2>5, <2>9 DEF persist_object, Wrote
  <2>10. CASE look_manifest(w) \/ persist_manifest(w)
    BY <2>2, <2>3, <2>4, <2>10 DEF look_manifest, persist_manifest, Published
  <2>11. CASE write_fails(w) \/ crash(w)
    BY <2>1, <2>3, <2>4, <2>11 DEF write_fails, crash
  <2> QED
    BY <1>3, <1>4, <1>6, <2>6, <2>7, <2>8, <2>9, <2>10, <2>11 DEF Creation
<1> QED
  BY <1>5, <1>6

\* Of any number of processes that create the same release at most one hears that it did, and
\* then the release is there, whoever was cancelled or died after a rename (write_manifest,
\* persist_noclobber, LocalPdmWorkflow::create).
THEOREM CreatedOnce == Spec => OneCreator
<1>1. Inv /\ [Next]_vars =>
        \A w \in Writers :
            damages = 0 /\ writer[w].pc # "idle" /\ writer'[w].result = "created" =>
                writer[w].release \in releases \ created
  BY ReportsAtReturn DEF Inv, ReportedOK
<1> QED
  BY <1>1, Invariance, PTL DEF Spec, OneCreator

\* When every document file is within the limit of a read, a release that was created opens,
\* whatever was damaged before it (verify_existing_object, open_release).
THEOREM CreatedReleasesOpen ==
    ASSUME Large = {} PROVE Spec => []CreatedOpens
<1>1. Inv => CreatedOpens
  BY DEF Inv, FreshOK, Intact, CreatedOpens, Opens, ManifestReads, ObjectReads, IsLarge
<1> QED
  BY <1>1, Invariance, PTL

------------------------------------------------------------------------------
(* Induction over the natural numbers, for sets *)

Below == {p \in Nat \X Nat : p[1] < p[2]}

\* A set of natural numbers that is not empty has a least element.
LEMMA LeastElement ==
    ASSUME NEW T \in SUBSET Nat, T # {}
    PROVE  \E x \in T : \A y \in T : x <= y
<1>1. IsWellFoundedOn(Below, Nat)
  BY NatLessThanWellFounded, Zenon DEF OpToRel, Below
<1>2. \E x \in T : \A y \in T : ~(<<y, x>> \in Below)
  BY <1>1, WFMin, Zenon
<1>3. PICK x \in T : \A y \in T : ~(<<y, x>> \in Below)
  BY <1>2
<1>4. ASSUME NEW y \in T PROVE x <= y
  <2>1. ~(<<y, x>> \in Below) /\ x \in Nat /\ y \in Nat
    BY <1>3
  <2> QED
    BY <2>1 DEF Below
<1> QED
  BY <1>4

\* A set that has 0, and n + 1 whenever it has n, has every natural number.
LEMMA SetInduction ==
    ASSUME NEW S, 0 \in S, \A n \in Nat : n \in S => n + 1 \in S
    PROVE  Nat \subseteq S
<1> SUFFICES ASSUME Nat \ S # {} PROVE FALSE
  OBVIOUS
<1>1. PICK x \in Nat \ S : \A y \in Nat \ S : x <= y
  <2>1. PICK T \in SUBSET Nat : T = Nat \ S
    OBVIOUS
  <2> QED
    BY <2>1, LeastElement
<1>2. x - 1 \in Nat /\ ~(x <= x - 1) /\ (x - 1) + 1 = x
  OBVIOUS
<1> QED
  BY <1>1, <1>2

------------------------------------------------------------------------------
(* Lineages *)

\* A set of releases that has the parent of each of them.
Closed(U) == \A q \in U : q.parent = <<>> \/ \E p \in U : q.parent = <<p>>
Good(r) == \E U : r \in U /\ Closed(U)

\* One more generation of the line before.
Longer(before, n) ==
    IF Len(before) = n /\ before[n].parent # <<>> THEN before \o before[n].parent ELSE before

IsLine(f, r, m) == f = [n \in 1..m |-> IF n = 1 THEN <<r>> ELSE Longer(f[n - 1], n - 1)]

\* The recursive definition of a line has a solution.
LEMMA LineExists ==
    ASSUME NEW r, NEW m \in Nat PROVE \E f : IsLine(f, r, m)
<1> DEFINE S == {k \in Nat : \E f : IsLine(f, r, k)}
<1>1. 0 \in S
  <2>1. IsLine([n \in 1..0 |-> 0], r, 0)
    BY DEF IsLine
  <2> QED
    BY <2>1
<1>2. ASSUME NEW k \in Nat, k \in S PROVE k + 1 \in S
  <2>1. PICK f : IsLine(f, r, k)
    BY <1>2
  <2>2. PICK last : last = IF k = 0 THEN <<r>> ELSE Longer(f[k], k)
    OBVIOUS
  <2>3. PICK g : g = [n \in 1..(k + 1) |-> IF n = k + 1 THEN last ELSE f[n]]
    OBVIOUS
  <2>4. ASSUME NEW n \in 1..(k + 1)
        PROVE  g[n] = IF n = 1 THEN <<r>> ELSE Longer(g[n - 1], n - 1)
    <3>1. CASE n = k + 1
      BY <2>2, <2>3, <3>1
    <3>2. CASE n # k + 1
      <4>1. n \in 1..k /\ g[n] = f[n]
        BY <2>3, <3>2
      <4>2. n # 1 => g[n - 1] = f[n - 1]
        BY <2>3, <4>1
      <4>3. f[n] = IF n = 1 THEN <<r>> ELSE Longer(f[n - 1], n - 1)
        BY <2>1, <4>1 DEF IsLine
      <4> QED
        BY <4>1, <4>2, <4>3
    <3> QED
      BY <3>1, <3>2
  <2>5. IsLine(g, r, k + 1)
    BY <2>3, <2>4 DEF IsLine
  <2> QED
    BY <2>5
<1>3. Nat \subseteq S
  <2> HIDE DEF S
  <2> QED
    BY <1>1, <1>2, SetInduction
<1> QED
  BY <1>3

\* What Lineage is.
LEMMA LineageIs ==
    ASSUME NEW r PROVE \E f : IsLine(f, r, MaxDepth) /\ Lineage(r) = f[MaxDepth]
<1> DEFINE line == CHOOSE f : IsLine(f, r, MaxDepth)
<1>1. IsLine(line, r, MaxDepth)
  BY LineExists, LimitsAssumption, Zenon
<1>2. Lineage(r) = line[MaxDepth]
  BY Zenon DEF Lineage, IsLine, Longer
<1> QED
  BY <1>1, <1>2

\* A line of releases from r: each the parent of the one before.
Chain(L, U, r) ==
    /\ L \in Seq(U) /\ Len(L) >= 1 /\ L[1] = r
    /\ \A i \in 1..(Len(L) - 1) : L[i].parent = <<L[i + 1]>>

\* A line of n generations, or a whole one that is shorter.
LineOK(L, U, r, n) ==
    /\ Chain(L, U, r) /\ Len(L) <= n
    /\ Len(L) < n => L[Len(L)].parent = <<>>

\* A line that is made longer by a parent is a line.
LEMMA LongerOK ==
    ASSUME NEW U, Closed(U), NEW r \in U, NEW L, NEW n \in Nat \ {0}, LineOK(L, U, r, n)
    PROVE  LineOK(Longer(L, n), U, r, n + 1)
<1>1. L \in Seq(U) /\ Len(L) \in Nat /\ Len(L) >= 1 /\ Len(L) <= n /\ L[1] = r
  BY DEF LineOK, Chain
<1>2. CASE Len(L) = n /\ L[n].parent # <<>>
  <2>1. L[n] \in U
    BY <1>1, <1>2
  <2>2. PICK p \in U : L[n].parent = <<p>>
    BY <1>2, <2>1 DEF Closed
  <2>3. PICK M : M = L \o <<p>>
    OBVIOUS
  <2>4. Longer(L, n) = M
    BY <1>2, <2>2, <2>3 DEF Longer
  <2>5. /\ M \in Seq(U) /\ Len(M) = n + 1 /\ M[n + 1] = p
        /\ \A i \in 1..n : M[i] = L[i]
    BY <1>1, <1>2, <2>3
  <2>6. ASSUME NEW i \in 1..n PROVE M[i].parent = <<M[i + 1]>>
    <3>1. CASE i = n
      BY <2>2, <2>5, <3>1
    <3>2. CASE i # n
      <4>1. i \in 1..(Len(L) - 1) /\ i + 1 \in 1..n
        BY <1>2, <3>2
      <4> QED
        BY <2>5, <4>1 DEF LineOK, Chain
    <3> QED
      BY <3>1, <3>2
  <2>7. M[1] = r
    BY <1>1, <2>5
  <2> QED
    BY <2>4, <2>5, <2>6, <2>7 DEF LineOK, Chain
<1>3. CASE ~(Len(L) = n /\ L[n].parent # <<>>)
  <2>1. Longer(L, n) = L
    BY <1>3 DEF Longer
  <2>2. L[Len(L)].parent = <<>>
    BY <1>1, <1>3 DEF LineOK
  <2> QED
    BY <1>1, <2>1, <2>2 DEF LineOK
<1> QED
  BY <1>2, <1>3

\* The lineage of a release is the line of its ancestors, cut after MaxDepth of them.
LEMMA LineageOK ==
    ASSUME NEW U, Closed(U), NEW r \in U
    PROVE  LineOK(Lineage(r), U, r, MaxDepth)
<1>1. PICK f : IsLine(f, r, MaxDepth) /\ Lineage(r) = f[MaxDepth]
  BY LineageIs
<1>2. \A n \in 1..MaxDepth : f[n] = IF n = 1 THEN <<r>> ELSE Longer(f[n - 1], n - 1)
  BY <1>1 DEF IsLine
<1> DEFINE S == {k \in Nat : k + 1 \in 1..MaxDepth => LineOK(f[k + 1], U, r, k + 1)}
<1>3. 0 \in S
  <2>1. LineOK(<<r>>, U, r, 1)
    <3>1. <<r>> \in Seq(U) /\ Len(<<r>>) = 1 /\ <<r>>[1] = r
      OBVIOUS
    <3> QED
      BY <3>1 DEF LineOK, Chain
  <2>2. f[1] = <<r>>
    BY <1>2, LimitsAssumption
  <2> QED
    BY <2>1, <2>2
<1>4. ASSUME NEW k \in Nat, k \in S PROVE k + 1 \in S
  <2> SUFFICES ASSUME k + 2 \in 1..MaxDepth PROVE LineOK(f[k + 2], U, r, k + 2)
    OBVIOUS
  <2>1. k + 1 \in 1..MaxDepth /\ k + 1 \in Nat \ {0} /\ (k + 2) - 1 = k + 1 /\ (k + 1) + 1 = k + 2
    BY LimitsAssumption
  <2>2. LineOK(f[k + 1], U, r, k + 1)
    BY <1>4, <2>1
  <2>3. f[k + 2] = Longer(f[k + 1], k + 1)
    BY <1>2, <2>1
  <2>4. LineOK(Longer(f[k + 1], k + 1), U, r, (k + 1) + 1)
    BY <2>1, <2>2, LongerOK
  <2> QED
    BY <2>1, <2>3, <2>4
<1>5. Nat \subseteq S
  <2> HIDE DEF S
  <2> QED
    BY <1>3, <1>4, SetInduction
<1>6. MaxDepth - 1 \in S /\ (MaxDepth - 1) + 1 = MaxDepth /\ MaxDepth \in 1..MaxDepth
  BY <1>5, LimitsAssumption
<1> QED
  BY <1>1, <1>6

\* A release that has a parent has one.
LEMMA OneIsSome == \A x : <<x>> # <<>>
<1> SUFFICES ASSUME NEW x PROVE <<x>> # <<>>
  OBVIOUS
<1>1. Len(<<x>>) = 1 /\ Len(<<>>) = 0
  OBVIOUS
<1> QED
  BY <1>1

\* The line M is the line L from place i.
Continues(M, L, i) ==
    /\ Len(M) = Len(L) - i + 1
    /\ \A k \in 1..(Len(L) - i + 1) : M[k] = L[i + k - 1]

\* Two lines that meet go on together.
LEMMA SameLine ==
    ASSUME NEW U, NEW r, NEW s, NEW L, NEW M, Chain(L, U, r), Chain(M, U, s),
           L[Len(L)].parent = <<>>, M[Len(M)].parent = <<>> \/ Len(M) >= Len(L),
           NEW i \in 1..Len(L), L[i] = s
    PROVE  Continues(M, L, i)
<1>1. L \in Seq(U) /\ M \in Seq(U) /\ Len(L) \in Nat /\ Len(M) \in Nat /\ Len(M) >= 1 /\ M[1] = s
  BY DEF Chain
<1> DEFINE S == {k \in Nat : k + 1 <= Len(M) /\ i + k <= Len(L) => M[k + 1] = L[i + k]}
<1>2. 0 \in S
  BY <1>1
<1>3. ASSUME NEW k \in Nat, k \in S PROVE k + 1 \in S
  <2> SUFFICES ASSUME k + 2 <= Len(M), i + k + 1 <= Len(L) PROVE M[k + 2] = L[i + k + 1]
    BY <1>1
  <2>1. M[k + 1] = L[i + k]
    BY <1>1, <1>3
  <2>2. k + 1 \in 1..(Len(M) - 1) /\ i + k \in 1..(Len(L) - 1)
    BY <1>1
  <2>3. M[k + 1].parent = <<M[k + 2]>> /\ L[i + k].parent = <<L[i + k + 1]>>
    BY <1>1, <2>2 DEF Chain
  <2> QED
    BY <2>1, <2>3
<1>4. \A k \in Nat : k + 1 <= Len(M) /\ i + k <= Len(L) => M[k + 1] = L[i + k]
  <2>1. Nat \subseteq S
    <3> HIDE DEF S
    <3> QED
      BY <1>2, <1>3, SetInduction
  <2> QED
    BY <2>1
<1>5. ~(Len(M) < Len(L) - i + 1)
  <2> SUFFICES ASSUME Len(M) < Len(L) - i + 1 PROVE FALSE
    OBVIOUS
  <2>1. PICK k \in Nat : k = Len(M) - 1
    BY <1>1, SMTT(20)
  <2>2. M[Len(M)] = L[i + k] /\ i + k \in 1..(Len(L) - 1)
    BY <1>1, <1>4, <2>1
  <2>3. L[i + k].parent = <<L[i + k + 1]>>
    BY <1>1, <2>2 DEF Chain
  <2>4. L[i + k].parent = <<>>
    BY <1>1, <2>2
  <2> QED
    BY <2>3, <2>4, OneIsSome, Zenon
<1>6. ~(Len(M) > Len(L) - i + 1)
  <2> SUFFICES ASSUME Len(M) > Len(L) - i + 1 PROVE FALSE
    OBVIOUS
  <2>1. PICK k \in Nat : k = Len(L) - i
    BY <1>1
  <2>2. M[k + 1] = L[Len(L)] /\ k + 1 \in 1..(Len(M) - 1)
    <3>1. k + 1 \in 1..(Len(M) - 1) /\ k + 1 <= Len(M) /\ i + k = Len(L) /\ i + k <= Len(L)
      BY <1>1, <2>1
    <3> QED
      BY <1>4, <3>1
  <2>3. M[k + 1].parent = <<M[k + 2]>>
    BY <1>1, <2>2 DEF Chain
  <2>4. M[k + 1].parent = <<>>
    BY <2>2
  <2> QED
    BY <2>3, <2>4, OneIsSome, Zenon
<1>7. Len(M) = Len(L) - i + 1
  BY <1>1, <1>5, <1>6
<1>8. ASSUME NEW k \in 1..Len(M) PROVE M[k] = L[i + k - 1]
  <2>1. PICK j \in Nat : j = k - 1
    BY <1>1
  <2>2. j + 1 <= Len(M) /\ i + j <= Len(L)
    BY <1>1, <1>7, <2>1
  <2>3. M[j + 1] = L[i + j]
    BY <1>4, <2>2
  <2>4. j + 1 = k /\ i + j = i + k - 1
    BY <1>1, <2>1
  <2> QED
    BY <2>3, <2>4
<1> QED
  BY <1>7, <1>8 DEF Continues

------------------------------------------------------------------------------
(* Comparing releases *)

\* The lineage of what is at place i of a line is the rest of the line.
Rest(L, i) == Continues(Lineage(L[i]), L, i)

\* A release whose ancestry reads has a whole line, and every ancestor's lineage is the rest
\* of it.
LEMMA WholeLine ==
    ASSUME NEW U, Closed(U), NEW r \in U, AncestryReads(r)
    PROVE  LET L == Lineage(r) IN
           /\ Chain(L, U, r) /\ Len(L) \in Nat \ {0} /\ L[Len(L)].parent = <<>>
           /\ \A i \in 1..Len(L) : Rest(L, i)
<1>1. PICK L : L = Lineage(r)
  OBVIOUS
<1>2. LineOK(L, U, r, MaxDepth)
  BY <1>1, LineageOK
<1>3. Chain(L, U, r) /\ L \in Seq(U) /\ Len(L) \in Nat \ {0} /\ Len(L) <= MaxDepth
  BY <1>2 DEF LineOK, Chain
<1>4. L[Len(L)].parent = <<>>
  BY <1>1 DEF AncestryReads, TooDeep
<1>5. ASSUME NEW i \in 1..Len(L)
      PROVE  Rest(L, i)
  <2>1. L[i] \in U
    BY <1>3
  <2>3. PICK s, M : s = L[i] /\ M = Lineage(L[i])
    OBVIOUS
  <2>4. LineOK(M, U, s, MaxDepth)
    BY <2>1, <2>3, LineageOK
  <2>5. Chain(M, U, s) /\ (Len(M) < MaxDepth => M[Len(M)].parent = <<>>)
    BY <2>4 DEF LineOK
  <2>6. Len(M) \in Nat /\ MaxDepth \in Nat
    BY <2>5, LimitsAssumption DEF Chain
  <2>7. Len(M) < MaxDepth \/ Len(M) >= Len(L)
    BY <1>3, <2>6
  <2>8. Chain(L, U, r) /\ L[i] = s /\ (M[Len(M)].parent = <<>> \/ Len(M) >= Len(L))
    BY <1>3, <2>3, <2>5, <2>7, Zenon
  <2>9. Continues(M, L, i)
    BY <1>4, <1>5, <2>5, <2>8, SameLine
  <2> QED
    BY <2>3, <2>9 DEF Rest
<1> QED
  BY <1>1, <1>3, <1>4, <1>5

\* Of two releases that differ, one at most is an ancestor of the other.
LEMMA NotBoth ==
    ASSUME NEW U, Closed(U), NEW l \in U, NEW r \in U, AncestryReads(l), AncestryReads(r),
           l \in Ancestors(r), r \in Ancestors(l)
    PROVE  l = r
<1>1. PICK L, R : L = Lineage(l) /\ R = Lineage(r)
  OBVIOUS
<1>2. PICK i \in 1..Len(R) : R[i] = l
  BY <1>1 DEF Ancestors
<1>3. PICK j \in 1..Len(L) : L[j] = r
  BY <1>1 DEF Ancestors
<1>4. /\ Len(L) \in Nat /\ Len(R) \in Nat /\ R[1] = r
      /\ Len(L) = Len(R) - i + 1 /\ Len(R) = Len(L) - j + 1
  <2>1. Len(R) \in Nat /\ Chain(R, U, r) /\ Rest(R, i)
    BY <1>1, WholeLine
  <2>2. Len(L) \in Nat /\ Rest(L, j)
    BY <1>1, WholeLine
  <2> QED
    BY <1>1, <1>2, <1>3, <2>1, <2>2 DEF Chain, Rest, Continues
<1>5. i = 1
  BY <1>4
<1> QED
  BY <1>2, <1>4, <1>5

\* The places in the line of l of what it has in common with r.
Places(l, r) == {i \in 1..Len(Lineage(l)) : Lineage(l)[i] \in Ancestors(r)}
First(l, r) == CHOOSE i \in Places(l, r) : \A j \in Places(l, r) : i <= j

\* What the lines of two releases have in common has a first place.
LEMMA FirstOK ==
    ASSUME NEW l, NEW r, Len(Lineage(l)) \in Nat, Places(l, r) # {}
    PROVE  First(l, r) \in Places(l, r) /\ \A j \in Places(l, r) : First(l, r) <= j
<1>1. PICK T \in SUBSET Nat : T = Places(l, r)
  <2>1. Places(l, r) \in SUBSET Nat
    BY DEF Places
  <2> QED
    BY <2>1, Zenon
<1>2. \E i \in T : \A j \in T : i <= j
  BY <1>1, LeastElement
<1>3. \E i \in Places(l, r) : \A j \in Places(l, r) : i <= j
  BY <1>1, <1>2, Zenon
<1> QED
  BY <1>3, Zenon DEF First

\* The first place is the same release from both sides.
LEMMA SameFirst ==
    ASSUME NEW U, Closed(U), NEW l \in U, NEW r \in U, AncestryReads(l), AncestryReads(r),
           Places(l, r) # {}
    PROVE  /\ Places(r, l) # {}
           /\ First(l, r) \in 1..Len(Lineage(l))
           /\ Lineage(l)[First(l, r)] = Lineage(r)[First(r, l)]
<1>1. PICK L, R : L = Lineage(l) /\ R = Lineage(r)
  OBVIOUS
<1>2. Len(L) \in Nat /\ Len(R) \in Nat
  BY <1>1, WholeLine
<1>3. PICK i : i = First(l, r)
  OBVIOUS
<1>4. /\ i \in Places(l, r) /\ i \in 1..Len(L) /\ L[i] \in Ancestors(r)
      /\ \A m \in Places(l, r) : i <= m
  BY <1>1, <1>2, <1>3, FirstOK DEF Places
<1>5. PICK k \in 1..Len(R) : R[k] = L[i]
  BY <1>1, <1>4 DEF Ancestors
<1>6. L[i] \in Ancestors(l)
  BY <1>1, <1>4 DEF Ancestors
<1>7. k \in Places(r, l)
  BY <1>1, <1>5, <1>6 DEF Places
<1>8. PICK j : j = First(r, l)
  OBVIOUS
<1>9. /\ j \in 1..Len(R) /\ R[j] \in Ancestors(l) /\ j <= k
  BY <1>1, <1>2, <1>7, <1>8, FirstOK DEF Places
<1>10. PICK m \in 1..Len(L) : L[m] = R[j]
  BY <1>1, <1>9 DEF Ancestors
<1>11. R[j] \in Ancestors(r)
  BY <1>1, <1>9 DEF Ancestors
<1>12. i <= m
  BY <1>1, <1>4, <1>10, <1>11 DEF Places
<1>13. Len(L) - i + 1 = Len(R) - k + 1
  <2>1. Rest(L, i) /\ Rest(R, k)
    BY <1>1, <1>4, WholeLine
  <2> QED
    BY <1>5, <2>1 DEF Rest, Continues
<1>14. Len(L) - m + 1 = Len(R) - j + 1
  <2>1. Rest(L, m) /\ Rest(R, j)
    BY <1>1, <1>9, WholeLine
  <2> QED
    BY <1>10, <2>1 DEF Rest, Continues
<1>15. j = k
  BY <1>2, <1>4, <1>9, <1>12, <1>13, <1>14
<1> QED
  BY <1>1, <1>3, <1>4, <1>5, <1>7, <1>8, <1>15

\* What compare_releases says, case by case.
Verdict(v) == [verdict |-> v, ancestor |-> <<>>]
Conflict(l, r) ==
    [verdict |-> "DivergedConflict", ancestor |-> <<Lineage(l)[First(l, r)]>>]

\* The verdict on two releases, case by case.
LEMMA RelationshipIs ==
    ASSUME NEW l, NEW r
    PROVE  Relationship(l, r) =
               IF l = r THEN Verdict("AlreadyCurrent")
               ELSE IF l.doc # r.doc THEN Verdict("UnrelatedConflict")
               ELSE IF l \in Ancestors(r) THEN Verdict("FastForward")
               ELSE IF r \in Ancestors(l) THEN Verdict("IncomingBehind")
               ELSE IF Places(l, r) # {} THEN Conflict(l, r)
               ELSE Verdict("UnrelatedConflict")
BY Zenon DEF Relationship, Verdict, Conflict, Places, First

Agree(l, r) ==
    LET here == Relationship(l, r)
        there == Relationship(r, l)
        common == Ancestors(l) \cap Ancestors(r) IN
    /\ there.verdict = Mirror[here.verdict]
    /\ there.ancestor = here.ancestor
    /\ here.verdict = "UnrelatedConflict" => common = {}
    /\ here.verdict = "DivergedConflict" =>
           here.ancestor[1] \in common /\ common \subseteq Ancestors(here.ancestor[1])

\* Verdicts without a common ancestor agree when one is the mirror of the other.
LEMMA VerdictAgrees ==
    ASSUME NEW l, NEW r, NEW v, NEW w, Relationship(l, r) = Verdict(v),
           Relationship(r, l) = Verdict(w), w = Mirror[v], v # "DivergedConflict",
           v = "UnrelatedConflict" => Ancestors(l) \cap Ancestors(r) = {}
    PROVE  Agree(l, r)
BY DEF Agree, Verdict

\* The mirror of each verdict.
LEMMA MirrorIs ==
    /\ Mirror["AlreadyCurrent"] = "AlreadyCurrent"
    /\ Mirror["FastForward"] = "IncomingBehind"
    /\ Mirror["IncomingBehind"] = "FastForward"
    /\ Mirror["DivergedConflict"] = "DivergedConflict"
    /\ Mirror["UnrelatedConflict"] = "UnrelatedConflict"
BY DEF Mirror

\* Both sides agree on two releases whose ancestry reads.
LEMMA ComparisonOK ==
    ASSUME NEW U, Closed(U), NEW l \in U, NEW r \in U, AncestryReads(l), AncestryReads(r)
    PROVE  Agree(l, r)
<1>1. CASE l = r
  <2>1. Relationship(l, r) = Verdict("AlreadyCurrent")
        /\ Relationship(r, l) = Verdict("AlreadyCurrent")
    BY <1>1, RelationshipIs, Zenon
  <2> QED
    BY <2>1, VerdictAgrees, MirrorIs
<1>2. CASE l.doc # r.doc
  <2>1. Relationship(l, r) = Verdict("UnrelatedConflict")
        /\ Relationship(r, l) = Verdict("UnrelatedConflict")
    BY <1>2, RelationshipIs, Zenon
  <2>2. Ancestors(l) \cap Ancestors(r) = {}
    BY <1>2 DEF AncestryReads
  <2> QED
    BY <2>1, <2>2, VerdictAgrees, MirrorIs
<1>3. CASE l # r /\ l.doc = r.doc /\ l \in Ancestors(r)
  <2>1. r \notin Ancestors(l)
    BY <1>3, NotBoth
  <2>2. Relationship(l, r) = Verdict("FastForward")
        /\ Relationship(r, l) = Verdict("IncomingBehind")
    BY <1>3, <2>1, RelationshipIs, Zenon
  <2> QED
    BY <2>2, VerdictAgrees, MirrorIs
<1>4. CASE l # r /\ l.doc = r.doc /\ r \in Ancestors(l)
  <2>1. l \notin Ancestors(r)
    BY <1>4, NotBoth
  <2>2. Relationship(l, r) = Verdict("IncomingBehind")
        /\ Relationship(r, l) = Verdict("FastForward")
    BY <1>4, <2>1, RelationshipIs, Zenon
  <2> QED
    BY <2>2, VerdictAgrees, MirrorIs
<1>5. CASE l # r /\ l.doc = r.doc /\ l \notin Ancestors(r) /\ r \notin Ancestors(l)
  <2>1. CASE Places(l, r) = {}
    <3>1. Places(r, l) = {}
      BY <2>1, SameFirst
    <3>2. Relationship(l, r) = Verdict("UnrelatedConflict")
          /\ Relationship(r, l) = Verdict("UnrelatedConflict")
      BY <1>5, <2>1, <3>1, RelationshipIs, Zenon
    <3>3. Ancestors(l) \cap Ancestors(r) = {}
      BY <2>1 DEF Places, Ancestors
    <3> QED
      BY <3>2, <3>3, VerdictAgrees, MirrorIs
  <2>2. CASE Places(l, r) # {}
    <3>1. /\ Places(r, l) # {} /\ First(l, r) \in 1..Len(Lineage(l))
          /\ Lineage(l)[First(l, r)] = Lineage(r)[First(r, l)]
      BY <2>2, SameFirst
    <3>2. Relationship(l, r) = Conflict(l, r) /\ Relationship(r, l) = Conflict(r, l)
      BY <1>5, <2>2, <3>1, RelationshipIs, Zenon
    <3>3. PICK L, i, a : L = Lineage(l) /\ i = First(l, r) /\ a = L[i]
      OBVIOUS
    <3>4. /\ i \in 1..Len(L) /\ Len(L) \in Nat /\ a \in Ancestors(r)
          /\ \A m \in Places(l, r) : i <= m
      BY <2>2, <3>1, <3>3, FirstOK, WholeLine DEF Places
    <3>5. a \in Ancestors(l) \cap Ancestors(r)
      BY <3>3, <3>4 DEF Ancestors
    <3>6. ASSUME NEW b \in Ancestors(l) \cap Ancestors(r) PROVE b \in Ancestors(a)
      <4>1. PICK m \in 1..Len(L) : b = L[m]
        BY <3>3, <3>6 DEF Ancestors
      <4>2. i <= m
        BY <3>3, <3>4, <4>1 DEF Places
      <4>3. Len(Lineage(a)) = Len(L) - i + 1
            /\ \A k \in 1..(Len(L) - i + 1) : Lineage(a)[k] = L[i + k - 1]
        <5>1. Rest(L, i)
          BY <3>3, <3>4, WholeLine
        <5> QED
          BY <3>3, <5>1 DEF Rest, Continues
      <4>4. PICK k \in Nat : k = m - i + 1
        BY <3>4, <4>2
      <4>5. k \in 1..(Len(L) - i + 1) /\ i + k - 1 = m
        BY <3>4, <4>2, <4>4
      <4>6. Lineage(a)[k] = b /\ k \in 1..Len(Lineage(a))
        BY <4>1, <4>3, <4>5
      <4> QED
        BY <4>6 DEF Ancestors
    <3>7. /\ Relationship(l, r).verdict = "DivergedConflict"
          /\ Relationship(r, l).verdict = "DivergedConflict"
          /\ Relationship(l, r).ancestor = <<a>> /\ Relationship(r, l).ancestor = <<a>>
      BY <3>1, <3>2, <3>3 DEF Conflict
    <3>8. Relationship(l, r).ancestor[1] = a
      BY <3>7
    <3> QED
      BY <3>5, <3>6, <3>7, <3>8, MirrorIs DEF Agree
  <2> QED
    BY <2>1, <2>2
<1> QED
  BY <1>1, <1>2, <1>3, <1>4, <1>5

------------------------------------------------------------------------------
(* The lineages of the repository *)

\* Every release, written or being written, comes from releases by their parents.
GoodOK ==
    /\ \A r \in releases : Good(r)
    /\ \A w \in Writers : writer[w].pc # "idle" => Good(writer[w].release)

\* A process whose release is not there yet.
Active == {w \in Writers : writer[w].pc \notin {"idle", "returning"}}

\* Every creation that was begun makes one release at most.
BegunOK == IsFiniteSet(Active) /\ Cardinality(releases) + Cardinality(Active) <= begun

\* A parent was created before its children.
Ranks(rank) ==
    \A r \in releases :
        /\ rank[r] < Cardinality(releases)
        /\ r.parent # <<>> => r.parent[1] \in releases /\ rank[r.parent[1]] < rank[r]
RankOK == damages = 0 => badReleases = {} /\ \E rank \in [releases -> Nat] : Ranks(rank)

\* Releases that have each other's parents, of the same document.
Family(listed) ==
    \A r \in listed : r.parent # <<>> => r.parent[1] \in listed /\ r.parent[1].doc = r.doc

\* What a catalog that nobody disturbed has listed.
ListedOK ==
    /\ catalog.quiet /\ leftovers = 0 => ~catalog.temporary
    /\ damages = 0 /\ catalog.pc = "reading" /\ catalog.quiet =>
          /\ catalog.listed = catalog.before /\ catalog.listed \subseteq releases
          /\ Family(catalog.listed)

LineInv == Inv /\ GoodOK /\ BegunOK /\ RankOK /\ ListedOK

\* A release without a parent, and one whose parent is good, is good.
LEMMA RootIsGood == ASSUME NEW r, r.parent = <<>> PROVE Good(r)
<1>1. r \in {r} /\ Closed({r})
  BY DEF Closed
<1> QED
  BY <1>1, Zenon DEF Good

\* A child of a good release is good.
LEMMA ChildIsGood == ASSUME NEW r, NEW p, r.parent = <<p>>, Good(p) PROVE Good(r)
<1>1. PICK U : p \in U /\ Closed(U)
  BY DEF Good
<1>2. PICK V : V = U \cup {r}
  OBVIOUS
<1>3. r \in V /\ Closed(V)
  <2>1. ASSUME NEW q \in V PROVE q.parent = <<>> \/ \E x \in V : q.parent = <<x>>
    <3>1. CASE q = r
      BY <1>1, <1>2, <3>1
    <3>2. CASE q \in U
      BY <1>1, <1>2, <3>2 DEF Closed
    <3> QED
      BY <1>2, <3>1, <3>2
  <2> QED
    BY <1>2, <2>1 DEF Closed
<1> QED
  BY <1>3, Zenon DEF Good

\* The releases two releases come from, together.
LEMMA UnionIsClosed == ASSUME NEW U, NEW V, Closed(U), Closed(V) PROVE Closed(U \cup V)
<1>1. ASSUME NEW q \in U \cup V
      PROVE  q.parent = <<>> \/ \E p \in U \cup V : q.parent = <<p>>
  BY DEF Closed
<1> QED
  BY <1>1 DEF Closed

\* The ancestors of a release whose family is listed are listed and of its document, and there
\* are no more of them than its rank allows.
LEMMA AlongLine ==
    ASSUME NEW L, NEW listed, NEW r \in listed, Chain(L, listed, r), Family(listed),
           listed \subseteq releases, NEW rank \in [releases -> Nat], Ranks(rank)
    PROVE  \A i \in 1..Len(L) : L[i].doc = r.doc /\ rank[L[i]] + i <= rank[r] + 1
<1>1. L \in Seq(listed) /\ Len(L) \in Nat /\ L[1] = r
  BY DEF Chain
<1> DEFINE S == {k \in Nat : k + 1 <= Len(L) =>
                     L[k + 1].doc = r.doc /\ rank[L[k + 1]] + k <= rank[r]}
<1>2. 0 \in S
  BY <1>1
<1>3. ASSUME NEW k \in Nat, k \in S PROVE k + 1 \in S
  <2> SUFFICES ASSUME k + 2 <= Len(L)
               PROVE  L[k + 2].doc = r.doc /\ rank[L[k + 2]] + (k + 1) <= rank[r]
    BY <1>1
  <2>1. PICK a, b : a = L[k + 1] /\ b = L[k + 2]
    OBVIOUS
  <2>2. a \in listed /\ b \in listed
    <3>1. k + 1 \in 1..Len(L) /\ k + 2 \in 1..Len(L)
      BY <1>1
    <3> QED
      BY <1>1, <2>1, <3>1
  <2>3. a.parent = <<b>>
    <3>1. k + 1 \in 1..(Len(L) - 1) /\ (k + 1) + 1 = k + 2
      BY <1>1
    <3> QED
      BY <2>1, <3>1 DEF Chain
  <2>4. a.parent # <<>> /\ a.parent[1] = b
    BY <2>3, OneIsSome
  <2>5. b.doc = a.doc /\ rank[b] < rank[a]
    BY <2>2, <2>4 DEF Family, Ranks
  <2>6. a.doc = r.doc /\ rank[a] + k <= rank[r]
    BY <1>1, <1>3, <2>1
  <2>7. rank[a] \in Nat /\ rank[b] \in Nat /\ rank[r] \in Nat
    BY <2>2
  <2>8. b.doc = r.doc /\ rank[b] + (k + 1) <= rank[r]
    BY <2>5, <2>6, <2>7
  <2> QED
    BY <2>1, <2>8
<1>4. \A k \in Nat : k + 1 <= Len(L) => L[k + 1].doc = r.doc /\ rank[L[k + 1]] + k <= rank[r]
  <2>1. Nat \subseteq S
    <3> HIDE DEF S
    <3> QED
      BY <1>2, <1>3, SetInduction
  <2> QED
    BY <2>1
<1>5. ASSUME NEW i \in 1..Len(L) PROVE L[i].doc = r.doc /\ rank[L[i]] + i <= rank[r] + 1
  <2>1. PICK k \in Nat : i = k + 1
    BY <1>1
  <2>2. L[i].doc = r.doc /\ rank[L[i]] + k <= rank[r]
    BY <1>1, <1>4, <2>1
  <2>3. L[i] \in releases
    BY <1>1
  <2>4. rank[L[i]] \in Nat /\ rank[r] \in Nat
    BY <2>3
  <2> QED
    BY <2>1, <2>2, <2>4
<1> QED
  BY <1>5

\* Such a lineage is listed and not too deep.
LEMMA LineageReads ==
    ASSUME LineInv, damages = 0, MaxReleases <= MaxDepth, NEW listed, listed \subseteq releases,
           Family(listed), NEW r \in listed
    PROVE  LineageListed(listed, r) /\ ~TooDeep(r)
<1>1. PICK rank \in [releases -> Nat] : Ranks(rank)
  BY DEF LineInv, RankOK
<1>2. Closed(listed)
  <2> SUFFICES ASSUME NEW q \in listed, q.parent # <<>>
               PROVE  \E p \in listed : q.parent = <<p>>
    BY DEF Closed
  <2>1. PICK U : q \in U /\ Closed(U)
    BY DEF LineInv, GoodOK, Good
  <2>2. PICK p \in U : q.parent = <<p>>
    BY <2>1 DEF Closed
  <2>3. q.parent[1] = p
    BY <2>2
  <2> QED
    BY <2>2, <2>3 DEF Family
<1>3. PICK L : L = Lineage(r)
  OBVIOUS
<1>4. LineOK(L, listed, r, MaxDepth)
  BY <1>2, <1>3, LineageOK
<1>5. Chain(L, listed, r) /\ L \in Seq(listed) /\ Len(L) \in Nat \ {0}
  BY <1>4 DEF LineOK, Chain
<1>6. \A i \in 1..Len(L) : L[i].doc = r.doc /\ rank[L[i]] + i <= rank[r] + 1
  BY <1>1, <1>5, AlongLine
<1>7. LineageListed(listed, r)
  BY <1>3, <1>5, <1>6 DEF LineageListed, Ancestors
<1>8. ASSUME TooDeep(r) PROVE FALSE
  <2>1. PICK a : a = L[Len(L)]
    OBVIOUS
  <2>2. a.parent # <<>> /\ a \in releases /\ Len(L) \in 1..Len(L)
    BY <1>3, <1>5, <1>8, <2>1 DEF TooDeep
  <2>3. Len(L) = MaxDepth
    BY <1>4, <1>5, <2>1, <2>2, LimitsAssumption DEF LineOK
  <2>4. rank[a] + Len(L) <= rank[r] + 1
    BY <1>6, <2>1, <2>2
  <2>5. a.parent[1] \in releases /\ rank[a.parent[1]] < rank[a] /\ rank[r] < Cardinality(releases)
    BY <1>1, <2>2 DEF Ranks
  <2>6. rank[a] \in Nat /\ rank[r] \in Nat /\ rank[a.parent[1]] \in Nat
    BY <2>2, <2>5
  <2>7. Cardinality(releases) \in Nat /\ Cardinality(releases) <= MaxReleases
    <3>1. Cardinality(Active) \in Nat /\ Cardinality(releases) \in Nat
      BY FS_CardinalityType DEF LineInv, BegunOK, Inv, FilesOK
    <3> QED
      BY <3>1, LimitsAssumption DEF LineInv, Inv, CountsOK, BegunOK
  <2>8. PICK x \in Nat, y \in Nat, z \in Nat :
            x = rank[a] /\ y = rank[r] /\ z = rank[a.parent[1]]
    BY <2>6
  <2>9. x + MaxDepth <= y + 1 /\ z < x /\ y < Cardinality(releases)
    BY <2>3, <2>4, <2>5, <2>8
  <2> QED
    BY <2>7, <2>9, LimitsAssumption
<1> QED
  BY <1>7, <1>8

\* A catalog of such releases reads.
LEMMA CatalogReads ==
    ASSUME LineInv, damages = 0, MaxReleases <= MaxDepth, MaxReleases <= MaxEntries,
           NEW listed, listed \subseteq releases, Family(listed), NEW temporary, ~temporary
    PROVE  CatalogResult(listed, temporary) = "ok"
<1>1. Cardinality(listed) <= MaxEntries
  <2>1. IsFiniteSet(releases) /\ Cardinality(releases) \in Nat
    BY FS_CardinalityType DEF LineInv, Inv, FilesOK
  <2>2. Cardinality(listed) <= Cardinality(releases) /\ IsFiniteSet(listed)
    BY <2>1, FS_Subset
  <2>3. Cardinality(listed) \in Nat
    BY <2>2, FS_CardinalityType
  <2>4. Cardinality(Active) \in Nat
    BY FS_CardinalityType DEF LineInv, BegunOK
  <2> QED
    BY <2>1, <2>2, <2>3, <2>4, LimitsAssumption DEF LineInv, Inv, CountsOK, BegunOK
<1>2. Cardinality(listed) \in Nat
  BY FS_Subset, FS_CardinalityType DEF LineInv, Inv, FilesOK
<1>3. ~(Cardinality(listed) > MaxEntries)
  BY <1>1, <1>2, LimitsAssumption
<1>4. ~\E r \in listed : ~ManifestReads(r)
  BY DEF LineInv, RankOK, ManifestReads
<1>5. (~\E r \in listed : ~LineageListed(listed, r)) /\ ~\E r \in listed : TooDeep(r)
  BY LineageReads
<1> QED
  BY <1>3, <1>4, <1>5, Zenon DEF CatalogResult

------------------------------------------------------------------------------
(* The steps keep the lineages *)

\* A process that goes on with its release or gives up, and leaves the manifests alone.
Moves(w) ==
    /\ UNCHANGED <<releases, badReleases, damages, begun, catalog>>
    /\ leftovers' >= leftovers
    /\ \E state : /\ writer' = [writer EXCEPT ![w] = state]
                  /\ state.pc = "idle" \/ (w \in Active /\ state.release = writer[w].release)

\* Steps of Goes and of an object that is compared are such moves.
LEMMA GoesMoves ==
    ASSUME Inv, NEW w \in Writers, NEW state, Goes(w, state),
           state.pc = "idle" \/ (w \in Active /\ state.release = writer[w].release),
           UNCHANGED <<releases, badReleases, leftovers>>
    PROVE  Moves(w)
<1>1. leftovers' >= leftovers
  BY DEF Inv, CountsOK
<1>2. writer' = [writer EXCEPT ![w] = state]
  BY DEF Goes
<1> QED
  BY <1>1, <1>2 DEF Moves, Goes

\* A writer that found its object goes on with its release or gives it up; no release changes.
LEMMA VerifiedMoves ==
    ASSUME Inv, NEW w \in Writers, NEW object, Verified(w, object), w \in Active,
           UNCHANGED <<releases, badReleases, leftovers>>
    PROVE  Moves(w)
<1>1. CASE ObjectReads(object)
  <2>1. PICK state : state = Wrote(w, object)
    OBVIOUS
  <2>2. Goes(w, state) /\ state.release = writer[w].release
    BY <1>1, <2>1 DEF Verified, Wrote, At
  <2> QED
    BY <2>2, GoesMoves
<1>2. CASE ~ObjectReads(object)
  <2>1. PICK state : state = Idle("none")
    OBVIOUS
  <2>2. Goes(w, state) /\ state.pc = "idle"
    BY <1>2, <2>1 DEF Verified, Idle
  <2> QED
    BY <2>2, GoesMoves
<1> QED
  BY <1>1, <1>2

\* Every step of a creation but its first and the rename of its manifest is a move.
LEMMA MovesOf ==
    ASSUME Inv, NEW w \in Writers,
           \/ look_object(w) \/ persist_object(w) \/ look_manifest(w)
           \/ write_fails(w) \/ crash(w) \/ return_manifest(w) \/ create_refused(w)
           \/ persist_manifest(w) /\ writer[w].release \in releases
    PROVE  Moves(w)
<1>1. CASE look_object(w)
  <2>1. PICK object \in writer[w].todo :
            IF object \in objects THEN Verified(w, object)
            ELSE Goes(w, At("persist_object", writer[w].release, writer[w].todo, object))
    BY <1>1 DEF look_object
  <2>2. UNCHANGED <<releases, badReleases, leftovers>> /\ w \in Active
    BY <1>1 DEF look_object, Active
  <2>3. CASE object \in objects
    BY <2>1, <2>2, <2>3, VerifiedMoves
  <2>4. CASE object \notin objects
    <3>1. PICK state : state = At("persist_object", writer[w].release, writer[w].todo, object)
      OBVIOUS
    <3>2. Goes(w, state) /\ state.release = writer[w].release
      BY <2>1, <2>4, <3>1 DEF At
    <3> QED
      BY <2>2, <3>2, GoesMoves
  <2> QED
    BY <2>3, <2>4
<1>2. CASE persist_object(w)
  <2>1. PICK object : object = writer[w].object
    OBVIOUS
  <2>2. UNCHANGED <<releases, badReleases, leftovers>> /\ w \in Active
    BY <1>2 DEF persist_object, Active
  <2>3. CASE object \in objects
    BY <1>2, <2>1, <2>2, <2>3, VerifiedMoves DEF persist_object
  <2>4. CASE object \notin objects
    <3>1. PICK state : state = Wrote(w, object)
      OBVIOUS
    <3>2. Goes(w, state) /\ state.release = writer[w].release
      BY <1>2, <2>1, <2>4, <3>1 DEF persist_object, Wrote, At
    <3> QED
      BY <2>2, <3>2, GoesMoves
  <2> QED
    BY <2>3, <2>4
<1>3. CASE look_manifest(w)
  <2>1. UNCHANGED <<releases, badReleases, leftovers>> /\ w \in Active
    BY <1>3 DEF look_manifest, Active
  <2>2. PICK state : state = IF writer[w].release \in releases THEN Idle("none")
                             ELSE At("persist_manifest", writer[w].release, {}, NoRelease)
    OBVIOUS
  <2>3. Goes(w, state) /\ (state.pc = "idle" \/ (w \in Active /\ state.release = writer[w].release))
    BY <1>3, <2>1, <2>2 DEF look_manifest, At, Idle
  <2> QED
    BY <2>1, <2>3, GoesMoves
<1>4. CASE write_fails(w)
  <2>1. PICK state : state = Idle("none")
    OBVIOUS
  <2>2. Goes(w, state) /\ state.pc = "idle"
    BY <1>4, <2>1 DEF write_fails, Idle
  <2> QED
    BY <1>4, <2>2, GoesMoves DEF write_fails
<1>5. CASE crash(w)
  <2>1. PICK state : state = Idle("none")
    OBVIOUS
  <2>2. writer' = [writer EXCEPT ![w] = state] /\ state.pc = "idle"
    BY <1>5, <2>1 DEF crash, Idle
  <2>3. leftovers' >= leftovers
    BY <1>5 DEF crash, Inv, CountsOK
  <2> QED
    BY <1>5, <2>2, <2>3 DEF crash, Moves
<1>6. CASE persist_manifest(w) /\ writer[w].release \in releases
  <2>1. PICK state : state = Idle("none")
    OBVIOUS
  <2>2. Goes(w, state) /\ state.pc = "idle"
    BY <1>6, <2>1 DEF persist_manifest, Idle
  <2> QED
    BY <1>6, <2>2, GoesMoves DEF persist_manifest
<1>7. CASE return_manifest(w) \/ create_refused(w)
  <2>1. PICK result : writer' = [writer EXCEPT ![w] = Idle(result)]
    BY <1>7 DEF return_manifest, create_refused
  <2>3. Idle(result).pc = "idle"
    BY DEF Idle
  <2>2. leftovers' >= leftovers
    BY <1>7 DEF return_manifest, create_refused, Inv, CountsOK
  <2> QED
    BY <1>7, <2>1, <2>2, <2>3 DEF return_manifest, create_refused, Moves
<1> QED
  BY <1>1, <1>2, <1>3, <1>4, <1>5, <1>6, <1>7

\* A process that gives up counts no longer as creating.
LEMMA FewerActive ==
    ASSUME LineInv, DOMAIN writer = Writers, releases' = releases, begun' = begun,
           Active' \subseteq Active
    PROVE  BegunOK'
<1>1. IsFiniteSet(Active') /\ Cardinality(Active') <= Cardinality(Active)
  BY FS_Subset DEF LineInv, BegunOK
<1>2. /\ Cardinality(Active') \in Nat /\ Cardinality(Active) \in Nat
      /\ Cardinality(releases) \in Nat
  BY <1>1, FS_CardinalityType DEF LineInv, BegunOK, Inv, FilesOK
<1> QED
  BY <1>1, <1>2 DEF LineInv, BegunOK, Inv, CountsOK

\* The catalog stays as it is while releases are added and temporary files left.
LEMMA ListedKept ==
    ASSUME LineInv, UNCHANGED <<catalog, damages>>, releases \subseteq releases',
           leftovers' >= leftovers, leftovers' \in Nat
    PROVE  ListedOK'
<1>1. leftovers' = 0 => leftovers = 0
  BY DEF LineInv, Inv, CountsOK
<1> QED
  BY <1>1 DEF LineInv, ListedOK, Family

\* A move keeps the lineages.
LEMMA MovesOK ==
    ASSUME LineInv, Inv', NEW w \in Writers, Moves(w) PROVE LineInv'
<1>1. PICK state : /\ writer' = [writer EXCEPT ![w] = state]
                   /\ state.pc = "idle" \/ (w \in Active /\ state.release = writer[w].release)
  BY DEF Moves
<1>2. DOMAIN writer = Writers
  BY DEF LineInv, Inv, WritersOK
<1>3. /\ UNCHANGED <<releases, badReleases, damages, begun, catalog>>
      /\ leftovers' >= leftovers
  BY DEF Moves
<1>4. ASSUME NEW v \in Writers, writer'[v].pc # "idle"
      PROVE  /\ writer[v].pc # "idle" /\ writer'[v].release = writer[v].release
             /\ v \in Active' => v \in Active
  <2>1. CASE v = w
    BY <1>1, <1>2, <1>4, <2>1 DEF Active
  <2>2. CASE v # w
    BY <1>1, <1>2, <1>4, <2>2 DEF Active
  <2> QED
    BY <2>1, <2>2
<1>5. GoodOK'
  BY <1>3, <1>4 DEF LineInv, GoodOK
<1>6. Active' \subseteq Active
  BY <1>4 DEF Active
<1>7. BegunOK'
  BY <1>2, <1>3, <1>6, FewerActive
<1>8. RankOK'
  BY <1>3 DEF LineInv, RankOK, Ranks
<1>9. ListedOK'
  BY <1>3, ListedKept DEF Inv, CountsOK
<1> QED
  BY <1>5, <1>7, <1>8, <1>9 DEF LineInv

\* A creation that begins adds one process to those that create.
LEMMA BeginsOK ==
    ASSUME LineInv, Inv', NEW w \in Writers, NEW release, Good(release), Start(w, release),
           writer[w].pc = "idle"
    PROVE  LineInv'
<1>1. PICK state : state = At("objects", release, ObjectsOf(release), NoRelease)
  OBVIOUS
<1>2. /\ writer' = [writer EXCEPT ![w] = state] /\ state.release = release
      /\ DOMAIN writer = Writers
  BY <1>1 DEF Start, At, LineInv, Inv, WritersOK
<1>3. UNCHANGED <<releases, badReleases, damages, leftovers, catalog>>
      /\ begun' = begun + 1
  BY DEF Start
<1>4. ASSUME NEW v \in Writers, writer'[v].pc # "idle" PROVE Good(writer'[v].release)
  <2>1. CASE v = w
    BY <1>2, <2>1
  <2>2. CASE v # w
    BY <1>2, <1>4, <2>2 DEF LineInv, GoodOK
  <2> QED
    BY <2>1, <2>2
<1>5. GoodOK'
  BY <1>3, <1>4 DEF LineInv, GoodOK
<1>6. BegunOK'
  <2>1. Active' \subseteq Active \cup {w} /\ w \notin Active
    BY <1>2 DEF Active
  <2>2. /\ IsFiniteSet(Active \cup {w})
        /\ Cardinality(Active \cup {w}) = Cardinality(Active) + 1
    BY <2>1, FS_AddElement DEF LineInv, BegunOK
  <2>3. IsFiniteSet(Active') /\ Cardinality(Active') <= Cardinality(Active \cup {w})
    BY <2>1, <2>2, FS_Subset
  <2>4. /\ Cardinality(Active') \in Nat /\ Cardinality(Active) \in Nat
        /\ Cardinality(releases) \in Nat
    BY <2>3, FS_CardinalityType DEF LineInv, BegunOK, Inv, FilesOK
  <2> QED
    BY <1>3, <2>2, <2>3, <2>4 DEF LineInv, BegunOK, Inv, CountsOK
<1>7. RankOK'
  BY <1>3 DEF LineInv, RankOK, Ranks
<1>8. ListedOK'
  BY <1>3, ListedKept DEF LineInv, Inv, CountsOK
<1> QED
  BY <1>5, <1>6, <1>7, <1>8 DEF LineInv

\* A root, and a child of a release that opens, is good.
LEMMA CreatesOK ==
    ASSUME LineInv, Inv', NEW w \in Writers, create_release(w) \/ create_child_release(w)
    PROVE  LineInv'
<1>1. CASE create_release(w)
  <2>1. PICK release : release.parent = <<>> /\ Start(w, release)
    BY <1>1 DEF create_release, Payload
  <2> QED
    BY <1>1, <2>1, RootIsGood, BeginsOK DEF create_release
<1>2. CASE create_child_release(w)
  <2>1. PICK parent, release :
            parent \in releases /\ release.parent = <<parent>> /\ Start(w, release)
    BY <1>2 DEF create_child_release, Payload
  <2>2. Good(release)
    BY <2>1, ChildIsGood DEF LineInv, GoodOK
  <2> QED
    BY <1>2, <2>1, <2>2, BeginsOK DEF create_child_release
<1> QED
  BY <1>1, <1>2

\* A manifest that is renamed comes after all the others.
LEMMA PublishesOK ==
    ASSUME LineInv, Inv', NEW w \in Writers, persist_manifest(w),
           writer[w].release \notin releases
    PROVE  LineInv'
<1>1. PICK release, state :
          release = writer[w].release /\ state = At("returning", release, {}, NoRelease)
  OBVIOUS
<1>2. /\ releases' = releases \cup {release} /\ release \notin releases
      /\ writer' = [writer EXCEPT ![w] = state] /\ state.pc = "returning"
      /\ state.release = release
      /\ DOMAIN writer = Writers /\ writer[w].pc = "persist_manifest"
      /\ UNCHANGED <<badReleases, leftovers, catalog, begun, damages>>
  BY <1>1 DEF persist_manifest, Published, Goes, At, LineInv, Inv, WritersOK
<1>9. /\ Cardinality(releases') = Cardinality(releases) + 1
      /\ Cardinality(releases) \in Nat
  BY <1>2, FS_AddElement, FS_CardinalityType DEF LineInv, Inv, FilesOK
<1>3. Good(release)
  BY <1>1, <1>2 DEF LineInv, GoodOK
<1>4. ASSUME NEW v \in Writers
      PROVE  writer'[v] = IF v = w THEN state ELSE writer[v]
  BY <1>2
<1>5. GoodOK'
  <2>1. \A v \in Writers : writer'[v].pc # "idle" => Good(writer'[v].release)
    BY <1>2, <1>3, <1>4 DEF LineInv, GoodOK
  <2>2. \A r \in releases' : Good(r)
    BY <1>2, <1>3 DEF LineInv, GoodOK
  <2> QED
    BY <2>1, <2>2 DEF GoodOK
<1>6. BegunOK'
  <2>1. w \in Active /\ Active' \subseteq Active \ {w}
    BY <1>2, <1>4 DEF Active
  <2>2. /\ IsFiniteSet(Active \ {w})
        /\ Cardinality(Active \ {w}) = Cardinality(Active) - 1
    BY <2>1, FS_RemoveElement DEF LineInv, BegunOK
  <2>3. IsFiniteSet(Active') /\ Cardinality(Active') <= Cardinality(Active \ {w})
    BY <2>1, <2>2, FS_Subset
  <2>4. Cardinality(Active') \in Nat /\ Cardinality(Active) \in Nat
    BY <2>3, FS_CardinalityType DEF LineInv, BegunOK
  <2> QED
    BY <1>2, <1>9, <2>2, <2>3, <2>4 DEF LineInv, BegunOK, Inv, CountsOK
<1>7. RankOK'
  <2> SUFFICES ASSUME damages' = 0
               PROVE  badReleases' = {} /\ \E rank \in [releases' -> Nat] : Ranks(rank)'
    BY DEF RankOK
  <2>1. damages = 0 /\ badReleases' = {}
    BY <1>2 DEF LineInv, RankOK
  <2>2. PICK rank \in [releases -> Nat] : Ranks(rank)
    BY <2>1 DEF LineInv, RankOK
  <2>3. PICK more : more = [r \in releases' |-> IF r = release THEN Cardinality(releases) ELSE rank[r]]
    OBVIOUS
  <2>4. release.parent # <<>> => release.parent[1] \in releases
    BY <1>1, <1>2, <2>1 DEF LineInv, Inv, WritersOK, WriterOK, Sound
  <2>5. more \in [releases' -> Nat]
    BY <1>2, <1>9, <2>1, <2>3
  <2>6. \A r \in releases : more[r] = rank[r] /\ rank[r] \in Nat /\ rank[r] < Cardinality(releases)
    BY <1>2, <1>9, <2>2, <2>3 DEF Ranks
  <2>7. more[release] = Cardinality(releases)
    BY <1>2, <2>3
  <2>8. ASSUME NEW r \in releases'
        PROVE  /\ more[r] < Cardinality(releases')
               /\ r.parent # <<>> => r.parent[1] \in releases' /\ more[r.parent[1]] < more[r]
    <3>1. CASE r = release
      BY <1>2, <1>9, <2>1, <2>4, <2>6, <2>7, <3>1
    <3>2. CASE r \in releases
      <4>1. r.parent # <<>> => r.parent[1] \in releases /\ rank[r.parent[1]] < rank[r]
        BY <2>2, <3>2 DEF Ranks
      <4>2. more[r] < Cardinality(releases')
        BY <1>2, <1>9, <2>1, <2>6, <3>2
      <4> QED
        BY <1>2, <2>6, <3>2, <4>1, <4>2
    <3> QED
      BY <1>2, <3>1, <3>2
  <2>9. Ranks(more)'
    BY <2>8 DEF Ranks
  <2> QED
    BY <2>1, <2>5, <2>9
<1>8. ListedOK'
  BY <1>2, ListedKept DEF LineInv, Inv, CountsOK
<1> QED
  BY <1>5, <1>6, <1>7, <1>8 DEF LineInv

\* Damage removes releases and adds none.
LEMMA DamageLines ==
    ASSUME LineInv, Inv', Damage PROVE LineInv'
<1>1. /\ damages' # 0 /\ releases' \subseteq releases
      /\ UNCHANGED <<leftovers, writer, catalog, begun>>
  BY DEF Damage, LineInv, Inv, CountsOK
<1>2. GoodOK' /\ RankOK' /\ ListedOK'
  BY <1>1 DEF LineInv, GoodOK, RankOK, ListedOK
<1>3. Active' = Active
  BY <1>1 DEF Active
<1>4. BegunOK'
  <2>1. /\ Cardinality(releases') \in Nat /\ Cardinality(releases) \in Nat
        /\ Cardinality(releases') <= Cardinality(releases) /\ Cardinality(Active) \in Nat
    BY <1>1, FS_Subset, FS_CardinalityType DEF LineInv, Inv, FilesOK, BegunOK
  <2> QED
    BY <1>1, <1>3, <2>1 DEF LineInv, BegunOK, Inv, CountsOK
<1> QED
  BY <1>2, <1>4 DEF LineInv

\* While no manifest is being written only what is left over is a temporary file.
LEMMA QuietTemporaries ==
    ASSUME Inv, Quiet, leftovers = 0 PROVE ~(Temporaries > 0)
<1>1. {w \in Writers : writer[w].pc = "persist_manifest"} = {}
  BY DEF Quiet
<1>2. Cardinality({}) = 0
  BY FS_EmptySet
<1>3. Temporaries = 0 + 0
  BY <1>1, <1>2, Zenon DEF Temporaries
<1> QED
  BY <1>3

\* A catalog lists what was there all the while.
LEMMA CatalogLines ==
    ASSUME LineInv, Inv', open_directory \/ list_directory \/ read_catalog PROVE LineInv'
<1>1. UNCHANGED <<releases, badReleases, leftovers, writer, begun, damages>>
  BY DEF open_directory, list_directory, read_catalog
<1>2. GoodOK' /\ RankOK'
  BY <1>1 DEF LineInv, GoodOK, RankOK, Ranks
<1>3. Active' = Active
  BY <1>1 DEF Active
<1>4. BegunOK'
  BY <1>1, <1>3 DEF LineInv, BegunOK
<1>5. ListedOK'
  <2>1. CASE open_directory
    <3>1. PICK temporary \in {leftovers > 0, Temporaries > 0} :
              catalog' = Catalog("listing", "none", {}, releases, temporary, Quiet)
      BY <2>1 DEF open_directory
    <3>2. /\ catalog'.pc = "listing" /\ catalog'.temporary = temporary
          /\ catalog'.quiet = Quiet
      BY <3>1 DEF Catalog
    <3>3. ASSUME Quiet, leftovers = 0 PROVE ~temporary
      <4>1. ~(leftovers > 0) /\ ~(Temporaries > 0)
        BY <3>3, QuietTemporaries DEF LineInv
      <4> QED
        BY <4>1, Zenon
    <3> QED
      BY <1>1, <3>2, <3>3 DEF ListedOK
  <2>2. CASE list_directory
    <3>1. PICK seen \in SUBSET (releases \ catalog.before), temporary \in {FALSE, Temporaries > 0} :
              catalog' = Catalog("reading", "none", catalog.before \cup seen, catalog.before,
                                 catalog.temporary \/ temporary,
                                 catalog.quiet /\ Quiet /\ releases = catalog.before)
      BY <2>2 DEF list_directory
    <3>2. /\ catalog'.temporary = (catalog.temporary \/ temporary)
          /\ catalog'.quiet = (catalog.quiet /\ Quiet /\ releases = catalog.before)
          /\ catalog'.listed = catalog.before \cup seen /\ catalog'.before = catalog.before
      BY <3>1 DEF Catalog
    <3>4. Quiet /\ leftovers = 0 => ~temporary
      BY QuietTemporaries DEF LineInv
    <3>5. catalog'.quiet /\ leftovers = 0 => ~catalog'.temporary
      BY <3>2, <3>4 DEF LineInv, ListedOK
    <3>6. ASSUME damages = 0, catalog'.quiet
          PROVE  /\ catalog'.listed = catalog'.before /\ catalog'.listed \subseteq releases
                 /\ Family(catalog'.listed)
      <4>1. releases = catalog.before
        BY <3>2, <3>6
      <4>2. catalog'.listed = releases /\ catalog'.before = releases
        BY <3>2, <4>1
      <4>3. Family(releases)
        BY <3>6 DEF LineInv, Inv, FilesOK, Sound, Family
      <4> QED
        BY <4>2, <4>3
    <3> QED
      BY <1>1, <3>5, <3>6 DEF ListedOK
  <2>3. CASE read_catalog
    <3>1. catalog'.pc = "idle" /\ UNCHANGED <<catalog.quiet, catalog.temporary>>
      BY <2>3 DEF read_catalog, Catalog
    <3> QED
      BY <1>1, <3>1 DEF LineInv, ListedOK
  <2> QED
    BY <2>1, <2>2, <2>3
<1> QED
  BY <1>2, <1>4, <1>5 DEF LineInv

\* Every step keeps the lineages.
LEMMA LineStep == ASSUME LineInv, [Next]_vars PROVE LineInv'
<1>1. Inv'
  BY NextOK DEF LineInv
<1>2. ASSUME NEW w \in Writers, Creation(w) PROVE LineInv'
  <2>1. CASE persist_manifest(w) /\ writer[w].release \notin releases
    BY <1>1, <2>1, PublishesOK
  <2>2. CASE create_release(w) \/ create_child_release(w)
    BY <1>1, <2>2, CreatesOK
  <2>3. CASE \/ look_object(w) \/ persist_object(w) \/ look_manifest(w)
             \/ write_fails(w) \/ crash(w) \/ return_manifest(w) \/ create_refused(w)
             \/ persist_manifest(w) /\ writer[w].release \in releases
    <3>1. Moves(w)
      BY <2>3, MovesOf DEF LineInv
    <3> QED
      BY <1>1, <3>1, MovesOK
  <2> QED
    BY <1>2, <2>1, <2>2, <2>3 DEF Creation
<1>3. CASE Damage
  BY <1>1, <1>3, DamageLines
<1>4. CASE open_directory \/ list_directory \/ read_catalog
  BY <1>1, <1>4, CatalogLines
<1>5. CASE UNCHANGED vars
  BY <1>1, <1>5 DEF vars, LineInv, GoodOK, BegunOK, Active, RankOK, Ranks, ListedOK
<1> QED
  BY <1>2, <1>3, <1>4, <1>5 DEF Next

\* The lineages are sound in every state.
LEMMA LinesInvariance == Spec => []LineInv
<1>1. Init => LineInv
  <2> SUFFICES ASSUME Init PROVE LineInv
    OBVIOUS
  <2>1. Inv
    BY InitOK
  <2>2. /\ releases = {} /\ badReleases = {} /\ catalog.pc = "idle" /\ ~catalog.temporary
        /\ \A w \in Writers : writer[w].pc = "idle"
    BY DEF Init, Catalog, Idle
  <2>3. Active = {}
    BY <2>2 DEF Active
  <2>4. BegunOK
    BY <2>3, FS_EmptySet DEF BegunOK, Init
  <2>5. RankOK
    <3>1. [r \in releases |-> 0] \in [releases -> Nat] /\ Ranks([r \in releases |-> 0])
      BY <2>2 DEF Ranks
    <3> QED
      BY <2>2, <3>1 DEF RankOK
  <2> QED
    BY <2>1, <2>2, <2>4, <2>5 DEF LineInv, GoodOK, ListedOK
<1> QED
  BY <1>1, LineStep, PTL DEF Spec

\* Whatever lineages a repository has and whatever was damaged in it, the verdict on two
\* releases whose ancestry reads is the mirror of the verdict from the other side, and the
\* common ancestor of a conflict is the latest (compare_releases, release_relationship).
THEOREM ComparisonsAgree == Spec => []ComparisonAgrees
<1>1. ASSUME LineInv PROVE ComparisonAgrees
  <2>1. ASSUME NEW l \in releases, NEW r \in releases, AncestryReads(l), AncestryReads(r)
        PROVE  Agree(l, r)
    <3>1. PICK U : l \in U /\ Closed(U)
      BY <1>1 DEF LineInv, GoodOK, Good
    <3>2. PICK V : r \in V /\ Closed(V)
      BY <1>1 DEF LineInv, GoodOK, Good
    <3>3. PICK W : W = U \cup V
      OBVIOUS
    <3>4. Closed(W) /\ l \in W /\ r \in W
      BY <3>1, <3>2, <3>3, UnionIsClosed
    <3> QED
      BY <2>1, <3>4, ComparisonOK
  <2> QED
    BY <2>1, Zenon DEF Agree, ComparisonAgrees
<1> QED
  BY <1>1, LinesInvariance, PTL

\* While a repository has no more releases than a lineage and a catalog may have, a catalog
\* that is read while no manifest is being written lists every release, however many processes
\* create, fail and die before and after (release_catalog, validate_catalog_lineage).
THEOREM QuietCatalogs ==
    ASSUME MaxReleases <= MaxDepth, MaxReleases <= MaxEntries
    PROVE  Spec => []QuietCatalogReads
<1>1. Init => QuietCatalogReads
  BY DEF Init, Catalog, QuietCatalogReads
<1>2. ASSUME LineInv, LineInv', QuietCatalogReads, [Next]_vars PROVE QuietCatalogReads'
  <2> SUFFICES ASSUME catalog'.pc = "idle", catalog'.quiet, catalog'.result # "none",
                      damages' = 0, leftovers' = 0
               PROVE  catalog'.result = "ok" /\ catalog'.listed = catalog'.before
    BY DEF QuietCatalogReads
  <2>1. CASE read_catalog
    <3>1. /\ catalog'.result = CatalogResult(catalog.listed, catalog.temporary)
          /\ UNCHANGED <<catalog.listed, catalog.before, catalog.quiet, damages, leftovers>>
          /\ catalog.pc = "reading"
      BY <2>1 DEF read_catalog, Catalog
    <3>2. PICK listed, temporary : listed = catalog.listed /\ temporary = catalog.temporary
      OBVIOUS
    <3>3. ~temporary /\ listed = catalog.before /\ listed \subseteq releases /\ Family(listed)
      BY <1>2, <3>1, <3>2 DEF LineInv, ListedOK
    <3>4. CatalogResult(listed, temporary) = "ok"
      BY <1>2, <3>1, <3>3, CatalogReads
    <3> QED
      BY <3>1, <3>2, <3>3, <3>4
  <2>2. CASE open_directory \/ list_directory
    BY <2>2 DEF open_directory, list_directory, Catalog
  <2>3. CASE Damage
    BY <1>2, <2>3 DEF Damage, LineInv, Inv, CountsOK
  <2>4. ASSUME catalog' = catalog, damages' = damages, leftovers' >= leftovers
        PROVE  catalog'.result = "ok" /\ catalog'.listed = catalog'.before
    <3>1. leftovers = 0
      BY <1>2, <2>4 DEF LineInv, Inv, CountsOK
    <3> QED
      BY <1>2, <2>4, <3>1 DEF QuietCatalogReads
  <2>5. ASSUME NEW w \in Writers, Creation(w)
        PROVE  catalog' = catalog /\ damages' = damages /\ leftovers' >= leftovers
    <3>1. CASE persist_manifest(w) /\ writer[w].release \notin releases
      BY <1>2, <3>1 DEF persist_manifest, Published, Goes, LineInv, Inv, CountsOK
    <3>2. CASE create_release(w) \/ create_child_release(w)
      <4>1. PICK release : Start(w, release)
        BY <3>2 DEF create_release, create_child_release
      <4> QED
        BY <1>2, <4>1 DEF Start, LineInv, Inv, CountsOK
    <3>3. CASE \/ look_object(w) \/ persist_object(w) \/ look_manifest(w)
               \/ write_fails(w) \/ crash(w) \/ return_manifest(w) \/ create_refused(w)
               \/ persist_manifest(w) /\ writer[w].release \in releases
      BY <1>2, <3>3, MovesOf DEF LineInv, Moves
    <3> QED
      BY <2>5, <3>1, <3>2, <3>3 DEF Creation
  <2>6. CASE UNCHANGED vars
    BY <1>2, <2>4, <2>6 DEF vars, LineInv, Inv, CountsOK
  <2> QED
    BY <1>2, <2>1, <2>2, <2>3, <2>4, <2>5, <2>6 DEF Next
<1> QED
  BY <1>1, <1>2, LinesInvariance, PTL DEF Spec

=============================================================================
