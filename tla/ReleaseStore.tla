--------------------------- MODULE ReleaseStore ---------------------------
(***************************************************************************)
(* The local PDM repository: ketchup-pdm/src/local.rs, called through      *)
(* ketchup-application/src/pdm_workflow.rs by the window and by the        *)
(* headless server.                                                        *)
(*                                                                         *)
(* A release is a manifest in releases/ that names a document object and   *)
(* dependency objects in objects/ by their SHA-256, and its parent.  Every *)
(* file is written to a temporary file in its directory and renamed        *)
(* without replacing.  There is no lock: several processes may write and   *)
(* one may crash anywhere.                                                 *)
(*                                                                         *)
(* A digest stands for what it is the digest of: an object's identity is   *)
(* its content, and a release id is the payload of the release, which      *)
(* holds its parent's id.                                                  *)
(***************************************************************************)
EXTENDS Naturals, Sequences, FiniteSets

CONSTANTS
    Writers,       \* processes that create releases
    Documents,     \* document ids
    Revisions,     \* revisions of a document that may be released
    Large,         \* revisions whose file is longer than an object may be when it is read
    Parts,         \* contents of dependency files
    Paths,         \* logical paths of dependencies
    Audits,        \* created_unix_ms with actor and note
    MaxDepth,      \* MAX_RELEASE_LINEAGE_DEPTH
    MaxEntries,    \* MAX_RELEASE_CATALOG_ENTRIES
    MaxReleases,   \* bound: releases begun
    MaxCrashes,    \* bound: processes that die while they write
    MaxCancels,    \* bound: creations cancelled when their release is there
    MaxDamages,    \* bound: files changed by something else
    MaxCatalogs    \* bound: catalogs read

ASSUME LimitsAssumption ==
    /\ MaxDepth \in Nat \ {0} /\ MaxEntries \in Nat /\ MaxReleases \in Nat
    /\ MaxCrashes \in Nat /\ MaxCancels \in Nat /\ MaxDamages \in Nat /\ MaxCatalogs \in Nat
    /\ Large \subseteq Revisions

VARIABLES
    objects,     \* the object files
    releases,    \* the manifest files
    badObjects,  \* object files whose bytes something else replaced
    badReleases, \* manifest files whose bytes something else replaced
    leftovers,   \* temporary files in releases/ whose process is gone
    writer,      \* what each process is doing
    catalog,     \* the process that reads the catalog
    fresh,       \* history: releases created since the last damage
    created,     \* history: the releases a creation reported as created
    begun, crashes, cancels, damages, catalogs

vars == <<objects, releases, badObjects, badReleases, leftovers, writer, catalog, fresh,
          created, begun, crashes, cancels, damages, catalogs>>

------------------------------------------------------------------------------
(* Releases *)

\* The bytes of a document and of a dependency, which are their own identity.
DocumentObject(doc, rev) == [kind |-> "document", doc |-> doc, of |-> rev]
PartObject(part) == [kind |-> "part", of |-> part]

\* ReleasePayload: parent is <<>> or <<release id>>; the id of a release is its payload.
Payload(parent, doc, rev, deps, audit) ==
    [parent |-> parent, doc |-> doc, object |-> DocumentObject(doc, rev),
     deps |-> deps, audit |-> audit]

Dependencies == UNION {[S -> Parts] : S \in SUBSET Paths}

DependencyObjects(release) == {PartObject(release.deps[p]) : p \in DOMAIN release.deps}
ObjectsOf(release) == {release.object} \cup DependencyObjects(release)

IsLarge(object) == object.kind = "document" /\ object.of \in Large

------------------------------------------------------------------------------
(* Reading *)

\* read_manifest, validate_manifest: the file is there and its payload has its name.
ManifestReads(release) == release \in releases \ badReleases

\* read_object: present, within the limit of a read, and its bytes have its identity.
ObjectReads(object) == object \in objects \ badObjects /\ ~IsLarge(object)

\* open_release.
Opens(release) ==
    /\ ManifestReads(release)
    /\ \A object \in ObjectsOf(release) : ObjectReads(object)

\* release_ancestry: the release, its parent and so on; at most MaxDepth of them.
Lineage(release) ==
    LET line[n \in 1..MaxDepth] ==
            IF n = 1 THEN <<release>>
            ELSE LET younger == line[n - 1] IN
                 IF Len(younger) = n - 1 /\ younger[n - 1].parent # <<>>
                 THEN younger \o younger[n - 1].parent
                 ELSE younger
    IN line[MaxDepth]

TooDeep(release) == Lineage(release)[Len(Lineage(release))].parent # <<>>

Ancestors(release) == {Lineage(release)[i] : i \in 1..Len(Lineage(release))}

AncestryReads(release) ==
    ~TooDeep(release) /\ \A a \in Ancestors(release) : ManifestReads(a) /\ a.doc = release.doc

\* Mutant: the oldest common ancestor is named.
Relationship_oldest(left, right) ==
    LET common == {i \in 1..Len(Lineage(left)) : Lineage(left)[i] \in Ancestors(right)}
        verdict(v) == [verdict |-> v, ancestor |-> <<>>] IN
    IF left = right THEN verdict("AlreadyCurrent")
    ELSE IF left.doc # right.doc THEN verdict("UnrelatedConflict")
    ELSE IF left \in Ancestors(right) THEN verdict("FastForward")
    ELSE IF right \in Ancestors(left) THEN verdict("IncomingBehind")
    ELSE IF common # {}
         THEN [verdict |-> "DivergedConflict",
               ancestor |-> <<Lineage(left)[CHOOSE i \in common : \A j \in common : i >= j]>>]
    ELSE verdict("UnrelatedConflict")

\* compare_releases and release_relationship, for releases whose ancestry reads.
Relationship(left, right) ==
    LET common == {i \in 1..Len(Lineage(left)) : Lineage(left)[i] \in Ancestors(right)}
        verdict(v) == [verdict |-> v, ancestor |-> <<>>] IN
    IF left = right THEN verdict("AlreadyCurrent")
    ELSE IF left.doc # right.doc THEN verdict("UnrelatedConflict")
    ELSE IF left \in Ancestors(right) THEN verdict("FastForward")
    ELSE IF right \in Ancestors(left) THEN verdict("IncomingBehind")
    ELSE IF common # {}
         THEN [verdict |-> "DivergedConflict",
               ancestor |-> <<Lineage(left)[CHOOSE i \in common : \A j \in common : i <= j]>>]
    ELSE verdict("UnrelatedConflict")

------------------------------------------------------------------------------
(* Creating a release *)

NoRelease == [parent |-> <<>>]
\* No creation is going on.  The result is "created" when the last one reported its release,
\* and "none" after every error: the properties do not tell one from another.
Idle(result) == [pc |-> "idle", release |-> NoRelease, todo |-> {}, object |-> NoRelease,
                 result |-> result]
At(pc, release, todo, object) ==
    [pc |-> pc, release |-> release, todo |-> todo, object |-> object, result |-> "none"]

\* validate_catalog_lineage is not asked before a release is created: neither the depth of
\* its lineage nor the number of releases is.
Start(w, release) ==
    /\ writer' = [writer EXCEPT ![w] = At("objects", release, ObjectsOf(release), NoRelease)]
    /\ begun' = begun + 1
    /\ UNCHANGED <<objects, releases, badObjects, badReleases, leftovers, catalog, fresh,
                   created, crashes, cancels, damages, catalogs>>

\* LocalPdmWorkflow::create without confirmation, for a document that changed since it was
\* reviewed, or already cancelled: nothing is written.
create_refused(w) ==
    /\ writer[w].pc = "idle"
    /\ writer' = [writer EXCEPT ![w] = Idle("none")]
    /\ UNCHANGED <<objects, releases, badObjects, badReleases, leftovers, catalog, fresh,
                   created, begun, crashes, cancels, damages, catalogs>>

\* create_release_with_container, confirmed, current and not cancelled.
create_release(w) ==
    /\ writer[w].pc = "idle" /\ begun < MaxReleases
    /\ \E doc \in Documents, rev \in Revisions, deps \in Dependencies, audit \in Audits :
           Start(w, Payload(<<>>, doc, rev, deps, audit))

\* Mutant: the document of the parent is not compared.
create_child_release_any_document(w) ==
    /\ writer[w].pc = "idle" /\ begun < MaxReleases
    /\ \E parent \in releases, doc \in Documents, rev \in Revisions, deps \in Dependencies,
          audit \in Audits :
           LET release == Payload(<<parent>>, doc, rev, deps, audit) IN
           /\ Opens(parent)
           /\ parent.object # release.object \/ parent.deps # release.deps
           /\ Start(w, release)

\* create_child_release_with_container: the parent is opened and verified, is of the same
\* document, and something changed.
create_child_release(w) ==
    /\ writer[w].pc = "idle" /\ begun < MaxReleases
    /\ \E parent \in releases, rev \in Revisions, deps \in Dependencies, audit \in Audits :
           LET release == Payload(<<parent>>, parent.doc, rev, deps, audit) IN
           /\ Opens(parent)
           /\ parent.object # release.object \/ parent.deps # release.deps
           /\ Start(w, release)

\* The process goes on, or its creation ends with an error.
Goes(w, state) ==
    /\ writer' = [writer EXCEPT ![w] = state]
    /\ UNCHANGED <<catalog, created, begun, crashes, cancels, damages, catalogs>>

Wrote(w, object) == At("objects", writer[w].release, writer[w].todo \ {object}, NoRelease)

\* Mutant: an object that is there is not read.
Verified_by_name(w, object) == Goes(w, Wrote(w, object))

\* verify_existing_object; ObjectConflict.
Verified(w, object) ==
    IF ObjectReads(object)
    THEN Goes(w, Wrote(w, object))
    ELSE Goes(w, Idle("none"))

\* write_content_addressed_object: a file that is there is compared, another is prepared.
look_object(w) ==
    /\ writer[w].pc = "objects" /\ writer[w].todo # {}
    /\ \E object \in writer[w].todo :
           /\ object.kind = "document" \/ \A o \in writer[w].todo : o.kind = "part"
           /\ IF object \in objects THEN Verified(w, object)
              ELSE Goes(w, At("persist_object", writer[w].release, writer[w].todo, object))
    /\ UNCHANGED <<objects, releases, badObjects, badReleases, leftovers, fresh>>

\* persist_noclobber of the prepared object.
persist_object(w) ==
    /\ writer[w].pc = "persist_object"
    /\ LET object == writer[w].object IN
       IF object \in objects THEN Verified(w, object) /\ UNCHANGED objects
       ELSE /\ objects' = objects \cup {object}
            /\ Goes(w, Wrote(w, object))
    /\ UNCHANGED <<releases, badObjects, badReleases, leftovers, fresh>>

\* Mutant: the manifest is written before the objects.
look_manifest_first(w) ==
    /\ writer[w].pc = "objects"
    /\ IF writer[w].release \in releases THEN Goes(w, Idle("none"))
       ELSE Goes(w, At("persist_manifest", writer[w].release, {}, NoRelease))
    /\ UNCHANGED <<objects, releases, badObjects, badReleases, leftovers, fresh>>

\* write_manifest up to its temporary file, which is in releases/; ReleaseAlreadyExists.
look_manifest(w) ==
    /\ writer[w].pc = "objects" /\ writer[w].todo = {}
    /\ IF writer[w].release \in releases THEN Goes(w, Idle("none"))
       ELSE Goes(w, At("persist_manifest", writer[w].release, {}, NoRelease))
    /\ UNCHANGED <<objects, releases, badObjects, badReleases, leftovers, fresh>>

\* The manifest is in place.
Published(w) ==
    /\ releases' = releases \cup {writer[w].release}
    /\ fresh' = fresh \cup {writer[w].release}
    /\ Goes(w, At("returning", writer[w].release, {}, NoRelease))

\* Mutant: the manifest replaces the one that is there.
persist_manifest_replacing(w) ==
    /\ writer[w].pc = "persist_manifest"
    /\ Published(w)
    /\ UNCHANGED <<objects, badObjects, badReleases, leftovers>>

\* persist_noclobber of the manifest: it replaces nothing.
persist_manifest(w) ==
    /\ writer[w].pc = "persist_manifest"
    /\ IF writer[w].release \in releases
       THEN Goes(w, Idle("none")) /\ UNCHANGED <<releases, fresh>>
       ELSE Published(w)
    /\ UNCHANGED <<objects, badObjects, badReleases, leftovers>>

\* LocalPdmWorkflow::create asks for a cancellation once more when the release is there: the
\* caller hears of the release, or that its creation was cancelled.
return_manifest(w) ==
    /\ writer[w].pc = "returning"
    /\ \/ /\ writer' = [writer EXCEPT ![w] = Idle("created")]
          /\ created' = created \cup {writer[w].release}
          /\ UNCHANGED cancels
       \/ /\ cancels < MaxCancels
          /\ writer' = [writer EXCEPT ![w] = Idle("none")]
          /\ cancels' = cancels + 1
          /\ UNCHANGED created
    /\ UNCHANGED <<objects, releases, badObjects, badReleases, leftovers, catalog, fresh,
                   begun, crashes, damages, catalogs>>

\* Mutant: a failed write keeps its temporary file.
write_fails_keeping(w) ==
    /\ writer[w].pc \notin {"idle", "returning"}
    /\ leftovers' = leftovers + (IF writer[w].pc = "persist_manifest" THEN 1 ELSE 0)
    /\ Goes(w, Idle("none"))
    /\ UNCHANGED <<objects, releases, badObjects, badReleases, fresh>>

\* A write, a sync or a rename fails: the temporary file is removed, the objects stay.
write_fails(w) ==
    /\ writer[w].pc \notin {"idle", "returning"}
    /\ Goes(w, Idle("none"))
    /\ UNCHANGED <<objects, releases, badObjects, badReleases, leftovers, fresh>>

\* The process dies: what it renamed stays, and so does its temporary file.  A release whose
\* manifest it renamed is there though nobody heard of it.
crash(w) ==
    /\ writer[w].pc # "idle" /\ crashes < MaxCrashes
    /\ writer' = [writer EXCEPT ![w] = Idle("none")]
    /\ leftovers' = leftovers + (IF writer[w].pc = "persist_manifest" THEN 1 ELSE 0)
    /\ crashes' = crashes + 1
    /\ UNCHANGED <<objects, releases, badObjects, badReleases, catalog, fresh, created, begun,
                   cancels, damages, catalogs>>

\* Something else changes or removes a file while no release is being created.
Damage ==
    /\ damages < MaxDamages /\ catalog.pc = "idle"
    /\ \A w \in Writers : writer[w].pc = "idle"
    /\ \/ \E o \in objects :
             /\ \/ badObjects' = badObjects \cup {o} /\ UNCHANGED objects
                \/ badObjects' = badObjects \ {o} /\ objects' = objects \ {o}
             /\ UNCHANGED <<releases, badReleases>>
       \/ \E r \in releases :
             /\ \/ badReleases' = badReleases \cup {r} /\ UNCHANGED releases
                \/ badReleases' = badReleases \ {r} /\ releases' = releases \ {r}
             /\ UNCHANGED <<objects, badObjects>>
    /\ damages' = damages + 1
    /\ fresh' = {}
    /\ UNCHANGED <<leftovers, writer, catalog, created, begun, crashes, cancels, catalogs>>

------------------------------------------------------------------------------
(* Reading the catalog *)

\* The temporary files of the manifests that are being written, and those left over.
Temporaries == Cardinality({w \in Writers : writer[w].pc = "persist_manifest"}) + leftovers

Catalog(pc, result, listed, before, temporary, quiet) ==
    [pc |-> pc, result |-> result, listed |-> listed, before |-> before,
     temporary |-> temporary, quiet |-> quiet]

\* No manifest is being written.
Quiet == \A w \in Writers : writer[w].pc # "persist_manifest"

\* release_catalog: read_dir shows every file that is there all the while.
open_directory ==
    /\ catalog.pc = "idle" /\ catalogs < MaxCatalogs
    /\ \E temporary \in {leftovers > 0, Temporaries > 0} :
           catalog' = Catalog("listing", "none", {}, releases, temporary, Quiet)
    /\ catalogs' = catalogs + 1
    /\ UNCHANGED <<objects, releases, badObjects, badReleases, leftovers, writer, fresh,
                   created, begun, crashes, cancels, damages>>

\* A file that appears while the directory is read may be shown or not.
list_directory ==
    /\ catalog.pc = "listing"
    /\ \E seen \in SUBSET (releases \ catalog.before), temporary \in {FALSE, Temporaries > 0} :
           catalog' = Catalog("reading", "none", catalog.before \cup seen, catalog.before,
                              catalog.temporary \/ temporary,
                              catalog.quiet /\ Quiet /\ releases = catalog.before)
    /\ UNCHANGED <<objects, releases, badObjects, badReleases, leftovers, writer, fresh,
                   created, begun, crashes, cancels, damages, catalogs>>

\* validate_catalog_lineage: the parents are listed and of the same document.
LineageListed(listed, release) ==
    \A a \in Ancestors(release) : a \in listed /\ a.doc = release.doc

\* A name without the suffix of a manifest, too many names, a manifest that does not read,
\* a parent that is not listed or a lineage that is too long: no catalog.
CatalogResult(listed, temporary) ==
    IF temporary THEN "invalid_manifest"
    ELSE IF Cardinality(listed) > MaxEntries THEN "too_many_releases"
    ELSE IF \E r \in listed : ~ManifestReads(r) THEN "unreadable"
    ELSE IF \E r \in listed : ~LineageListed(listed, r) THEN "missing_release"
    ELSE IF \E r \in listed : TooDeep(r) THEN "lineage_too_deep"
    ELSE "ok"

read_catalog ==
    /\ catalog.pc = "reading"
    /\ catalog' = Catalog("idle", CatalogResult(catalog.listed, catalog.temporary),
                          catalog.listed, catalog.before, catalog.temporary, catalog.quiet)
    /\ UNCHANGED <<objects, releases, badObjects, badReleases, leftovers, writer, fresh,
                   created, begun, crashes, cancels, damages, catalogs>>
------------------------------------------------------------------------------
Init ==
    /\ objects = {} /\ releases = {} /\ badObjects = {} /\ badReleases = {} /\ leftovers = 0
    /\ writer = [w \in Writers |-> Idle("none")]
    /\ catalog = Catalog("idle", "none", {}, {}, FALSE, TRUE)
    /\ fresh = {} /\ created = {} /\ begun = 0 /\ crashes = 0 /\ cancels = 0
    /\ damages = 0 /\ catalogs = 0

Creation(w) ==
    \/ create_refused(w) \/ create_release(w) \/ create_child_release(w)
    \/ look_object(w) \/ persist_object(w) \/ look_manifest(w) \/ persist_manifest(w)
    \/ return_manifest(w) \/ write_fails(w) \/ crash(w)

Next ==
    \/ \E w \in Writers : Creation(w)
    \/ Damage \/ open_directory \/ list_directory \/ read_catalog

Spec == Init /\ [][Next]_vars
------------------------------------------------------------------------------
\* The type of every variable.
TypeOK ==
    /\ leftovers \in 0..MaxCrashes
    /\ \A w \in Writers :
          writer[w].pc \in {"idle", "objects", "persist_object", "persist_manifest", "returning"}
    /\ \A r \in releases : r.doc \in Documents /\ Len(r.parent) <= 1
    /\ catalog.pc \in {"idle", "listing", "reading"}
    /\ begun \in 0..MaxReleases

\* In a repository nobody else touched, every release has its objects and its parent, of the
\* same document, whichever process crashed or failed at which step (create_release_internal
\* writes the objects first and the manifest last).
ReleaseIsWhole ==
    damages = 0 =>
        \A r \in releases :
            /\ ObjectsOf(r) \subseteq objects \ badObjects
            /\ r.parent # <<>> => r.parent[1] \in releases /\ r.parent[1].doc = r.doc

\* A process that hears its release was created has the only one there is of it: no other
\* process heard so of the same release, though several may create it at the same time and one
\* may be cancelled or die after its rename, and then nobody does (write_manifest,
\* persist_noclobber: "release_is_never_overwritten"; LocalPdmWorkflow::create).
OneCreator ==
    [][\A w \in Writers :
           damages = 0 /\ writer[w].pc # "idle" /\ writer'[w].result = "created" =>
               writer[w].release \in releases \ created]_vars

\* A release that was created opens and verifies, also when it shares objects or a parent with
\* files that were damaged before (verify_existing_object, open_release of the parent).
CreatedOpens == \A r \in fresh : Opens(r)

\* A catalog that is read while no manifest is being written lists every release, unless a
\* process died between the temporary file of a manifest and its rename (release_catalog).
QuietCatalogReads ==
    /\ catalog.pc = "idle" /\ catalog.quiet /\ catalog.result # "none"
    /\ damages = 0 /\ leftovers = 0
    => catalog.result = "ok" /\ catalog.listed = catalog.before

\* The verdict on two releases from one side is the mirror of the verdict from the other, and the
\* common ancestor of a conflict is the latest there is (compare_releases).
Mirror == [AlreadyCurrent |-> "AlreadyCurrent", FastForward |-> "IncomingBehind",
           IncomingBehind |-> "FastForward", DivergedConflict |-> "DivergedConflict",
           UnrelatedConflict |-> "UnrelatedConflict"]

ComparisonAgrees ==
    \A left, right \in releases :
        AncestryReads(left) /\ AncestryReads(right) =>
            LET here == Relationship(left, right)
                there == Relationship(right, left)
                common == Ancestors(left) \cap Ancestors(right) IN
            /\ there.verdict = Mirror[here.verdict]
            /\ there.ancestor = here.ancestor
            /\ here.verdict = "UnrelatedConflict" => common = {}
            /\ here.verdict = "DivergedConflict" =>
                   here.ancestor[1] \in common /\ common \subseteq Ancestors(here.ancestor[1])
=============================================================================
