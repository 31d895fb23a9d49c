----------------------------- MODULE FixtureSet -----------------------------
(***************************************************************************)
(* The offline fixture set on disk, the script that prepares it             *)
(* (prepare-alpha2-fixtures.mjs) and the one that verifies a release by it  *)
(* (verify-packed-contract.mjs, with fixture-provenance.mjs and             *)
(* fixture-consumer.mjs), while a developer edits the sources, damages or   *)
(* removes fixtures, and either script fails or is killed at any point.     *)
(***************************************************************************)
EXTENDS FixtureClosure

CONSTANTS
    Offers,          \* what the registry archives and the manifest may be
    MaxEdits,        \* bound on the revisions of the sources
    Nothing

\* Of archives with one name and version choose() only ever takes the first (its
\* sort is stable), and main() drops most of the others before: one is left here.
ASSUME SetAssumption ==
    /\ MaxEdits \in Nat \ {0}
    /\ \A o \in Offers :
          /\ o.packages \subseteq Package /\ IsFiniteSet(o.packages)
          /\ \A p, q \in o.packages : Id(p) = Id(q) => p = q
          /\ o.deps \subseteq Entry

VARIABLES
    offer,           \* the archives at hand, those that a registry lock names,
                     \*   the root's dependencies and imports
    source,          \* the revision of the working tree, and its package-lock
    fixtures,        \* the directory fixtures/alpha2; an artifact 0 is damaged;
                     \*   of its archives Git ignores those in hidden, and it
                     \*   may ignore one of the other three files
    prep,            \* a preparation: where it is and what is still to copy
    verify,          \* a verification
    temps,           \* the temporary directories of the verification
    worker           \* the thread of the module smoke

vars == <<offer, source, fixtures, prep, verify, temps, worker>>

deps == offer.deps
File(p, bytes) == [id |-> Id(p), bytes |-> bytes]

NoFixtures ==
    [made |-> FALSE, ignored |-> FALSE, hidden |-> {}, tarballs |-> {},
     artifact |-> Nothing, lock |-> Nothing, provenance |-> Nothing]

Unprepared == [at |-> "idle", left |-> {}, artifact |-> Nothing]

Unverified == [at |-> "idle", of |-> Nothing, packed |-> 0, failed |-> FALSE]

NoWorker == [at |-> "none", outcome |-> "pending", timer |-> "off"]

Init ==
    /\ offer \in Offers
    /\ source = [rev |-> 1, locked |-> TRUE]
    /\ fixtures = NoFixtures
    /\ prep = Unprepared
    /\ verify = Unverified
    /\ temps = {} /\ worker = NoWorker

-----------------------------------------------------------------------------
(***************************************************************************)
(* main() of the preparation.                                              *)
(***************************************************************************)
Selected == Closure(offer.packages, deps)

Resting == verify.at \in {"idle", "ended"}

\* What the last verification has left in memory is gone with its process.
Fresh == verify' = Unverified /\ temps' = {} /\ worker' = NoWorker

PackTunnel ==
    /\ prep.at = "idle" /\ Resting
    /\ prep' = [prep EXCEPT !.at = "selecting"]
    /\ Fresh
    /\ UNCHANGED <<offer, source, fixtures>>

\* validatePackageLock(), for both scripts.
PackageLockValid == source.locked /\ TunnelContract(deps) /\ OpenHostRanges(deps)

\* Nothing is written unless the closure is complete and there is no directory
\* yet.
Select ==
    /\ prep.at = "selecting"
    /\ PackageLockValid
    /\ Complete(offer.packages, deps) /\ ~fixtures.made
    /\ fixtures' = [fixtures EXCEPT !.made = TRUE]
    /\ prep' = [prep EXCEPT !.at = "copying", !.left = Selected]
    /\ UNCHANGED <<offer, source, verify, temps, worker>>

\* The tunnel comes from its pinned checkout, all else from a registry lock.
SourceRecorded(p) == p.name = Tunnel \/ Id(p) \in offer.locked

Copy(p) ==
    /\ prep.at = "copying" /\ p \in prep.left
    /\ SourceRecorded(p)
    /\ fixtures' = [fixtures EXCEPT !.tarballs = @ \cup {File(p, "recorded")}]
    /\ prep' = [prep EXCEPT !.left = @ \ {p}]
    /\ UNCHANGED <<offer, source, verify, temps, worker>>

\* packRoot(): npm packs the sources of the moment.
Packed == source.rev

\* The edges, and the root's artifact, which must be as strict about the tunnel.
Pack ==
    /\ prep.at = "copying" /\ prep.left = {}
    /\ TunnelContract(deps)
    /\ fixtures' = [fixtures EXCEPT !.artifact = Packed]
    /\ prep' = [prep EXCEPT !.at = "packed", !.artifact = Packed]
    /\ UNCHANGED <<offer, source, verify, temps, worker>>

\* generateConsumerLock(), for these dependencies and these overrides.
LockFor(S) ==
    [direct |-> LockedDirect(S), overrides |-> Overrides(S, Edges(S, deps))]

Lock ==
    /\ prep.at = "packed"
    /\ fixtures' = [fixtures EXCEPT !.lock = LockFor(Selected)]
    /\ prep' = [prep EXCEPT !.at = "locked"]
    /\ UNCHANGED <<offer, source, verify, temps, worker>>

\* PROVENANCE.json is the last file written.
Record ==
    /\ prep.at = "locked"
    /\ <<Tunnel, TunnelVersion>> \in {Id(p) : p \in Selected}
    /\ fixtures' = [fixtures EXCEPT !.provenance =
            [packages |-> Selected, edges |-> Edges(Selected, deps),
             sources |-> {Id(p) : p \in Selected}, artifact |-> prep.artifact,
             lock |-> fixtures.lock]]
    /\ prep' = Unprepared
    /\ UNCHANGED <<offer, source, verify, temps, worker>>

\* A check or a command fails, or the process is killed: what has been written
\* stays, and only a success removes the two temporary directories.
PrepareFails ==
    /\ prep.at # "idle"
    /\ prep' = Unprepared
    /\ UNCHANGED <<offer, source, fixtures, verify, temps, worker>>

-----------------------------------------------------------------------------
(***************************************************************************)
(* The developer, who runs one of the scripts at a time and writes to the   *)
(* fixtures while neither runs, but may edit the sources at any time.       *)
(***************************************************************************)
Edit ==
    /\ source.rev < MaxEdits
    /\ \E locked \in BOOLEAN : source' = [rev |-> source.rev + 1, locked |-> locked]
    /\ UNCHANGED <<offer, fixtures, prep, verify, temps, worker>>

\* The files are those that the provenance was written for.
Intact ==
    /\ fixtures.provenance # Nothing
    /\ fixtures.tarballs = {File(p, "recorded") : p \in fixtures.provenance.packages}
    /\ fixtures.artifact = fixtures.provenance.artifact
    /\ fixtures.lock = fixtures.provenance.lock

Present == {f.id : f \in fixtures.tarballs}

\* Git ignores none of them.
Visible == ~fixtures.ignored /\ fixtures.hidden = {}

\* The provenance is as it was written.
AsWritten ==
    /\ fixtures.provenance.edges = Edges(fixtures.provenance.packages, deps)
    /\ fixtures.provenance.sources = {Id(p) : p \in fixtures.provenance.packages}

\* One committed file is changed, lost or added; or a rule hides one of them or
\* all the archives from Git; or a line of the provenance is lost, the edge or the
\* source of a package.
Damage ==
    /\ Resting /\ prep.at = "idle" /\ Intact /\ AsWritten /\ Visible
    /\ \/ \E f \in fixtures.tarballs :
             \/ fixtures' = [fixtures EXCEPT !.tarballs = @ \ {f}]
             \/ fixtures' = [fixtures EXCEPT !.tarballs =
                                (@ \ {f}) \cup {[f EXCEPT !.bytes = "other"]}]
       \/ \E p \in offer.packages \ Selected :
             fixtures' = [fixtures EXCEPT !.tarballs = @ \cup {File(p, "other")}]
       \/ fixtures' = [fixtures EXCEPT !.artifact = 0]
       \/ fixtures' = [fixtures EXCEPT !.lock = Nothing]
       \/ fixtures' = [fixtures EXCEPT !.ignored = TRUE]
       \/ \E rule \in {{id} : id \in Present} \cup {Present} :
             fixtures' = [fixtures EXCEPT !.hidden = rule]
       \/ \E d \in fixtures.provenance.edges :
             fixtures' = [fixtures EXCEPT !.provenance.edges = @ \ {d}]
       \/ \E id \in fixtures.provenance.sources :
             fixtures' = [fixtures EXCEPT !.provenance.sources = @ \ {id}]
    /\ Fresh
    /\ UNCHANGED <<offer, source, prep>>

Remove ==
    /\ Resting /\ prep.at = "idle"
    /\ fixtures' = NoFixtures
    /\ Fresh
    /\ UNCHANGED <<offer, source, prep>>

-----------------------------------------------------------------------------
(***************************************************************************)
(* verifyPackedContract().                                                 *)
(***************************************************************************)
RootArtifactValid == fixtures.artifact = fixtures.provenance.artifact

\* The consumer lock, which also names the artifact it was generated for.
ConsumerLockValid == fixtures.lock = fixtures.provenance.lock

SourceValid(p) == Id(p) \in fixtures.provenance.sources

VerifyArchive(p) == File(p, "recorded") \in fixtures.tarballs

DirectoryMatches(S) == Present = {Id(p) : p \in S}

\* assertFixturePathsNotIgnored() asks about three files and one archive, the
\* first that readdir() names, whichever that is.
FirstArchive == CHOOSE id \in Present : TRUE

NotIgnored ==
    ~fixtures.ignored /\ Present # {} /\ FirstArchive \notin fixtures.hidden

\* loadFixtureSet(), validatePackageLock() and validateDependencyGraph().
Accepted ==
    /\ fixtures.provenance # Nothing
    /\ PackageLockValid /\ RootArtifactValid /\ ConsumerLockValid
    /\ LET S == fixtures.provenance.packages IN
          /\ \A p \in S : SourceValid(p) /\ VerifyArchive(p)
          /\ PinnedRecorded(S) /\ DirectoryMatches(S) /\ NotIgnored
          /\ GraphAccepted(S, fixtures.provenance.edges, deps)

Load ==
    /\ Resting /\ prep.at = "idle"
    /\ verify' = [at |-> IF Accepted THEN "loaded" ELSE "ended",
                  of |-> fixtures.provenance, packed |-> 0,
                  failed |-> ~Accepted]
    /\ temps' = {} /\ worker' = NoWorker
    /\ UNCHANGED <<offer, source, fixtures, prep>>

At(from, to) == verify.at = from /\ verify' = [verify EXCEPT !.at = to]

\* packProject() leaves nothing behind when it fails.
PackProject ==
    /\ verify.at = "loaded"
    /\ \/ /\ verify' = [verify EXCEPT !.at = "packed", !.packed = source.rev]
          /\ temps' = {"pack"}
       \/ /\ verify' = [verify EXCEPT !.at = "ended", !.failed = TRUE]
          /\ UNCHANGED temps
    /\ UNCHANGED <<offer, source, fixtures, prep, worker>>

\* Mutant: only the manifests of the two artifacts are compared.
VerifyPackedName ==
    /\ At("packed", "checked") /\ Publishable(deps)
    /\ RuntimeClosed(verify.of.edges, deps, offer.imports)
    /\ UNCHANGED <<offer, source, fixtures, prep, temps, worker>>

\* verifyPackedConsumer() and validateRuntimeClosure().
VerifyPacked ==
    /\ At("packed", "checked")
    /\ verify.packed = verify.of.artifact /\ Publishable(deps)
    /\ RuntimeClosed(verify.of.edges, deps, offer.imports)
    /\ UNCHANGED <<offer, source, fixtures, prep, temps, worker>>

\* installConsumer() makes its directories one after the other.
MakeTemporary ==
    /\ verify.at = "checked"
    /\ LET i == Cardinality(temps) IN
          /\ temps' = temps \cup {<<"consumer", "store", "cache">>[i]}
          /\ verify' = [verify EXCEPT !.at = IF i = 3 THEN "made" ELSE "checked"]
    /\ UNCHANGED <<offer, source, fixtures, prep, worker>>

\* pnpm takes a frozen lock only for the dependencies and overrides it is for.
LockFits ==
    LET S == verify.of.packages
    IN  verify.of.lock = [direct |-> Direct(S, verify.of.edges),
                          overrides |-> Overrides(S, verify.of.edges)]

\* pnpm installs, lists, and the tree is verified; the smoke begins.
Install ==
    /\ At("made", "smoking")
    /\ LockFits
    /\ Installed(verify.of.packages, verify.of.edges, deps) = verify.of.packages
    /\ worker' = [at |-> "alive", outcome |-> "pending", timer |-> "armed"]
    /\ UNCHANGED <<offer, source, fixtures, prep, temps>>

\* Any check, command or file operation throws.
VerifyFails ==
    /\ verify.at \in {"packed", "checked", "made"}
    /\ verify' = [verify EXCEPT !.at = "cleaning", !.failed = TRUE]
    /\ UNCHANGED <<offer, source, fixtures, prep, temps, worker>>

-----------------------------------------------------------------------------
(***************************************************************************)
(* smokeInstalledModules(): the first of the events of the worker and the   *)
(* timer settles the race.                                                 *)
(***************************************************************************)
Settled(result) == IF worker.outcome = "pending" THEN result ELSE worker.outcome

\* A message, done or error, or the error event; the thread may live on.
WorkerSays(result) ==
    /\ verify.at = "smoking" /\ worker.at = "alive"
    /\ worker' = [worker EXCEPT !.outcome = Settled(result)]
    /\ UNCHANGED <<offer, source, fixtures, prep, verify, temps>>

\* By itself, or because the timer has terminated it.
WorkerExits ==
    /\ verify.at = "smoking" /\ worker.at = "alive"
    /\ worker' = [worker EXCEPT !.at = "gone", !.outcome = Settled("failed")]
    /\ UNCHANGED <<offer, source, fixtures, prep, verify, temps>>

\* Mutant: the timer rejects only once the thread has ended by itself.
TimeoutLate ==
    /\ verify.at = "smoking" /\ worker.timer = "armed" /\ worker.at = "gone"
    /\ worker' = [worker EXCEPT !.timer = "fired"]
    /\ UNCHANGED <<offer, source, fixtures, prep, verify, temps>>

\* The thread is being terminated; it may still get a word in.
Timeout ==
    /\ verify.at = "smoking" /\ worker.timer = "armed"
    /\ worker' = [worker EXCEPT !.timer = "fired"]
    /\ UNCHANGED <<offer, source, fixtures, prep, verify, temps>>

\* finally: the timer is cleared and the thread terminated.
SmokeEnds ==
    /\ verify.at = "smoking" /\ worker.outcome # "pending"
    /\ verify' = [verify EXCEPT !.at = "cleaning",
                                !.failed = worker.outcome = "failed"]
    /\ worker' = [worker EXCEPT !.at = "gone", !.timer = "off"]
    /\ UNCHANGED <<offer, source, fixtures, prep, temps>>

\* cleanupTemporaryTrees(): one that cannot be removed does not keep the others.
CleanupTemporaryTrees(trees) ==
    \E left \in SUBSET (temps \cap trees) : temps' = (temps \ trees) \cup left

\* A directory that is left makes the verification fail.
Clean ==
    /\ verify.at \in {"cleaning", "cleaningPack"}
    /\ LET mine == IF verify.at = "cleaning" THEN {"consumer", "store", "cache"}
                   ELSE {"pack"}
       IN /\ CleanupTemporaryTrees(mine)
          /\ verify' = [verify EXCEPT
                      !.at = IF @ = "cleaning" THEN "cleaningPack" ELSE "ended",
                      !.failed = @ \/ temps' \cap mine # {}]
    /\ UNCHANGED <<offer, source, fixtures, prep, worker>>

\* The process is killed; what it leaves is nobody's.
Killed ==
    /\ ~Resting
    /\ verify' = [verify EXCEPT !.at = "ended", !.failed = TRUE]
    /\ temps' = {} /\ worker' = NoWorker
    /\ UNCHANGED <<offer, source, fixtures, prep>>

-----------------------------------------------------------------------------
Prepare ==
    \/ PackTunnel \/ Select \/ (\E p \in prep.left : Copy(p)) \/ Pack \/ Lock \/ Record
    \/ PrepareFails

Developer == Edit \/ Damage \/ Remove

Verification ==
    \/ Load \/ PackProject \/ VerifyPacked \/ MakeTemporary \/ Install
    \/ VerifyFails \/ SmokeEnds \/ Clean \/ Killed
    \/ (\E result \in {"done", "failed"} : WorkerSays(result))
    \/ WorkerExits \/ Timeout

Next == Prepare \/ Developer \/ Verification

Spec == Init /\ [][Next]_vars

\* The script goes on.  The commands of packing and installing and the smoke are
\* under a timer; the tar that reads an archive is not, and is taken to end: it
\* works on a local file.  What the modules under test do in the worker is not up
\* to the script.
FairSpec ==
    /\ Spec
    /\ WF_vars(PackProject) /\ WF_vars(VerifyPacked \/ VerifyFails)
    /\ WF_vars(MakeTemporary) /\ WF_vars(Install)
    /\ WF_vars(Timeout) /\ WF_vars(worker.timer = "fired" /\ WorkerExits)
    /\ WF_vars(SmokeEnds) /\ WF_vars(Clean)

-----------------------------------------------------------------------------
\* The variables have their types; no thread outlives its verification.
TypeOK ==
    /\ source.rev \in 1..MaxEdits /\ source.locked \in BOOLEAN
    /\ \A f \in fixtures.tarballs : f.bytes \in {"recorded", "other"}
    /\ ~fixtures.made => fixtures = NoFixtures
    /\ prep.at \in {"idle", "selecting", "copying", "packed", "locked"}
    /\ prep.left \subseteq Selected
    /\ verify.at \in {"idle", "loaded", "packed", "checked", "made", "smoking",
                      "cleaning", "cleaningPack", "ended"}
    /\ temps \subseteq {"pack", "consumer", "store", "cache"}
    /\ worker.at = "alive" => verify.at = "smoking"

\* What the two scripts disagree about: a manifest that declares a dependency
\* in two fields, another release of the tunnel in the closure, a pinned package
\* that is not in it, and a name with two versions, of which the lock was
\* written for another than the verification installs for the root.
Twice ==
    \E parent \in {Root} \cup {Id(p) : p \in Selected} :
    \E d, e \in DepsOf(Selected, parent, deps) :
        /\ d # e /\ d.dep = e.dep
        /\ Choose(Selected, d) # {} /\ Choose(Selected, e) # {}

OtherTunnel == \E p \in Selected : p.name = Tunnel /\ p.version # TunnelVersion

OtherLocked ==
    \E p \in LockedDirect(Selected) :
        LET asked == UNION {Choose(Selected, e) : e \in {d \in deps : d.dep = p.name}}
        IN  /\ p \notin asked
            /\ asked # {} \/ \E q \in OfName(Selected, p.name) : q.version > p.version

\* What one script writes the other accepts, and nothing else: of the fixtures
\* that a preparation completed, the verification refuses exactly those named
\* above, as long as the package-lock is that of the manifest and Git ignores
\* none of the files.  It refuses every directory that is half-written or damaged;
\* of a rule that makes Git ignore the files it notices one that hides the
\* provenance, the lock, the artifact or all the archives, but not every one that
\* hides a single archive.  And whatever it accepts, also with a provenance that
\* was edited, is complete and installs to the last package.
\* (prepare-alpha2-fixtures.mjs:111-114, 261-311; fixture-provenance.mjs:
\* 133-190, 210-249; fixture-consumer.mjs:86-136.)
PreparedIsAccepted ==
    /\ Intact /\ AsWritten /\ Visible =>
          (Accepted <=>
              /\ PackageLockValid
              /\ ~Twice /\ ~OtherTunnel /\ PinnedRecorded(Selected))
    /\ verify.at = "made" /\ AsWritten => (LockFits <=> ~OtherLocked)
    /\ Accepted =>
          LET S == fixtures.provenance.packages IN
             /\ Intact /\ Complete(S, deps)
             /\ ~fixtures.ignored /\ ~(Present \subseteq fixtures.hidden)
             /\ Installed(S, fixtures.provenance.edges, deps) = S

\* A release that passes is the artifact of the fixtures, although the sources
\* are edited meanwhile, was tried with an intact and complete closure, and has
\* left nothing behind.  (fixture-consumer.mjs:242-296,
\* verify-packed-contract.mjs:19-34.)
PassIsEarned ==
    /\ TypeOK
    /\ ~verify.failed =>
        /\ verify.at = "smoking" =>
              Intact /\ Complete(verify.of.packages, deps)
        /\ verify.at \in {"smoking", "cleaning", "cleaningPack", "ended"} =>
              verify.packed = verify.of.artifact
        /\ verify.at \in {"cleaning", "cleaningPack", "ended"} =>
              worker.outcome = "done"
        /\ verify.at = "ended" => temps = {}

\* A verification ends, whatever hangs in the modules it tries.
\* (fixture-consumer.mjs:28-37, 158-169.)
VerificationEnds == verify.at = "loaded" ~> verify.at = "ended"
=============================================================================
