--------------------------- MODULE FixtureClosure ---------------------------
(***************************************************************************)
(* How the release scripts choose the packages of the offline fixture set   *)
(* (prepare-alpha2-fixtures.mjs) and how they check, later and in another   *)
(* script, that the recorded choice is right (fixture-provenance.mjs).      *)
(*                                                                         *)
(* A package is a name and a version; a semver range is the set of the      *)
(* versions that satisfy it.  The root is the pairing package itself.       *)
(***************************************************************************)
EXTENDS Naturals, FiniteSets

CONSTANTS
    Names,           \* of the packages
    Versions,        \* their order is that of semver
    Tunnel,          \* the package packed from its own checkout, at
    TunnelVersion,   \*   the version pinned
    Text,            \* the rank of a version in the order of its text
    Pinned,          \* ALPHA2_DEV_TREE: <<name, version>> that must be there
    DshHosts,        \* @deepseek-ai/dsh and @deepseek-ai/dsh-...
    Root, Any        \* the parent of the root's own edges, and any parent

ASSUME ClosureAssumption ==
    /\ Versions \subseteq Nat /\ Tunnel \in Names /\ TunnelVersion \in Versions
    /\ Pinned \subseteq Names \X Versions
    /\ Text \in [Versions -> Nat] /\ \A v, w \in Versions : Text[v] = Text[w] => v = w
    /\ DshHosts \subseteq Names
    /\ {Root, Any} \cap (Names \X Versions) = {} /\ Root # Any

\* dependencyEntries(): the sections that count.
Sections == {"dependencies", "optionalDependencies", "peerDependencies",
             "optionalPeer"}

\* One line of a manifest; "optionalPeer" is a peer with peerDependenciesMeta.
Entry == [dep : Names, range : SUBSET Versions, section : Sections]
Optional(e) == e.section \in {"optionalDependencies", "optionalPeer"}

\* A package with its manifest.
Package == [name : Names, version : Versions, deps : SUBSET Entry]
Id(p) == <<p.name, p.version>>

\* assertTunnelManifestContract(): the root requires the tunnel as a peer only.
TunnelContract(deps) ==
    {e.section : e \in {d \in deps : d.dep = Tunnel}} = {"peerDependencies"}

\* assertOpenDshHostRanges(): a Host of DSH is asked for by a lower bound only.
OpenHostRanges(deps) ==
    \A e \in deps : e.dep \in DshHosts =>
        \A v \in e.range, w \in Versions : w >= v => w \in e.range

\* assertPublishableManifest(), without its check of source aliases.
Publishable(deps) == TunnelContract(deps) /\ OpenHostRanges(deps)

-----------------------------------------------------------------------------
(***************************************************************************)
(* The choice.                                                             *)
(***************************************************************************)
Satisfying(S, e) == {p \in S : p.name = e.dep /\ p.version \in e.range}

\* The newest package of S that satisfies the range, if there is one.
Choose(S, e) ==
    {p \in Satisfying(S, e) : \A q \in Satisfying(S, e) : p.version >= q.version}

Chosen(S, deps) == UNION {Choose(S, e) : e \in deps}

\* What a queue that begins with from has seen in the end, if every x adds next[x].
Reached(S, from, next) ==
    LET upTo[n \in 0..Cardinality(S)] ==
            IF n = 0 THEN from ELSE upTo[n - 1] \cup UNION {next[x] : x \in upTo[n - 1]}
    IN  upTo[Cardinality(S)]

\* The queue of main(): the packages chosen for the root, for those, and so on.
Closure(S, deps) == Reached(S, Chosen(S, deps), [p \in S |-> Chosen(S, p.deps)])

Lacks(S, deps) == \E e \in deps : ~Optional(e) /\ Choose(S, e) = {}

\* No package that is needed is missing.
Complete(S, deps) ==
    ~Lacks(S, deps) /\ \A p \in Closure(S, deps) : ~Lacks(S, p.deps)

\* The edges are chosen anew, out of the packages selected.
Edges(S, deps) ==
    LET From(parent, entries) ==
            UNION {{[parent |-> parent, entry |-> e, child |-> Id(p)] :
                        p \in Choose(S, e)} : e \in entries}
    IN  From(Root, deps) \cup UNION {From(Id(p), p.deps) : p \in S}

-----------------------------------------------------------------------------
(***************************************************************************)
(* The check of recorded edges against recorded packages.                  *)
(***************************************************************************)
DepsOf(S, parent, deps) ==
    IF parent = Root THEN deps
    ELSE UNION {p.deps : p \in {q \in S : Id(q) = parent}}

\* Mutant: any version of the tunnel will do.
SatisfiesChildAny(e, child) == child[1] = e.dep /\ child[2] \in e.range

SatisfiesChild(e, child) ==
    /\ child[1] = e.dep /\ child[2] \in e.range
    /\ e.dep = Tunnel => child[2] = TunnelVersion

\* From the root the edges lead to every package.
AllReached(S, edges) ==
    LET ids == {Root} \cup {Id(p) : p \in S}
    IN  ids = Reached(ids, {Root},
                      [id \in ids |-> {d.child : d \in {x \in edges : x.parent = id}}])

GraphAccepted(S, edges, deps) ==
    /\ \A c, d \in edges :
          c.parent = d.parent /\ c.entry.dep = d.entry.dep => c = d
    /\ \A d \in edges :
          /\ d.entry \in DepsOf(S, d.parent, deps)
          /\ d.child \in {Id(p) : p \in S}
          /\ SatisfiesChild(d.entry, d.child)
    /\ \A parent \in {Root} \cup {Id(p) : p \in S} :
          \A e \in DepsOf(S, parent, deps) :
             Optional(e) \/ \E d \in edges : d.parent = parent /\ d.entry.dep = e.dep
    /\ AllReached(S, edges)

\* What the packed entry point imports has an edge from the root, unless it is
\* an optional peer.
RuntimeClosed(edges, deps, imports) ==
    \A n \in imports :
        \/ \E d \in edges : d.parent = Root /\ d.entry.dep = n
        \/ \E e \in deps : e.dep = n /\ e.section = "optionalPeer"

-----------------------------------------------------------------------------
(***************************************************************************)
(* The consumer project: what it depends on, and which archive its workspace *)
(* makes pnpm take for the dependency of a package.                        *)
(***************************************************************************)
OfName(S, name) == {p \in S : p.name = name}

\* Of every name one package: that of the root's edge, or else the newest.
Direct(S, edges) ==
    {p \in S :
        LET chosen == {d.child : d \in {x \in edges : x.parent = Root /\ x.entry.dep = p.name}}
        IN  IF chosen # {} THEN Id(p) \in chosen
            ELSE \A q \in OfName(S, p.name) : q.version <= p.version}

\* The preparation writes the lock for the last of each name, by its text.
LockedDirect(S) ==
    {p \in S : \A q \in OfName(S, p.name) : Text[q.version] <= Text[p.version]}

\* workspaceOverrides(): a name with one package goes to it everywhere, any other
\* by its edge.
Overrides(S, edges) ==
    {[parent |-> Any, dep |-> p.name, child |-> Id(p)] :
        p \in {q \in S : Cardinality(OfName(S, q.name)) = 1}}
    \cup {[parent |-> d.parent, dep |-> d.entry.dep, child |-> d.child] :
        d \in {x \in edges : Cardinality(OfName(S, x.entry.dep)) > 1}}

\* writeFixtureWorkspace() writes the same, and pnpm goes by it.
Overridden(S, edges, parent, e) ==
    {p \in S : \E o \in Overrides(S, edges) :
        o.parent \in {Any, parent} /\ o.dep = e.dep /\ o.child = Id(p)}

\* What pnpm then installs, and verifyInstalledTree() compares with S.
Installed(S, edges, deps) ==
    LET Of(parent) == UNION {Overridden(S, edges, parent, e) :
                                e \in DepsOf(S, parent, deps)}
    IN  Reached(S, Direct(S, edges) \cup Of(Root), [p \in S |-> Of(Id(p))])

\* loadFixtureSet() looks for the tunnel and the pinned packages.
PinnedRecorded(S) ==
    Pinned \cup {<<Tunnel, TunnelVersion>>} \subseteq {Id(p) : p \in S}
=============================================================================
