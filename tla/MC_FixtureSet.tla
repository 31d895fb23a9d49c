---------------------------- MODULE MC_FixtureSet ---------------------------
EXTENDS FixtureSet

D(dep, range, section) == [dep |-> dep, range |-> range, section |-> section]
P(name, version, entries) == [name |-> name, version |-> version, deps |-> entries]

AnyTunnel == D("tunnel", {1, 2}, "peerDependencies")

\* The root asks for the tunnel, and for a and b in several ways; a may need b
\* or the tunnel, b may need an older a, and any but the tunnel may be missing.
RootDeps ==
    {{AnyTunnel} \cup more : more \in
        {{}, {D("tunnel", {1}, "dependencies")}, {D("a", {1, 2}, "dependencies")}, {D("a", {2}, "optionalPeer")},
         {D("a", {1, 2}, "dependencies"), D("a", {2}, "peerDependencies")},
         {D("a", {2}, "dependencies"), D("b", {1}, "optionalDependencies")},
         {D("a", {1, 2}, "dependencies"), D("b", {1, 2}, "dependencies")}}}

\* As 9.0.0 and 10.0.0.
MCText == [v \in Versions |-> 3 - v]

MCPinned == {<<"a", 2>>}

Perhaps(S) == {{}} \cup {{x} : x \in S}

\* The root may import a without asking for it; an archive may have no lock.
Uses ==
    LET all == {<<"a", 1>>, <<"a", 2>>, <<"b", 1>>} IN
    {[imports |-> {"tunnel"}, locked |-> all],
     [imports |-> {"tunnel"}, locked |-> all \ {<<"a", 2>>}],
     [imports |-> {"tunnel", "a"}, locked |-> all]}

MCOffers ==
    {[packages |-> {P("tunnel", 1, {})} \cup t \cup a1 \cup a2 \cup b,
      deps |-> r, imports |-> u.imports, locked |-> u.locked] :
        a1 \in Perhaps({P("a", 1, {})}),
        a2 \in Perhaps({P("a", 2, {}), P("a", 2, {D("b", {1}, "dependencies")}),
                       P("a", 2, {D("tunnel", {1}, "dependencies")})}),
        t \in Perhaps({P("tunnel", 2, {})}),
        b \in Perhaps({P("b", 1, {}), P("b", 1, {D("a", {1}, "peerDependencies")})}),
        r \in RootDeps,
        u \in Uses}
=============================================================================
