-------------------------------- MODULE Routing --------------------------------
(***************************************************************************)
(* Routing as functions: src/routing.rs and the resolve_* methods of       *)
(* src/protocols/proxy.rs.  Given the live upstreams and a selection, a    *)
(* resolution is the SET of paths the code may return; it is empty when    *)
(* the code returns an error (or panics on a chain without proxies), and   *)
(* a random choice makes it larger than one.                               *)
(*                                                                         *)
(* Tag values stand for strings up to ASCII case (dim_ok), and a username  *)
(* for the values appended to its base: the base and the prefixes are      *)
(* configuration, and the order of the parts is fixed.                     *)
(***************************************************************************)
EXTENDS Naturals, Sequences, FiniteSets, FiniteSetsExt, Functions

CONSTANTS
    Dims,         \* tag dimensions
    Untemplated,  \* `type`, the one username_prefixes cannot serve
    Values,       \* tag values
    Sessions,     \* session ids
    None,         \* an absent option
    Hash,         \* fnv1a
    Labels,       \* labels of upstreams
    ChainIds,     \* chain ids
    Chains,       \* [[chain]]: id -> proxies, mode, count
    Global        \* router.chain

\* A [[chain]] block; without a count a random chain has one hop.
Chain == [proxies : Seq(Labels), mode : {"strict", "random"}, count : Nat \cup {None}]

ASSUME RoutingAssumption ==
    /\ Untemplated \in Dims
    /\ None \notin Values \cup Sessions \cup Labels \cup ChainIds \cup Nat
    /\ Hash \in [Sessions -> Nat]
    /\ Chains \in [ChainIds -> Chain]
    /\ Global \in Labels \cup ChainIds \cup {None}

Selection == [want    : [Dims -> Seq(Values)],
              session : Sessions \cup {None},
              chain   : Labels \cup ChainIds \cup {None}]

\* Dimensions an upstream may template, and the session, which it may encode.
Templates == SUBSET ((Dims \ {Untemplated}) \cup {"session"})

\* The tags of an upstream, all optional.
Tags == [Dims -> Values \cup {None}]

\* `id` tells apart upstreams with equal labels; rows of the database have no
\* templates (upstreams.rs:77).
Upstream == [id        : STRING,
             label     : Labels \cup {None},
             tags      : Tags,
             templates : Templates]

Unconstrained == [want |-> [d \in Dims |-> <<>>], session |-> None, chain |-> None]

OnlySession(sel) == \A d \in Dims : sel.want[d] = <<>>

IsEmpty(sel) == OnlySession(sel) /\ sel.session = None /\ sel.chain = None

DimOk(wanted, tag) == wanted = <<>> \/ tag \in Range(wanted)

\* Mutation of MatchesUpstream: a template of any dimension serves all of them.
MatchesAnyTemplate(sel, u) ==
    u.templates # {} \/ \A d \in Dims : DimOk(sel.want[d], u.tags[d])

MatchesUpstream(sel, u) ==
    \A d \in Dims : d \in u.templates \/ DimOk(sel.want[d], u.tags[d])

\* Mutation of PickIndex: the session is not looked at.
PicksAny(n, session) == 1 .. n

\* The positions pick_index may return among n candidates.
PickIndex(n, session) ==
    IF n = 0 \/ session = None THEN 1 .. n ELSE {(Hash[session] % n) + 1}

-------------------------------------------------------------------------------

\* The values build_username may append for u; a session value is appended
\* under "session".
Usernames(u, sel) ==
    LET picked == {d \in Dims : d \in u.templates /\ sel.want[d] # <<>>}
        pinned == IF "session" \in u.templates /\ sel.session # None THEN {"session"} ELSE {}
    IN  {e \in [picked \cup pinned -> Values \cup Sessions] :
            /\ \A d \in picked :
                  \E i \in PickIndex(Len(sel.want[d]), sel.session) : e[d] = sel.want[d][i]
            /\ \A d \in pinned : e[d] = sel.session}

\* The positions of the upstreams that match.
Candidates(ups, sel) == {i \in DOMAIN ups : MatchesUpstream(sel, ups[i])}

\* The place of i among the candidates, counted from one.
Rank(i, candidates) == Cardinality({j \in candidates : j <= i})

\* Mutation of ByLabel: the last upstream with the label.
LastByLabel(ups, label) ==
    {ups[i] : i \in {i \in DOMAIN ups :
        ups[i].label = label /\ \A j \in (i + 1) .. Len(ups) : ups[j].label # label}}

\* The first upstream with a label, as a set of at most one.
ByLabel(ups, label) ==
    {ups[i] : i \in {i \in DOMAIN ups :
        ups[i].label = label /\ \A j \in 1 .. (i - 1) : ups[j].label # label}}

\* The paths a chain allows: all of its proxies in order, or as many distinct
\* positions as it counts, one if it does not say.
ChainPaths(ups, ch) ==
    IF \E i \in DOMAIN ch.proxies : ByLabel(ups, ch.proxies[i]) = {} THEN {}
    ELSE LET hop(i) == CHOOSE u \in ByLabel(ups, ch.proxies[i]) : TRUE
             n == IF ch.count = None THEN 1 ELSE Min({ch.count, Len(ch.proxies)})
         IN  IF ch.mode = "strict" THEN {[i \in DOMAIN ch.proxies |-> hop(i)]}
             ELSE {[i \in 1 .. n |-> hop(f[i])] : f \in Injection(1 .. n, DOMAIN ch.proxies)}

\* A label, else a chain id, else an error.
ResolveRef(ups, name) ==
    IF ByLabel(ups, name) # {} THEN {<<u>> : u \in ByLabel(ups, name)}
    ELSE IF name \in ChainIds THEN ChainPaths(ups, Chains[name]) ELSE {}

ResolveGlobal(ups) ==
    IF Global # None THEN ResolveRef(ups, Global)
    ELSE IF ups = <<>> THEN {} ELSE {<<ups[1]>>}

ResolveChain(ups, sel) ==
    IF sel.chain # None THEN ResolveRef(ups, sel.chain)
    ELSE IF OnlySession(sel) THEN ResolveGlobal(ups)
    ELSE LET fit  == Candidates(ups, sel)
             hits == PickIndex(Cardinality(fit), sel.session)
         IN  {<<ups[i]>> : i \in {i \in fit : Rank(i, fit) \in hits}}

\* Every way to walk a path with a username built for each of its hops.
WithUsernames(path, sel) ==
    {[i \in DOMAIN path |-> [via |-> path[i], as |-> names[i]]] :
        names \in {f \in [DOMAIN path -> UNION {Usernames(path[i], sel) : i \in DOMAIN path}] :
                      \A i \in DOMAIN path : f[i] \in Usernames(path[i], sel)}}

\* The non-empty paths; an empty one fails in the caller (proxy.rs:596, chain.rs:30).
Resolve(ups, sel) ==
    UNION {WithUsernames(path, sel) : path \in ResolveChain(ups, sel) \ {<<>>}}
===============================================================================
