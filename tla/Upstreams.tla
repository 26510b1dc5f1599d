------------------------------- MODULE Upstreams -------------------------------
(***************************************************************************)
(* The live upstream set and the connections routed by it.                 *)
(*                                                                         *)
(* src/main.rs loads the enabled, unexpired rows of the table upstreams    *)
(* once before it accepts connections and then on every tick; each load    *)
(* replaces the set by the configured upstreams followed by the rows, in   *)
(* whatever order the query returned them.  The query and the replacement  *)
(* are two steps: the table goes on changing between them.                 *)
(*                                                                         *)
(* A connection resolves its selection against the set of that instant.    *)
(* SOCKS5 connections resolve twice: handle_connection resolves without    *)
(* the user name, and handle_socks5 again once it has it.                  *)
(*                                                                         *)
(* Between its resolutions, or after the only one, the account that will   *)
(* be charged is looked up, independently of the one whose default         *)
(* selection routes the connection.                                        *)
(*                                                                         *)
(* Without a [database] section nothing is refreshed and the accounts are  *)
(* inline.  Balances are in Relay and StaticAuth; rows of accounts do not  *)
(* change here.                                                            *)
(***************************************************************************)
EXTENDS AccountLookup

CONSTANTS
    Static,       \* the [[proxy]] blocks, in order
    Rows,         \* rows the table may hold
    Conns,        \* connections
    Requests      \* what a connection may ask for

ASSUME UpstreamsAssumption ==
    /\ Static \in Seq(Upstream)
    /\ Rows \subseteq {u \in Upstream : u.templates = {}} /\ IsFiniteSet(Rows)
    /\ Rows \cap Range(Static) = {}
    /\ Requests \subseteq [proto  : {"socks5", "other"},
                           login  : Logins \cup {None},
                           tokens : Selection,
                           peer   : Peers]

VARIABLES
    auth,         \* router.auth
    table,        \* enabled, unexpired rows
    database,     \* the one connection to the database is "up" or "lost"; or "none"
    refresh,      \* the refresh task: what it does and the rows it has fetched
    live,         \* ProxyServer.proxy
    conn          \* each connection: its request, the account it is charged to;
                  \* sel, seen and path describe its last resolution

vars == <<auth, table, database, refresh, live, conn>>

Inline == database = "none"

\* The first load is over before `run` accepts a connection.
Booting == {"starting", "loading"}

Unrouted == [pc |-> "new"]

\* Authentication without a database needs a [[user]] block.
Init ==
    /\ auth \in BOOLEAN
    /\ table \in SUBSET Rows
    /\ database \in {"up", "none"}
    /\ auth /\ Inline => Listed # <<>>
    /\ refresh = [pc |-> IF Inline THEN "absent" ELSE "starting", rows |-> <<>>]
    /\ live = Static
    /\ conn = [c \in Conns |-> Unrouted]

-------------------------------------------------------------------------------

\* Others insert, delete, enable, disable rows; rows expire.
TableChanges(r) ==
    /\ table' = IF r \in table THEN table \ {r} ELSE table \cup {r}
    /\ UNCHANGED <<auth, database, refresh, live, conn>>

\* What a successful query leads to: before or while connections are served.
Fetching == IF refresh.pc = "starting" THEN "loading" ELSE "fetched"

\* Mutation of Query: rows are added to the ones fetched before.
QueryKeepsOldRows ==
    /\ refresh.pc \in {"starting", "idle"}
    /\ database = "up"
    /\ \E rows \in Bijection(1 .. Cardinality(table \cup Range(refresh.rows)),
                             table \cup Range(refresh.rows)) :
          refresh' = [pc |-> Fetching, rows |-> rows]
    /\ UNCHANGED <<auth, table, database, live, conn>>

\* The query runs; nothing orders its rows.
Query ==
    /\ refresh.pc \in {"starting", "idle"}
    /\ database = "up"
    /\ \E rows \in Bijection(1 .. Cardinality(table), table) :
          refresh' = [pc |-> Fetching, rows |-> rows]
    /\ UNCHANGED <<auth, table, database, live, conn>>

\* It fails: the set stays, until the next tick.
QueryFails ==
    /\ refresh.pc \in {"starting", "idle"}
    /\ refresh' = [refresh EXCEPT !.pc = "idle"]
    /\ UNCHANGED <<auth, table, database, live, conn>>

\* Mutation of Merged: the rows come first.
RowsFirst(rows) == rows \o Static

Merged(rows) == Static \o rows

ReplaceUpstreams ==
    /\ refresh.pc \in {"loading", "fetched"}
    /\ live' = Merged(refresh.rows)
    /\ refresh' = [refresh EXCEPT !.pc = "idle"]
    /\ UNCHANGED <<auth, table, database, conn>>

\* The connection to the database ends; nobody opens another.
DatabaseIsLost ==
    /\ database = "up"
    /\ database' = "lost"
    /\ UNCHANGED <<auth, table, refresh, live, conn>>

-------------------------------------------------------------------------------

\* The default of the account found by source address, if there is one; a
\* failed lookup is not an error.
DefaultsByIp(req) ==
    {IF id = Nobody THEN Unconstrained ELSE Listed[id].default :
        id \in AuthenticateByIp(Inline, database, req.peer)}

\* Mutation of Selections: the user name of SOCKS5 is not read again.
SelectionsOfTheGate(req, named) ==
    IF req.proto = "other" /\ ~IsEmpty(req.tokens) THEN {req.tokens} ELSE DefaultsByIp(req)

\* The tokens of the user name if it is known and has any, else the default.
Selections(req, named) ==
    IF named /\ ~IsEmpty(req.tokens) THEN {req.tokens} ELSE DefaultsByIp(req)

\* The connection is resolved by sel, to one of the paths or to an error.
Resolved(c, req, account, sel, success) ==
    LET result(pc, path) == [pc |-> pc, req |-> req, account |-> account,
                             sel |-> sel, seen |-> live, path |-> path]
    IN  /\ \/ /\ Resolve(live, sel) = {}
              /\ conn' = [conn EXCEPT ![c] = result("refused", <<>>)]
           \/ \E path \in Resolve(live, sel) :
                 conn' = [conn EXCEPT ![c] = result(success, path)]
        /\ UNCHANGED <<auth, table, database, refresh, live>>

\* handle_connection: of the four protocols SOCKS5 has no user name yet.
FirstResolve(c, req) ==
    /\ refresh.pc \notin Booting
    /\ conn[c].pc = "new"
    /\ \E sel \in Selections(req, req.proto = "other") :
          Resolved(c, req, Nobody, sel, IF req.proto = "socks5" THEN "gated" ELSE "resolved")

\* Whom authenticate_user, and handle_socks5 in its sub-negotiation, may find.
\* SOCKS5 is not asked for an address.
AuthenticatesAs(req) ==
    IF req.login # None THEN Authenticate(Inline, database, req.login)
    ELSE IF req.proto = "other" THEN AuthenticateByIp(Inline, database, req.peer)
    ELSE {Nobody}

\* A connection that has been resolved is charged to the account found for it,
\* to none if accounts are not asked for, or is refused.
AuthenticateUser(c) ==
    /\ conn[c].pc \in {"gated", "resolved"}
    /\ \E account \in IF auth THEN AuthenticatesAs(conn[c].req) ELSE {Nobody} :
          conn' = [conn EXCEPT ![c].account = account,
                               ![c].pc = IF auth /\ account = Nobody THEN "refused"
                                         ELSE IF @ = "gated" THEN "known" ELSE "routed"]
    /\ UNCHANGED <<auth, table, database, refresh, live>>

\* handle_socks5, after its sub-negotiation, in which it has met a user name if
\* it asked for one.
SecondResolve(c) ==
    /\ conn[c].pc = "known"
    /\ \E sel \in Selections(conn[c].req, auth) :
          Resolved(c, conn[c].req, conn[c].account, sel, "routed")

Next ==
    \/ \E r \in Rows : TableChanges(r)
    \/ Query
    \/ QueryFails
    \/ ReplaceUpstreams
    \/ DatabaseIsLost
    \/ \E c \in Conns : (\E req \in Requests : FirstResolve(c, req))
                      \/ AuthenticateUser(c) \/ SecondResolve(c)

\* The refresh task ticks for ever, and while its connection is up the
\* database answers it again and again.
Fairness == WF_vars(Query) /\ WF_vars(ReplaceUpstreams)

Spec == Init /\ [][Next]_vars /\ Fairness

-------------------------------------------------------------------------------

RowSeqs == {rows \in UNION {[1 .. n -> Rows] : n \in 0 .. Cardinality(Rows)} : IsInjective(rows)}
LiveSeqs == {Static \o rows : rows \in RowSeqs}

TypeOK ==
    /\ table \subseteq Rows
    /\ auth \in BOOLEAN
    /\ database \in {"up", "lost", "none"}
    /\ refresh.pc \in Booting \cup {"idle", "fetched", "absent"}
    /\ refresh.rows \in RowSeqs
    /\ live \in LiveSeqs
    /\ \A c \in Conns : conn[c] # Unrouted =>
          /\ conn[c].pc \in {"gated", "known", "resolved", "routed", "refused"}
          /\ conn[c].req \in Requests
          /\ conn[c].account \in Ids \cup {Nobody}
          /\ conn[c].sel \in Selection
          /\ conn[c].seen \in LiveSeqs
          /\ \A i \in DOMAIN conn[c].path : conn[c].path[i].via \in Range(conn[c].seen)

Routed == {c \in Conns : conn[c].pc = "routed"}

\* Resolution goes by name, not by tags.
ByName(sel) == sel.chain # None \/ OnlySession(sel)

\* The user name of a connection has been read.
Named(c) == conn[c].req.proto = "other" \/ auth

\* A connection whose tokens constrain tags leaves by one upstream, and every
\* constrained tag is one the upstream has or one its user name asks for
\* (src/routing.rs:77-91 and :162-190 agree, src/protocols/proxy.rs:78-119).
FailClosed ==
    \A c \in Routed :
        LET want == conn[c].req.tokens.want
            hop  == conn[c].path[1]
        IN  Named(c) /\ ~ByName(conn[c].req.tokens) =>
              /\ Len(conn[c].path) = 1
              /\ \A d \in Dims :
                    \/ DimOk(want[d], hop.via.tags[d])
                    \/ d \in DOMAIN hop.as /\ hop.as[d] \in Range(want[d])

\* A name resolves to the configured upstream that bears it, whatever rows bear
\* it too (src/protocols/proxy.rs:69-73, :143, :155).
StaticLabelWins ==
    \A c \in Routed : ByName(conn[c].sel) =>
        \A i \in DOMAIN conn[c].path :
            LET u == conn[c].path[i].via
            IN  u.label \in {Static[j].label : j \in DOMAIN Static} => u \in Range(Static)

\* A connection of a session that selects tags could have left the set it saw
\* by no other upstream and under no other user name, nor can another of the
\* same session that sees that set (src/routing.rs:194-206).
PinnedOnOneSet ==
    \A c \in Routed :
        ~ByName(conn[c].sel) /\ conn[c].sel.session # None
            => \A path \in Resolve(conn[c].seen, conn[c].sel) : path = conn[c].path

\* An inline account that a connection without credentials is charged to is the
\* one whose default selection has routed it, although the two are looked up one
\* after the other and networks overlap (src/auth.rs:365-372,
\* src/protocols/proxy.rs:805, :866-872).
OneAccountDecides ==
    \A c \in Routed :
        /\ Inline /\ auth
        /\ conn[c].req.login = None /\ IsEmpty(conn[c].req.tokens)
        => conn[c].sel = Listed[conn[c].account].default

\* While the database is there, the live set follows the table: rows that stay
\* away leave it for good, and rows that stay join it (src/main.rs:104-125).
TableIsFollowed ==
    [](database = "up") =>
        \A r \in Rows : /\ <>[](r \notin table) => <>[](r \notin Range(live))
                        /\ <>[](r \in table) => <>[](r \in Range(live))

\* The upstreams a connection could have been given by its tags.
Matching(c) == {conn[c].seen[i] : i \in Candidates(conn[c].seen, conn[c].sel)}

\* "`session-<id>` pins one exit out of the matching set for as long as the id
\* is reused", wiki/Routing-tokens.md:37.
PinnedOnOneMatchingSet ==
    \A c, d \in Routed :
        /\ conn[c].sel = conn[d].sel
        /\ ~ByName(conn[c].sel) /\ conn[c].sel.session # None
        /\ Matching(c) = Matching(d)
        => conn[c].path[1].via = conn[d].path[1].via

\* "An account may carry a default_selection applied when the username has no
\* tokens", wiki/Routing-tokens.md:56.
DefaultApplies ==
    \A c \in Routed :
        /\ conn[c].req.login # None /\ conn[c].account # Nobody
        /\ IsEmpty(conn[c].req.tokens)
        /\ ~IsEmpty(Listed[conn[c].account].default)
        => conn[c].sel = Listed[conn[c].account].default
===============================================================================
