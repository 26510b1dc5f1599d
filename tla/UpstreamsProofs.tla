---------------------------- MODULE UpstreamsProofs ----------------------------
(***************************************************************************)
(* TypeOK, StaticLabelWins, FailClosed, PinnedOnOneSet and                 *)
(* OneAccountDecides for any upstreams, rows, chains, accounts,            *)
(* connections and requests.                                               *)
(*                                                                         *)
(* The live set is always the configured upstreams followed by some rows,  *)
(* so the first upstream with a label that some configured upstream bears  *)
(* is configured; every hop of a path resolved by name is the first        *)
(* upstream with some label.  Whatever has happened to the live set since, *)
(* the path of a connection is one that the set it saw allows its          *)
(* selection, and its selection is that of its user name once that has     *)
(* been read: tags and sessions are then questions about Resolve alone.    *)
(***************************************************************************)
EXTENDS Upstreams, FiniteSetTheorems, SequenceTheorems, WellFoundedInduction, TLAPS

StaticLabels == {Static[j].label : j \in DOMAIN Static}

\* Hops resolved by name bear a configured label only if they are configured.
ConfiguredIfLabelledSo(path) ==
    \A i \in DOMAIN path : path[i].via.label \in StaticLabels => path[i].via \in Range(Static)

Pcs == Booting \cup {"idle", "fetched", "absent"}

\* A connection that has been resolved and not been refused since.
Reached == {"gated", "known", "resolved", "routed"}

Shape(r) == [pc |-> r.pc, req |-> r.req, account |-> r.account,
             sel |-> r.sel, seen |-> r.seen, path |-> r.path]

LiveShape(s) == \E rows \in Seq(Rows) : s = Static \o rows

\* The default of the inline account found by address.
InlineDefaults(peer) ==
    {IF id = Nobody THEN Unconstrained ELSE Listed[id].default : id \in InlineByIp(peer)}

\* What is known of one connection: its path was allowed by a set that was live,
\* and its selection is that of its user name if that has been read.
WellRouted(r) ==
    r.pc \in Reached =>
        /\ r = Shape(r)
        /\ r.req \in Requests
        /\ LiveShape(r.seen)
        /\ r.path \in Resolve(r.seen, r.sel)
        /\ r.pc \in {"gated", "known"} => r.req.proto = "socks5"
        /\ /\ r.pc \in {"resolved", "routed"}
           /\ r.req.proto = "other" \/ auth
           /\ ~IsEmpty(r.req.tokens)
           => r.sel = r.req.tokens
        /\ Inline /\ IsEmpty(r.req.tokens) => r.sel \in InlineDefaults(r.req.peer)
        /\ r.pc \in {"known", "routed"} /\ Inline /\ auth /\ r.req.login = None
           => r.account \in InlineByIp(r.req.peer) \ {Nobody}

IInv ==
    /\ table \subseteq Rows
    /\ refresh \in [pc : Pcs, rows : Seq(Rows)]
    /\ LiveShape(live)
    /\ conn = [c \in Conns |-> conn[c]]
    /\ \A c \in Conns : WellRouted(conn[c])

\* The configured upstreams come first in the live set, so the first upstream
\* with a configured label is configured.
LEMMA FirstOfItsLabel ==
    ASSUME NEW ups, LiveShape(ups), NEW l, NEW u \in ByLabel(ups, l)
    PROVE  u.label \in StaticLabels => u \in Range(Static)
<1>1. PICK rows \in Seq(Rows) : ups = Static \o rows
  BY DEF LiveShape
<1>2. Static \in Seq(Upstream)
  BY UpstreamsAssumption
<1>3. PICK i \in DOMAIN ups : /\ u = ups[i] /\ ups[i].label = l
                              /\ \A j \in 1 .. (i - 1) : ups[j].label # l
  BY DEF ByLabel
<1>4. /\ DOMAIN Static = 1 .. Len(Static) /\ Len(Static) \in Nat
      /\ DOMAIN ups = 1 .. (Len(Static) + Len(rows)) /\ Len(rows) \in Nat
      /\ \A j \in 1 .. Len(Static) : ups[j] = Static[j]
  BY <1>1, <1>2
<1>5. ASSUME u.label \in StaticLabels PROVE u \in Range(Static)
  <2>1. PICK j \in 1 .. Len(Static) : Static[j].label = l
    BY <1>3, <1>4, <1>5 DEF StaticLabels
  <2>2. ups[j].label = l
    BY <1>4, <2>1
  <2>3. ~(j < i)
    BY <1>3, <1>4, <2>1, <2>2
  <2>4. i \in 1 .. Len(Static)
    BY <1>4, <2>3
  <2>5. u = Static[i]
    BY <1>3, <1>4, <2>4
  <2> QED BY <1>4, <2>4, <2>5 DEF Range
<1> QED BY <1>5

\* A chain has one upstream for each of its labels, or no path at all.
LEMMA HopsOfAChain ==
    ASSUME NEW ups, NEW id \in ChainIds, NEW path \in ChainPaths(ups, Chains[id]),
           NEW i \in DOMAIN path
    PROVE  \E l : path[i] \in ByLabel(ups, l)
<1> DEFINE ch == Chains[id]
           hop(k) == CHOOSE u \in ByLabel(ups, ch.proxies[k]) : TRUE
           n == IF ch.count = None THEN 1 ELSE Min({ch.count, Len(ch.proxies)})
<1>1. \A k \in DOMAIN ch.proxies : hop(k) \in ByLabel(ups, ch.proxies[k])
  BY DEF ChainPaths
<1>2. CASE ch.mode = "strict"
  <2>1. path = [k \in DOMAIN ch.proxies |-> hop(k)]
    BY <1>2 DEF ChainPaths
  <2> QED BY <1>1, <2>1
<1>3. CASE ch.mode # "strict"
  <2>1. path \in {[k \in 1 .. n |-> hop(f[k])] : f \in Injection(1 .. n, DOMAIN ch.proxies)}
    BY <1>3 DEF ChainPaths
  <2>2. PICK f \in [1 .. n -> DOMAIN ch.proxies] : path = [k \in 1 .. n |-> hop(f[k])]
    BY <2>1 DEF Injection
  <2> QED BY <1>1, <2>2
<1> QED BY <1>2, <1>3

LEMMA HopsByReference ==
    ASSUME NEW ups, NEW name, NEW path \in ResolveRef(ups, name), NEW i \in DOMAIN path
    PROVE  \E l : path[i] \in ByLabel(ups, l)
<1>1. CASE ByLabel(ups, name) # {}
  <2>1. PICK u \in ByLabel(ups, name) : path = <<u>>
    BY <1>1 DEF ResolveRef
  <2>2. path[i] = u
    BY <2>1
  <2> QED BY <2>1, <2>2
<1>2. CASE ByLabel(ups, name) = {}
  <2>1. name \in ChainIds /\ path \in ChainPaths(ups, Chains[name])
    BY <1>2 DEF ResolveRef
  <2> QED BY <2>1, HopsOfAChain
<1> QED BY <1>1, <1>2

\* Every hop of a path resolved by name is the first upstream of some label.
LEMMA HopsByName ==
    ASSUME NEW ups, LiveShape(ups), NEW sel, ByName(sel),
           NEW path \in ResolveChain(ups, sel), NEW i \in DOMAIN path
    PROVE  \E l : path[i] \in ByLabel(ups, l)
<1>1. CASE sel.chain # None
  BY <1>1, HopsByReference DEF ResolveChain
<1>2. CASE sel.chain = None
  <2>1. path \in ResolveGlobal(ups)
    BY <1>2 DEF ResolveChain, ByName
  <2>2. CASE Global # None
    BY <2>1, <2>2, HopsByReference DEF ResolveGlobal
  <2>3. CASE Global = None
    <3>1. ups # <<>> /\ path = <<ups[1]>>
      BY <2>1, <2>3 DEF ResolveGlobal
    <3>2. path[i] = ups[1]
      BY <3>1
    <3>3. ups \in Seq(Upstream)
      BY UpstreamsAssumption DEF LiveShape
    <3>4. 1 \in DOMAIN ups
      BY <3>1, <3>3
    <3>5. ups[1] \in ByLabel(ups, ups[1].label)
      BY <3>4 DEF ByLabel
    <3> QED BY <3>2, <3>5
  <2> QED BY <2>2, <2>3
<1> QED BY <1>1, <1>2

LEMMA ResolvedByName ==
    ASSUME NEW ups, LiveShape(ups), NEW sel, ByName(sel), NEW path \in Resolve(ups, sel)
    PROVE  ConfiguredIfLabelledSo(path)
<1>1. PICK hops \in ResolveChain(ups, sel) : path \in WithUsernames(hops, sel)
  BY DEF Resolve
<1>2. DOMAIN path = DOMAIN hops /\ \A i \in DOMAIN hops : path[i].via = hops[i]
  BY <1>1 DEF WithUsernames
<1>3. ASSUME NEW i \in DOMAIN path
      PROVE  path[i].via.label \in StaticLabels => path[i].via \in Range(Static)
  <2>1. PICK l : hops[i] \in ByLabel(ups, l)
    BY <1>1, <1>2, <1>3, HopsByName
  <2> QED BY <1>2, <1>3, <2>1, FirstOfItsLabel
<1> QED BY <1>3 DEF ConfiguredIfLabelledSo

\* Rows in any order are a sequence of rows.
LEMMA RowsInAnyOrder ==
    ASSUME NEW S, S \subseteq Rows, NEW rows \in Bijection(1 .. Cardinality(S), S)
    PROVE  rows \in Seq(Rows)
<1>1. IsFiniteSet(S)
  BY UpstreamsAssumption, FS_Subset
<1>2. Cardinality(S) \in Nat
  BY <1>1, FS_CardinalityType
<1>3. rows \in [1 .. Cardinality(S) -> S]
  BY DEF Bijection, Injection
<1> QED BY <1>2, <1>3

\* A connection changes to one that is refused or well routed.
LEMMA OneConnectionChanges ==
    ASSUME IInv, NEW c \in Conns, NEW r, conn' = [conn EXCEPT ![c] = r], WellRouted(r),
           UNCHANGED <<auth, table, database, refresh, live>>
    PROVE  IInv'
<1>1. conn' = [d \in Conns |-> conn'[d]]
  BY DEF IInv
<1>2. conn'[c] = r /\ \A d \in Conns \ {c} : conn'[d] = conn[d]
  BY DEF IInv
<1>3. \A d \in Conns : WellRouted(conn'[d])
  BY <1>2 DEF IInv
<1>4. \A d \in Conns : WellRouted(conn[d])'
  BY <1>3 DEF WellRouted, Inline
<1> QED BY <1>1, <1>4 DEF IInv

\* A resolution against the live set keeps the invariant, whatever it yields,
\* if the selection is that of a user name which has been read.
LEMMA ResolvedKeepsIInv ==
    ASSUME IInv, NEW c \in Conns, NEW req \in Requests, NEW account, NEW sel, NEW success,
           Resolved(c, req, account, sel, success),
           success \in {"gated", "known"} => req.proto = "socks5",
           /\ success \in {"resolved", "routed"}
           /\ req.proto = "other" \/ auth
           /\ ~IsEmpty(req.tokens)
           => sel = req.tokens,
           Inline /\ IsEmpty(req.tokens) => sel \in InlineDefaults(req.peer),
           /\ success \in {"known", "routed"}
           /\ Inline /\ auth /\ req.login = None
           => account \in InlineByIp(req.peer) \ {Nobody}
    PROVE  IInv'
<1> DEFINE result(pc, path) == [pc |-> pc, req |-> req, account |-> account,
                                sel |-> sel, seen |-> live, path |-> path]
<1>1. UNCHANGED <<auth, table, database, refresh, live>>
  BY DEF Resolved
<1>2. CASE conn' = [conn EXCEPT ![c] = result("refused", <<>>)]
  <2>1. result("refused", <<>>).pc \notin Reached
    BY DEF Reached
  <2>2. WellRouted(result("refused", <<>>))
    BY <2>1 DEF WellRouted
  <2> HIDE DEF result
  <2> QED BY <1>1, <1>2, <2>2, OneConnectionChanges
<1>3. ASSUME NEW path \in Resolve(live, sel), conn' = [conn EXCEPT ![c] = result(success, path)]
      PROVE  IInv'
  <2> DEFINE r == result(success, path)
  <2>1. /\ r = Shape(r) /\ r.pc = success /\ r.req = req /\ r.account = account
        /\ r.sel = sel /\ r.seen = live /\ r.path = path
    BY DEF Shape
  <2>2. WellRouted(r)
    <3> HIDE DEF r
    <3> QED BY <1>3, <2>1 DEF WellRouted, IInv
  <2> HIDE DEF r
  <2> QED BY <1>1, <1>3, <2>2, OneConnectionChanges DEF r
<1> QED BY <1>2, <1>3 DEF Resolved

\* Without tokens the selection is the default of the inline account.
LEMMA SelectedInline ==
    ASSUME Inline, NEW req, IsEmpty(req.tokens), NEW named, NEW sel \in Selections(req, named)
    PROVE  sel \in InlineDefaults(req.peer)
<1>1. AuthenticateByIp(Inline, database, req.peer) = InlineByIp(req.peer)
  BY DEF AuthenticateByIp, AuthenticateBy
<1>2. Selections(req, named) = DefaultsByIp(req)
  BY DEF Selections
<1> QED BY <1>1, <1>2 DEF DefaultsByIp, InlineDefaults

LEMMA FirstResolveKeepsIInv ==
    ASSUME IInv, NEW c \in Conns, NEW req \in Requests, FirstResolve(c, req)
    PROVE  IInv'
<1> DEFINE success == IF req.proto = "socks5" THEN "gated" ELSE "resolved"
<1>1. PICK sel \in Selections(req, req.proto = "other") : Resolved(c, req, Nobody, sel, success)
  BY DEF FirstResolve
<1>2. req.proto \in {"socks5", "other"}
  BY UpstreamsAssumption
<1>3. success \in {"gated", "known"} => req.proto = "socks5"
  OBVIOUS
<1>4. /\ success \in {"resolved", "routed"}
      /\ ~IsEmpty(req.tokens)
      => sel = req.tokens
  BY <1>1, <1>2 DEF Selections
<1>5. success \notin {"known", "routed"}
  OBVIOUS
<1>6. Inline /\ IsEmpty(req.tokens) => sel \in InlineDefaults(req.peer)
  BY <1>1, SelectedInline
<1> HIDE DEF success
<1> QED BY <1>1, <1>3, <1>4, <1>5, <1>6, ResolvedKeepsIInv

LEMMA SecondResolveKeepsIInv ==
    ASSUME IInv, NEW c \in Conns, SecondResolve(c)
    PROVE  IInv'
<1>1. PICK sel \in Selections(conn[c].req, auth) :
          Resolved(c, conn[c].req, conn[c].account, sel, "routed")
  BY DEF SecondResolve
<1>2. conn[c].req \in Requests /\ conn[c].req.proto = "socks5"
  BY DEF SecondResolve, IInv, WellRouted, Reached
<1>3. auth /\ ~IsEmpty(conn[c].req.tokens) => sel = conn[c].req.tokens
  BY <1>1 DEF Selections
<1>4. Inline /\ IsEmpty(conn[c].req.tokens) => sel \in InlineDefaults(conn[c].req.peer)
  BY <1>1, SelectedInline
<1>5. Inline /\ auth /\ conn[c].req.login = None
      => conn[c].account \in InlineByIp(conn[c].req.peer) \ {Nobody}
  BY DEF SecondResolve, IInv, WellRouted, Reached
<1> QED BY <1>1, <1>2, <1>3, <1>4, <1>5, ResolvedKeepsIInv

\* Looking its account up changes two fields of a connection.
LEMMA AccountFound ==
    ASSUME IInv, NEW c \in Conns, AuthenticateUser(c)
    PROVE  \E account, pc, r :
              /\ conn' = [conn EXCEPT ![c] = r]
              /\ account \in IF auth THEN AuthenticatesAs(conn[c].req) ELSE {Nobody}
              /\ pc = IF auth /\ account = Nobody THEN "refused"
                      ELSE IF conn[c].pc = "gated" THEN "known" ELSE "routed"
              /\ r = Shape(r) /\ r.pc = pc /\ r.req = conn[c].req /\ r.account = account
              /\ r.sel = conn[c].sel /\ r.seen = conn[c].seen /\ r.path = conn[c].path
<1>1. PICK account, pc :
          /\ conn' = [conn EXCEPT ![c] = [@ EXCEPT !.account = account, !.pc = pc]]
          /\ account \in IF auth THEN AuthenticatesAs(conn[c].req) ELSE {Nobody}
          /\ pc = IF auth /\ account = Nobody THEN "refused"
                  ELSE IF conn[c].pc = "gated" THEN "known" ELSE "routed"
  BY DEF AuthenticateUser, IInv
<1> DEFINE r == [conn[c] EXCEPT !.account = account, !.pc = pc]
<1>2. conn[c] = Shape(conn[c])
  BY DEF AuthenticateUser, IInv, WellRouted, Reached
<1>3. /\ r = Shape(r) /\ r.pc = pc /\ r.req = conn[c].req /\ r.account = account
      /\ r.sel = conn[c].sel /\ r.seen = conn[c].seen /\ r.path = conn[c].path
  <2>1. PICK req, sel, seen, path :
            conn[c] = [pc |-> conn[c].pc, req |-> req, account |-> conn[c].account,
                       sel |-> sel, seen |-> seen, path |-> path]
    BY <1>2 DEF Shape
  <2>2. r = [pc |-> pc, req |-> req, account |-> account,
             sel |-> sel, seen |-> seen, path |-> path]
    <3>1. r = [[pc |-> conn[c].pc, req |-> req, account |-> conn[c].account,
                sel |-> sel, seen |-> seen, path |-> path]
                  EXCEPT !.account = account, !.pc = pc]
      BY <2>1, Zenon
    <3> HIDE DEF r
    <3> QED BY <3>1
  <2>3. conn[c].req = req /\ conn[c].sel = sel /\ conn[c].seen = seen /\ conn[c].path = path
    BY <2>1
  <2> HIDE DEF r
  <2> QED BY <2>2, <2>3 DEF Shape
<1>4. conn' = [conn EXCEPT ![c] = r]
  BY <1>1 DEF IInv
<1> HIDE DEF r
<1> WITNESS account, pc, r
<1> QED BY <1>1, <1>3, <1>4

\* Looking its account up changes neither the selection nor the path of a
\* connection.
LEMMA AuthenticateUserKeepsIInv ==
    ASSUME IInv, NEW c \in Conns, AuthenticateUser(c)
    PROVE  IInv'
<1>1. PICK account, pc, r :
          /\ conn' = [conn EXCEPT ![c] = r]
          /\ account \in IF auth THEN AuthenticatesAs(conn[c].req) ELSE {Nobody}
          /\ pc = IF auth /\ account = Nobody THEN "refused"
                  ELSE IF conn[c].pc = "gated" THEN "known" ELSE "routed"
          /\ r = Shape(r) /\ r.pc = pc /\ r.req = conn[c].req /\ r.account = account
          /\ r.sel = conn[c].sel /\ r.seen = conn[c].seen /\ r.path = conn[c].path
  BY AccountFound
<1>2. WellRouted(conn[c]) /\ conn[c].pc \in {"gated", "resolved"}
  BY DEF AuthenticateUser, IInv
<1>3. WellRouted(r)
  <2>1. pc = "refused" \/ (pc = "known" /\ conn[c].pc = "gated")
                       \/ (pc = "routed" /\ conn[c].pc = "resolved")
    BY <1>1, <1>2
  <2>2. pc # "refused" /\ Inline /\ auth /\ conn[c].req.login = None
        => account \in InlineByIp(conn[c].req.peer) \ {Nobody}
    BY <1>1 DEF AuthenticatesAs, AuthenticateByIp, AuthenticateBy
  <2> QED BY <1>1, <1>2, <2>1, <2>2 DEF WellRouted, Reached
<1> QED BY <1>1, <1>3, OneConnectionChanges DEF AuthenticateUser

-------------------------------------------------------------------------------

LEMMA InitIInv == Init => IInv
<1> SUFFICES ASSUME Init PROVE IInv
  OBVIOUS
<1>1. LiveShape(live)
  <2>1. <<>> \in Seq(Rows) /\ Static \o <<>> = Static
    BY UpstreamsAssumption
  <2> QED BY <2>1 DEF Init, LiveShape
<1>2. \A c \in Conns : WellRouted(conn[c])
  BY DEF Init, Unrouted, WellRouted, Reached
<1>3. refresh \in [pc : Pcs, rows : Seq(Rows)]
  <2>1. <<>> \in Seq(Rows)
    OBVIOUS
  <2> QED BY <2>1 DEF Init, Pcs, Booting
<1>4. conn = [c \in Conns |-> conn[c]]
  BY DEF Init
<1> QED BY <1>1, <1>2, <1>3, <1>4 DEF Init, IInv

LEMMA NextIInv == IInv /\ [Next]_vars => IInv'
<1> SUFFICES ASSUME IInv, [Next]_vars PROVE IInv'
  OBVIOUS
<1>1. ASSUME NEW r \in Rows, TableChanges(r) PROVE IInv'
  BY <1>1 DEF TableChanges, IInv, WellRouted, Inline
<1>2. CASE Query
  <2>1. PICK rows \in Bijection(1 .. Cardinality(table), table) :
            refresh' = [pc |-> Fetching, rows |-> rows]
    BY <1>2 DEF Query
  <2>2. rows \in Seq(Rows)
    BY <2>1, RowsInAnyOrder DEF IInv
  <2>3. refresh' \in [pc : Pcs, rows : Seq(Rows)]
    BY <2>1, <2>2 DEF Fetching, Pcs, Booting
  <2> QED BY <1>2, <2>3 DEF Query, IInv, WellRouted, Inline
<1>3. CASE QueryFails
  BY <1>3 DEF QueryFails, IInv, WellRouted, Inline, Pcs, Booting
<1>4. CASE ReplaceUpstreams
  <2>1. LiveShape(live')
    BY <1>4 DEF ReplaceUpstreams, Merged, LiveShape, IInv
  <2> QED BY <1>4, <2>1 DEF ReplaceUpstreams, IInv, WellRouted, Inline, Pcs, Booting
<1>5. CASE DatabaseIsLost
  BY <1>5 DEF DatabaseIsLost, IInv, WellRouted, Inline
<1>6. ASSUME NEW c \in Conns, NEW req \in Requests, FirstResolve(c, req) PROVE IInv'
  BY <1>6, FirstResolveKeepsIInv
<1>7. ASSUME NEW c \in Conns, AuthenticateUser(c) PROVE IInv'
  BY <1>7, AuthenticateUserKeepsIInv
<1>8. ASSUME NEW c \in Conns, SecondResolve(c) PROVE IInv'
  BY <1>8, SecondResolveKeepsIInv
<1>9. CASE UNCHANGED vars
  BY <1>9 DEF vars, IInv, WellRouted, Inline
<1> QED BY <1>1, <1>2, <1>3, <1>4, <1>5, <1>6, <1>7, <1>8, <1>9 DEF Next

\* The live set is the configured upstreams followed by rows, and connections
\* routed by name respect it (src/protocols/proxy.rs:69-73).
THEOREM UpstreamsInvariant == Spec => []IInv
<1> QED BY InitIInv, NextIInv, PTL DEF Spec

\* A row of the database never takes the place of a configured upstream that
\* bears its label (src/protocols/proxy.rs:69-73, :143, :155).
THEOREM ConfiguredLabelsWin == Spec => []StaticLabelWins
<1>1. ASSUME IInv PROVE StaticLabelWins
  <2>1. ASSUME NEW c \in Routed, ByName(conn[c].sel) PROVE ConfiguredIfLabelledSo(conn[c].path)
    BY <1>1, <2>1, ResolvedByName DEF IInv, WellRouted, Reached, Routed
  <2> QED BY <2>1 DEF StaticLabelWins, ConfiguredIfLabelledSo, StaticLabels
<1> QED BY <1>1, UpstreamsInvariant, PTL

-------------------------------------------------------------------------------

\* With a session at most one of n is picked (src/routing.rs:194-206).
LEMMA PickOne ==
    ASSUME NEW n, NEW session, session # None,
           NEW i \in PickIndex(n, session), NEW j \in PickIndex(n, session)
    PROVE  i = j
<1>1. n # 0
  BY DEF PickIndex
<1> QED BY <1>1 DEF PickIndex

\* What is picked is one of the n.
LEMMA PickInRange ==
    ASSUME NEW n \in Nat, NEW session \in Sessions \cup {None}, NEW i \in PickIndex(n, session)
    PROVE  i \in 1 .. n
<1>1. CASE n = 0 \/ session = None
  BY <1>1 DEF PickIndex
<1>2. CASE n # 0 /\ session # None
  <2>1. Hash[session] \in Nat
    BY <1>2, RoutingAssumption
  <2>2. Hash[session] % n \in 0 .. (n - 1)
    BY <1>2, <2>1
  <2>3. i = (Hash[session] % n) + 1
    BY <1>2 DEF PickIndex
  <2> QED BY <2>2, <2>3
<1> QED BY <1>1, <1>2

\* The values of the user name built for u.
LEMMA UsernameFits ==
    ASSUME NEW u, NEW sel \in Selection, NEW e \in Usernames(u, sel),
           NEW d \in Dims, d \in u.templates, sel.want[d] # <<>>
    PROVE  d \in DOMAIN e /\ e[d] \in Range(sel.want[d])
<1> DEFINE picked == {x \in Dims : x \in u.templates /\ sel.want[x] # <<>>}
<1>1. d \in picked
  OBVIOUS
<1>2. PICK i \in PickIndex(Len(sel.want[d]), sel.session) : e[d] = sel.want[d][i]
  BY <1>1 DEF Usernames
<1>3. sel.want[d] \in Seq(Values) /\ sel.session \in Sessions \cup {None}
  BY DEF Selection
<1>4. Len(sel.want[d]) \in Nat /\ DOMAIN sel.want[d] = 1 .. Len(sel.want[d])
  BY <1>3
<1>5. i \in DOMAIN sel.want[d]
  BY <1>2, <1>3, <1>4, PickInRange
<1>6. d \in DOMAIN e
  BY <1>1 DEF Usernames
<1> QED BY <1>2, <1>5, <1>6 DEF Range

\* A session has one user name at an upstream (src/routing.rs:157-190).
LEMMA OneUsername ==
    ASSUME NEW u, NEW sel, sel.session # None,
           NEW e \in Usernames(u, sel), NEW f \in Usernames(u, sel)
    PROVE  e = f
<1> DEFINE picked == {d \in Dims : d \in u.templates /\ sel.want[d] # <<>>}
           pinned == IF "session" \in u.templates /\ sel.session # None
                     THEN {"session"} ELSE {}
<1>1. /\ e \in [picked \cup pinned -> Values \cup Sessions]
      /\ f \in [picked \cup pinned -> Values \cup Sessions]
  BY DEF Usernames
<1>2. ASSUME NEW d \in picked PROVE e[d] = f[d]
  <2>1. PICK i \in PickIndex(Len(sel.want[d]), sel.session) : e[d] = sel.want[d][i]
    BY <1>2 DEF Usernames
  <2>2. PICK j \in PickIndex(Len(sel.want[d]), sel.session) : f[d] = sel.want[d][j]
    BY <1>2 DEF Usernames
  <2>3. i = j
    BY <2>1, <2>2, PickOne
  <2> QED BY <2>1, <2>2, <2>3
<1>3. ASSUME NEW d \in pinned PROVE e[d] = f[d]
  BY <1>3 DEF Usernames
<1> HIDE DEF picked, pinned
<1> QED BY <1>1, <1>2, <1>3

\* Candidates of equal rank are one.
LEMMA RankTellsApart ==
    ASSUME NEW n \in Nat, NEW fit \in SUBSET (1 .. n), NEW i \in fit, NEW j \in fit,
           Rank(i, fit) = Rank(j, fit)
    PROVE  i = j
<1>1. ASSUME NEW k \in fit, NEW l \in fit, k < l, Rank(k, fit) = Rank(l, fit) PROVE FALSE
  <2> DEFINE below(m) == {x \in fit : x <= m}
  <2>1. IsFiniteSet(below(l))
    <3>1. IsFiniteSet(1 .. n)
      BY FS_Interval
    <3>2. below(l) \subseteq 1 .. n
      OBVIOUS
    <3> QED BY <3>1, <3>2, FS_Subset
  <2>2. below(k) \subseteq below(l) /\ l \in below(l) /\ l \notin below(k)
    <3>1. k \in Int /\ l \in Int
      OBVIOUS
    <3>2. ASSUME NEW x \in fit, x <= k PROVE x <= l
      <4>1. x \in Int
        OBVIOUS
      <4> QED BY <1>1, <3>1, <3>2, <4>1
    <3>3. l <= l /\ ~(l <= k)
      BY <1>1, <3>1
    <3> QED BY <3>2, <3>3
  <2>3. Cardinality(below(k)) = Cardinality(below(l))
    BY <1>1 DEF Rank
  <2> HIDE DEF below
  <2>4. below(k) = below(l)
    BY <2>1, <2>2, <2>3, FS_Subset
  <2> QED BY <2>2, <2>4
<1>2. i < j \/ j < i \/ i = j
  OBVIOUS
<1> QED BY <1>1, <1>2

\* A connection that selects tags leaves by one candidate.
LEMMA OneHopByTags ==
    ASSUME NEW ups, NEW sel, ~ByName(sel), NEW path \in Resolve(ups, sel)
    PROVE  \E i \in Candidates(ups, sel) : \E e :
              /\ e \in Usernames(ups[i], sel)
              /\ Rank(i, Candidates(ups, sel))
                    \in PickIndex(Cardinality(Candidates(ups, sel)), sel.session)
              /\ path = <<[via |-> ups[i], as |-> e]>>
<1>1. PICK hops \in ResolveChain(ups, sel) : path \in WithUsernames(hops, sel)
  BY DEF Resolve
<1>2. PICK i \in Candidates(ups, sel) :
          /\ Rank(i, Candidates(ups, sel))
                \in PickIndex(Cardinality(Candidates(ups, sel)), sel.session)
          /\ hops = <<ups[i]>>
  BY <1>1 DEF ResolveChain, ByName
<1>3. PICK names : /\ \A k \in DOMAIN hops : names[k] \in Usernames(hops[k], sel)
                   /\ path = [k \in DOMAIN hops |-> [via |-> hops[k], as |-> names[k]]]
  BY <1>1 DEF WithUsernames
<1>4. DOMAIN hops = {1} /\ hops[1] = ups[i]
  BY <1>2
<1>5. path = <<[via |-> ups[i], as |-> names[1]]>>
  BY <1>3, <1>4
<1>6. names[1] \in Usernames(ups[i], sel)
  BY <1>3, <1>4
<1> QED BY <1>2, <1>5, <1>6

\* A set that was live is a sequence of upstreams.
LEMMA LiveType ==
    ASSUME NEW ups, LiveShape(ups)
    PROVE  ups \in Seq(Upstream)
  BY UpstreamsAssumption DEF LiveShape

\* Whatever is refreshed, looked up and resolved in between, a connection whose
\* user name selects tags leaves by one upstream that has, or is asked for,
\* every one of them (src/routing.rs:77-91, :162-190).
THEOREM RoutingFailsClosed == Spec => []FailClosed
<1>1. ASSUME IInv, NEW c \in Routed, Named(c), ~ByName(conn[c].req.tokens)
      PROVE  /\ Len(conn[c].path) = 1
             /\ \A d \in Dims :
                   \/ DimOk(conn[c].req.tokens.want[d], conn[c].path[1].via.tags[d])
                   \/ /\ d \in DOMAIN conn[c].path[1].as
                      /\ conn[c].path[1].as[d] \in Range(conn[c].req.tokens.want[d])
  <2> DEFINE sel == conn[c].req.tokens
             ups == conn[c].seen
  <2>1. WellRouted(conn[c]) /\ conn[c].pc = "routed"
    BY <1>1 DEF IInv, Routed
  <2>2. sel \in Selection
    BY <2>1, UpstreamsAssumption DEF WellRouted, Reached
  <2>3. ~IsEmpty(sel)
    BY <1>1 DEF IsEmpty, ByName
  <2>4. conn[c].path \in Resolve(ups, sel)
    BY <1>1, <2>1, <2>3 DEF WellRouted, Reached, Named
  <2> HIDE DEF sel, ups
  <2>p. ~ByName(sel)
    BY <1>1 DEF sel
  <2>s. PICK i \in Candidates(ups, sel) :
            \E e : e \in Usernames(ups[i], sel) /\ conn[c].path = <<[via |-> ups[i], as |-> e]>>
    BY <2>4, <2>p, OneHopByTags
  <2>5. PICK e : e \in Usernames(ups[i], sel) /\ conn[c].path = <<[via |-> ups[i], as |-> e]>>
    BY <2>s
  <2>6. Len(conn[c].path) = 1 /\ conn[c].path[1].via = ups[i] /\ conn[c].path[1].as = e
    BY <2>5
  <2>7. ASSUME NEW d \in Dims
        PROVE  \/ DimOk(sel.want[d], ups[i].tags[d])
               \/ d \in DOMAIN e /\ e[d] \in Range(sel.want[d])
    <3>1. d \in ups[i].templates \/ DimOk(sel.want[d], ups[i].tags[d])
      BY DEF Candidates, MatchesUpstream
    <3>2. CASE sel.want[d] = <<>>
      BY <3>2 DEF DimOk
    <3>3. CASE sel.want[d] # <<>> /\ d \in ups[i].templates
      BY <2>2, <2>5, <3>3, UsernameFits
    <3> QED BY <3>1, <3>2, <3>3
  <2> QED BY <2>6, <2>7 DEF sel
<1>2. IInv => FailClosed
  BY <1>1 DEF FailClosed
<1> QED BY <1>2, UpstreamsInvariant, PTL

\* Of the set a connection saw, its session and tags leave one path
\* (src/routing.rs:194-206).
THEOREM SessionsArePinned == Spec => []PinnedOnOneSet
<1>1. ASSUME IInv, NEW c \in Routed, ~ByName(conn[c].sel), conn[c].sel.session # None,
             NEW path \in Resolve(conn[c].seen, conn[c].sel)
      PROVE  path = conn[c].path
  <2> DEFINE sel == conn[c].sel
             ups == conn[c].seen
             fit == Candidates(ups, sel)
             taken == conn[c].path
  <2>1. LiveShape(ups) /\ taken \in Resolve(ups, sel) /\ ~ByName(sel)
    BY <1>1 DEF IInv, Routed, WellRouted, Reached
  <2> HIDE DEF sel, ups, fit, taken
  <2> DEFINE Leaves(by, i, e) == /\ e \in Usernames(ups[i], sel)
                                 /\ Rank(i, fit) \in PickIndex(Cardinality(fit), sel.session)
                                 /\ by = <<[via |-> ups[i], as |-> e]>>
  <2>p. PICK i \in fit : \E e : Leaves(path, i, e)
    BY <1>1, OneHopByTags DEF sel, ups, fit
  <2>2. PICK e : Leaves(path, i, e)
    BY <2>p
  <2>t. PICK j \in fit : \E f : Leaves(taken, j, f)
    BY <2>1, OneHopByTags DEF fit
  <2>3. PICK f : Leaves(taken, j, f)
    BY <2>t
  <2>4. sel.session # None
    BY <1>1 DEF sel
  <2>5. Rank(i, fit) = Rank(j, fit)
    BY <2>2, <2>3, <2>4, PickOne
  <2>6. i = j
    <3>1. Len(ups) \in Nat /\ fit \in SUBSET (1 .. Len(ups))
      BY <2>1, LiveType DEF fit, Candidates
    <3> QED BY <2>2, <2>3, <2>5, <3>1, RankTellsApart
  <2>7. e = f
    BY <2>2, <2>3, <2>4, <2>6, OneUsername
  <2> QED BY <2>2, <2>3, <2>6, <2>7 DEF taken
<1>2. IInv => PinnedOnOneSet
  BY <1>1 DEF PinnedOnOneSet
<1> QED BY <1>2, UpstreamsInvariant, PTL

\* An inline account found by address is the one whose default routes, for any
\* accounts with any networks (src/auth.rs:365-372).
THEOREM InlineAccountDecides == Spec => []OneAccountDecides
<1>1. ASSUME IInv, NEW c \in Routed, Inline, auth,
             conn[c].req.login = None, IsEmpty(conn[c].req.tokens)
      PROVE  conn[c].sel = Listed[conn[c].account].default
  <2> DEFINE peer == conn[c].req.peer
  <2>1. /\ conn[c].sel \in InlineDefaults(peer)
        /\ conn[c].account \in InlineByIp(peer) \ {Nobody}
    BY <1>1 DEF IInv, Routed, WellRouted, Reached
  <2> HIDE DEF peer
  <2>2. PICK id \in InlineByIp(peer) :
            conn[c].sel = IF id = Nobody THEN Unconstrained ELSE Listed[id].default
    BY <2>1 DEF InlineDefaults
  <2>3. id = conn[c].account
    BY <2>1, <2>2 DEF InlineByIp, Earliest
  <2> QED BY <2>1, <2>2, <2>3
<1>2. IInv => OneAccountDecides
  BY <1>1 DEF OneAccountDecides
<1> QED BY <1>2, UpstreamsInvariant, PTL

-------------------------------------------------------------------------------

\* A set of natural numbers that is not empty has a least element.
LEMMA LeastExists ==
    ASSUME NEW S \in SUBSET Nat, S # {}
    PROVE  \E m \in S : \A k \in S : m <= k
<1> DEFINE R == OpToRel(<, Nat)
<1>1. IsWellFoundedOn(R, Nat)
  BY NatLessThanWellFounded
<1>2. \A x, y \in Nat : <<x, y>> \in R <=> x < y
  BY DEF OpToRel
<1> HIDE DEF R
<1>3. PICK m \in S : \A y \in S : ~ (<<y, m>> \in R)
  BY <1>1, WFMin
<1>4. ASSUME NEW k \in S PROVE m <= k
  <2>1. m \in Nat /\ k \in Nat /\ ~(<<k, m>> \in R)
    BY <1>3
  <2>2. ~(k < m)
    BY <1>2, <2>1
  <2> QED BY <2>1, <2>2
<1> QED BY <1>4

\* Looking an account up yields one that is listed, or nobody.
LEMMA AuthenticateType ==
    /\ \A inline, login : Authenticate(inline, database, login) \subseteq Ids \cup {Nobody}
    /\ \A inline, peer : AuthenticateByIp(inline, database, peer) \subseteq Ids \cup {Nobody}
<1>1. Ids \subseteq Nat
  BY AccountLookupAssumption DEF Ids
<1>2. ASSUME NEW ids \in SUBSET Ids PROVE Earliest(ids) \subseteq Ids \cup {Nobody}
  <2>1. CASE ids # {}
    <3>1. \E m \in ids : \A k \in ids : m <= k
      BY <1>1, <2>1, LeastExists
    <3>2. Min(ids) \in ids
      BY <3>1 DEF Min
    <3> QED BY <2>1, <3>2 DEF Earliest
  <2> QED BY <2>1 DEF Earliest
<1>3. \A login : WithLogin(login) \in SUBSET Ids
  BY DEF WithLogin
<1>4. \A peer : WithPeer(peer) \in SUBSET Ids
  BY DEF WithPeer
<1>5. \A login : InlineByLogin(login) \subseteq Ids \cup {Nobody}
  BY <1>2, <1>3 DEF InlineByLogin
<1>6. \A peer : InlineByIp(peer) \subseteq Ids \cup {Nobody}
  BY <1>2, <1>4 DEF InlineByIp
<1>7. \A login : RowByLogin(login) \subseteq Ids \cup {Nobody}
  BY <1>3 DEF RowByLogin
<1>8. \A peer : RowByIp(peer) \subseteq Ids \cup {Nobody}
  BY <1>4 DEF RowByIp
<1> QED BY <1>5, <1>6, <1>7, <1>8 DEF Authenticate, AuthenticateByIp, AuthenticateBy

\* What a connection is resolved by is a selection.
LEMMA SelectionsType ==
    ASSUME NEW req \in Requests, NEW named
    PROVE  Selections(req, named) \subseteq Selection
<1>1. req.tokens \in Selection
  BY UpstreamsAssumption
<1>2. Unconstrained \in Selection
  BY DEF Unconstrained, Selection
<1>3. \A id \in Ids : Listed[id].default \in Selection
  <2>1. \A id \in Ids : Listed[id] \in Account
    BY AccountLookupAssumption DEF Ids
  <2> QED BY <2>1 DEF Account
<1>4. DefaultsByIp(req) \subseteq Selection
  BY <1>2, <1>3, AuthenticateType DEF DefaultsByIp
<1> QED BY <1>1, <1>4 DEF Selections

\* Rows in any order are one of the sequences TypeOK allows.
LEMMA RowsInAnyOrderType ==
    ASSUME NEW S, S \subseteq Rows, NEW rows \in Bijection(1 .. Cardinality(S), S)
    PROVE  rows \in RowSeqs
<1>1. Cardinality(S) \in Nat /\ Cardinality(Rows) \in Nat /\ Cardinality(S) <= Cardinality(Rows)
  BY UpstreamsAssumption, FS_Subset, FS_CardinalityType
<1>2. rows \in [1 .. Cardinality(S) -> Rows] /\ IsInjective(rows)
  BY DEF Bijection, Injection
<1>3. Cardinality(S) \in 0 .. Cardinality(Rows)
  BY <1>1
<1> QED BY <1>2, <1>3 DEF RowSeqs

LEMMA NoRowsType == <<>> \in RowSeqs /\ Static \in LiveSeqs
<1>1. Cardinality(Rows) \in Nat
  BY UpstreamsAssumption, FS_CardinalityType
<1>2. <<>> \in [1 .. 0 -> Rows] /\ IsInjective(<<>>)
  BY DEF IsInjective
<1>3. 0 \in 0 .. Cardinality(Rows)
  BY <1>1
<1>4. <<>> \in RowSeqs
  BY <1>2, <1>3 DEF RowSeqs
<1>5. Static \o <<>> = Static
  BY UpstreamsAssumption
<1> QED BY <1>4, <1>5 DEF LiveSeqs

\* The first upstream with a label is one of the upstreams.
LEMMA ByLabelIn ==
    ASSUME NEW ups, NEW l, NEW u \in ByLabel(ups, l)
    PROVE  u \in Range(ups)
  BY DEF ByLabel, Range

\* A path leads through upstreams of the set it was resolved against.
LEMMA PathInSet ==
    ASSUME NEW ups, LiveShape(ups), NEW sel, NEW path \in Resolve(ups, sel),
           NEW i \in DOMAIN path
    PROVE  path[i].via \in Range(ups)
<1>1. CASE ByName(sel)
  <2>1. PICK hops \in ResolveChain(ups, sel) : path \in WithUsernames(hops, sel)
    BY DEF Resolve
  <2>2. DOMAIN path = DOMAIN hops /\ \A k \in DOMAIN hops : path[k].via = hops[k]
    BY <2>1 DEF WithUsernames
  <2>3. PICK l : hops[i] \in ByLabel(ups, l)
    BY <1>1, <2>1, <2>2, HopsByName
  <2> QED BY <2>2, <2>3, ByLabelIn
<1>2. CASE ~ByName(sel)
  <2>1. PICK k \in Candidates(ups, sel) : \E e : path = <<[via |-> ups[k], as |-> e]>>
    BY <1>2, OneHopByTags
  <2>2. k \in DOMAIN ups
    BY DEF Candidates
  <2>3. path[i].via = ups[k]
    BY <2>1
  <2> QED BY <2>2, <2>3 DEF Range
<1> QED BY <1>1, <1>2

\* What TypeOK says of one connection.
Typed(r) ==
    r # Unrouted =>
        /\ r.pc \in {"gated", "known", "resolved", "routed", "refused"}
        /\ r.req \in Requests
        /\ r.account \in Ids \cup {Nobody}
        /\ r.sel \in Selection
        /\ r.seen \in LiveSeqs
        /\ \A i \in DOMAIN r.path : r.path[i].via \in Range(r.seen)

LEMMA OneTypedChange ==
    ASSUME IInv, TypeOK, NEW c \in Conns, NEW r, conn' = [conn EXCEPT ![c] = r], Typed(r),
           UNCHANGED <<auth, table, database, refresh, live>>
    PROVE  TypeOK'
<1>1. conn'[c] = r /\ \A d \in Conns \ {c} : conn'[d] = conn[d]
  BY DEF IInv
<1>2. \A d \in Conns : Typed(conn[d])
  BY DEF TypeOK, Typed
<1>3. \A d \in Conns : Typed(conn'[d])
  BY <1>1, <1>2
<1> QED BY <1>3 DEF TypeOK, Typed

LEMMA ResolvedKeepsTypeOK ==
    ASSUME IInv, TypeOK, NEW c \in Conns, NEW req \in Requests,
           NEW account \in Ids \cup {Nobody}, NEW sel \in Selection,
           NEW success \in {"gated", "resolved", "routed"},
           Resolved(c, req, account, sel, success)
    PROVE  TypeOK'
<1> DEFINE result(pc, path) == [pc |-> pc, req |-> req, account |-> account,
                                sel |-> sel, seen |-> live, path |-> path]
<1>1. UNCHANGED <<auth, table, database, refresh, live>>
  BY DEF Resolved
<1>2. live \in LiveSeqs /\ LiveShape(live)
  BY DEF TypeOK, IInv
<1>3. CASE conn' = [conn EXCEPT ![c] = result("refused", <<>>)]
  <2>1. Typed(result("refused", <<>>))
    BY <1>2 DEF Typed
  <2> HIDE DEF result
  <2> QED BY <1>1, <1>3, <2>1, OneTypedChange
<1>4. ASSUME NEW path \in Resolve(live, sel), conn' = [conn EXCEPT ![c] = result(success, path)]
      PROVE  TypeOK'
  <2>1. \A i \in DOMAIN path : path[i].via \in Range(live)
    BY <1>2, PathInSet
  <2>2. Typed(result(success, path))
    BY <1>2, <2>1 DEF Typed
  <2> HIDE DEF result
  <2> QED BY <1>1, <1>4, <2>2, OneTypedChange
<1> QED BY <1>3, <1>4 DEF Resolved

\* Every variable keeps its type.
THEOREM UpstreamsTypeOK == Spec => []TypeOK
<1>1. Init => TypeOK
  BY NoRowsType DEF Init, TypeOK, Booting
<1>2. ASSUME IInv, TypeOK, [Next]_vars PROVE TypeOK'
  <2>1. ASSUME NEW r \in Rows, TableChanges(r) PROVE TypeOK'
    BY <1>2, <2>1 DEF TableChanges, TypeOK
  <2>2. CASE Query
    <3>1. PICK rows \in Bijection(1 .. Cardinality(table), table) :
              refresh' = [pc |-> Fetching, rows |-> rows]
      BY <2>2 DEF Query
    <3>2. rows \in RowSeqs
      BY <1>2, <3>1, RowsInAnyOrderType DEF TypeOK
    <3>3. refresh'.pc \in {"loading", "fetched"} /\ refresh'.rows \in RowSeqs
      BY <3>1, <3>2 DEF Fetching
    <3> QED BY <1>2, <2>2, <3>3 DEF Query, TypeOK, Booting
  <2>3. CASE QueryFails
    <3>1. refresh'.pc = "idle" /\ refresh'.rows = refresh.rows
      BY <1>2, <2>3 DEF QueryFails, IInv
    <3> QED BY <1>2, <2>3, <3>1 DEF QueryFails, TypeOK
  <2>4. CASE ReplaceUpstreams
    <3>1. refresh'.pc = "idle" /\ refresh'.rows = refresh.rows
      BY <1>2, <2>4 DEF ReplaceUpstreams, IInv
    <3>2. live' \in LiveSeqs
      BY <1>2, <2>4 DEF ReplaceUpstreams, Merged, LiveSeqs, TypeOK
    <3> QED BY <1>2, <2>4, <3>1, <3>2 DEF ReplaceUpstreams, TypeOK
  <2>5. CASE DatabaseIsLost
    BY <1>2, <2>5 DEF DatabaseIsLost, TypeOK
  <2>6. ASSUME NEW c \in Conns, NEW req \in Requests, FirstResolve(c, req) PROVE TypeOK'
    <3> DEFINE success == IF req.proto = "socks5" THEN "gated" ELSE "resolved"
    <3>1. PICK sel \in Selections(req, req.proto = "other") : Resolved(c, req, Nobody, sel, success)
      BY <2>6 DEF FirstResolve
    <3>2. sel \in Selection /\ success \in {"gated", "resolved", "routed"}
      BY <3>1, SelectionsType
    <3> HIDE DEF success
    <3> QED BY <1>2, <3>1, <3>2, ResolvedKeepsTypeOK
  <2>7. ASSUME NEW c \in Conns, AuthenticateUser(c) PROVE TypeOK'
    <3>1. PICK account, pc, r :
              /\ conn' = [conn EXCEPT ![c] = r]
              /\ account \in IF auth THEN AuthenticatesAs(conn[c].req) ELSE {Nobody}
              /\ pc = IF auth /\ account = Nobody THEN "refused"
                      ELSE IF conn[c].pc = "gated" THEN "known" ELSE "routed"
              /\ r = Shape(r) /\ r.pc = pc /\ r.req = conn[c].req /\ r.account = account
              /\ r.sel = conn[c].sel /\ r.seen = conn[c].seen /\ r.path = conn[c].path
      BY <1>2, <2>7, AccountFound
    <3>2. Typed(conn[c]) /\ conn[c] # Unrouted
      BY <1>2, <2>7 DEF AuthenticateUser, TypeOK, Typed, Unrouted
    <3>3. account \in Ids \cup {Nobody} /\ pc \in {"refused", "known", "routed"}
      BY <3>1, AuthenticateType DEF AuthenticatesAs
    <3>4. Typed(r)
      BY <3>1, <3>2, <3>3 DEF Typed
    <3> QED BY <1>2, <2>7, <3>1, <3>4, OneTypedChange DEF AuthenticateUser
  <2>8. ASSUME NEW c \in Conns, SecondResolve(c) PROVE TypeOK'
    <3>1. PICK sel \in Selections(conn[c].req, auth) :
              Resolved(c, conn[c].req, conn[c].account, sel, "routed")
      BY <2>8 DEF SecondResolve
    <3>2. conn[c].req \in Requests /\ conn[c].account \in Ids \cup {Nobody}
      BY <1>2, <2>8 DEF SecondResolve, TypeOK, Unrouted
    <3>3. sel \in Selection
      BY <3>1, <3>2, SelectionsType
    <3> QED BY <1>2, <3>1, <3>2, <3>3, ResolvedKeepsTypeOK
  <2>9. CASE UNCHANGED vars
    BY <1>2, <2>9 DEF vars, TypeOK
  <2> QED BY <1>2, <2>1, <2>2, <2>3, <2>4, <2>5, <2>6, <2>7, <2>8, <2>9 DEF Next
<1> QED BY <1>1, <1>2, UpstreamsInvariant, PTL DEF Spec
===============================================================================
