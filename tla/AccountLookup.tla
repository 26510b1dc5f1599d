----------------------------- MODULE AccountLookup -----------------------------
(***************************************************************************)
(* How the two back ends of src/auth.rs find the account of a connection,  *)
(* by its credentials and by its address.                                  *)
(*                                                                         *)
(* A lookup is the SET of answers it may give: the id of an account, or    *)
(* Nobody.  Nobody stands for "no such user" and for a failure, which      *)
(* every caller treats alike (src/protocols/proxy.rs:282-285, :805).       *)
(*                                                                         *)
(* Inline accounts are searched in the order of the [[user]] blocks.  Rows *)
(* come in no order, user names are not unique in the schema, and networks *)
(* may overlap.                                                            *)
(***************************************************************************)
EXTENDS Routing

CONSTANTS
    Logins,       \* pairs of a base user name and a password
    Peers,        \* source addresses
    Listed        \* the accounts: the [[user]] blocks, or the rows of accounts

\* An account: a password, the addresses it may connect from without one, and
\* the selection its default_selection parses to, Unconstrained without one.
Account == [login : Logins, nets : SUBSET Peers, default : Selection]

ASSUME AccountLookupAssumption ==
    /\ Listed \in Seq(Account)
    /\ None \notin Logins

Nobody == 0

\* Ids of accounts; those of inline ones are their positions.
Ids == DOMAIN Listed

WithLogin(login) == {id \in Ids : Listed[id].login = login}
WithPeer(peer)   == {id \in Ids : peer \in Listed[id].nets}

\* Mutation of Earliest: any of them.
AnyOf(ids) == IF ids = {} THEN {Nobody} ELSE ids

\* The linear search ends at the first user that fits.
Earliest(ids) == IF ids = {} THEN {Nobody} ELSE {Min(ids)}

InlineByLogin(login) == Earliest(WithLogin(login))

InlineByIp(peer) == Earliest(WithPeer(peer))

\* query_opt: more than one row is an error, like a query that fails.
RowByLogin(login) ==
    {Nobody} \cup IF Cardinality(WithLogin(login)) = 1 THEN WithLogin(login) ELSE {}

\* LIMIT 1, without an order.
RowByIp(peer) == {Nobody} \cup WithPeer(peer)

\* Rows cannot be looked up once the connection to the database is lost.
AuthenticateBy(inline, database, answer, rows) ==
    IF inline THEN answer ELSE IF database = "up" THEN rows ELSE {Nobody}

Authenticate(inline, database, login) ==
    AuthenticateBy(inline, database, InlineByLogin(login), RowByLogin(login))

AuthenticateByIp(inline, database, peer) ==
    AuthenticateBy(inline, database, InlineByIp(peer), RowByIp(peer))
===============================================================================
