# purroute in TLA+

This directory holds a TLA+ development of purroute, the auto-detecting proxy
router whose Rust source is in `src/src/`.  TLC checks the models on small
instances; TLAPS proves the central theorems for every value of the constants.

## 1. Inventory

All paths are relative to `src/`; `proxy.rs`, `chain.rs`, `http.rs`, `https.rs`
and `socks4.rs` are in `src/protocols/`.

| component | state | operations | interacts with |
|---|---|---|---|
| accounts, inline (`auth.rs`, `StaticAuthBackend`) | one `AtomicI64` per limited user | `authenticate`, `authenticate_by_ip`, `report_usage` (a compare-exchange loop) | called by every connection task, from several threads |
| accounts, PostgreSQL (`auth.rs`, `PostgresAuthBackend`) | rows of `accounts`, `user_stats`, `account_ips` | the same, each one SQL statement behind an `.await` | the database, which outlives the router and has other writers |
| relay (`proxy.rs`, `proxy_data`) | two pumps per connection, each with at most one chunk in hand | read, meter, write, end; `select!` drops the other pump | accounts, statistics |
| connection life cycle (`proxy.rs`, `run`, `handle_connection`) | one outer and one inner task per connection | accept, first read with a 30 s timeout, detect, select, resolve, dispatch, join | all of the others |
| upstream set (`proxy.rs` `replace_upstreams`, `upstreams.rs`, `main.rs`) | an `ArcSwap` of the configured and the database upstreams | initial load, periodic refresh, snapshot | the refresh task writes, every connection reads |
| routing (`routing.rs`, `resolve_*` in `proxy.rs`) | none | parse a username, match tags, pick (sticky or random), resolve a chain, build a username | upstream set, accounts (default selection) |
| inbound SOCKS5 (`proxy.rs`, `handle_socks5`) | the position in the byte stream | greeting, user/password sub-negotiation, request | accounts, routing, chain connector |
| inbound SOCKS4 / HTTP / CONNECT, single hop (`socks4.rs`, `http.rs`, `https.rs`) | the position in the byte stream | parse, translate to the upstream's protocol, reply | relay |
| inbound SOCKS4 / HTTP / CONNECT, multi hop (`proxy.rs`, `handle_*_chain`) | - | authenticate, parse the target, connect the chain, reply | chain connector, relay |
| chain connector (`chain.rs`) | the tunnel so far | per-hop SOCKS5, SOCKS4a or CONNECT handshake | upstream proxies |
| statistics (`stats/global.rs`) | eight atomics, one mutex, a broadcast channel | count, snapshot, load from the database | every task |
| display and flush (`stats/display.rs`) | last snapshots, tick counter, ten log lines | tick: drain logs, snapshot, redraw, write totals to the database | statistics, database |
| configuration (`config.rs`), start-up (`main.rs`) | - | parse TOML, wire the parts | - |
| metrics endpoint (`main.rs` `serve_metrics`) | - | render on any request | external registry |

### What each part is correct by, and what makes it hard

**Accounts.**  A debit takes effect once, entirely, and the balance it returns
is the one it left; a balance never drops below zero by a debit, an unlimited
account never becomes a limited one, and whatever was granted on a positive
balance fits in the allowance.  Hard: the inline back end is a
`compare_exchange_weak` loop with relaxed loads entered from many threads; a
PostgreSQL statement may commit after its caller is gone, or commit and lose its
answer.  An account is looked up twice for a connection, once for its default
selection and once to charge it, by keys that are not unique.

**Relay.**  A chunk is charged before it is written on, the relay ends on the
chunk that exhausts the allowance, and a pump never loses more than the chunk
in its hand.  Hard: several connections of one account report between each
other's report and write; `select!` drops the sibling pump at whatever await it
has reached, be it the report (with PostgreSQL; the in-memory report does not
await) or the write of a chunk that has been charged; and a write may fail.

**Connection life cycle.**  Every accepted connection is settled once in the
gauge and in the tallies; a silent client does not keep its task.  Hard: the
outer and the inner task both count, and so do the relay and its pumps.

**Upstream set and routing.**  A connection that selects tags leaves only by an
upstream that serves all of them (fail closed), a configured label is never
taken over by a database row, a session keeps its exit, and the set follows the
table.  Hard: the set is replaced between the query and the next snapshot,
between the two resolutions of a SOCKS5 connection and between two connections
of one session; the rows of a query come in no order.

**User names.**  A name composed of a base and tokens selects what it was
composed of, and the base is authenticated as it would be alone.  Hard: keys
may be values, values may be missing, keys repeat, the chain takes the rest.

**Statistics and flush.**  No restart, failed load or late write counts an
event twice, the stored totals do not shrink, and what was counted is stored in
the end.  Hard: a failed write is taken for written, a process dies with its
UPDATE under way, counters are read one by one, the connection to the database is
opened once and not again.

**Chain connector.**  A stream is handed out only when it goes through every
hop, in order, to the target, and its reader gets what the target says from the
first byte.  Hard: a TCP stream has no message boundaries, and one read is taken
for the whole reply to an HTTP CONNECT; replies vary in length; a target may
speak first; the length of a host is cast to `u8`; only one of the reads has a
timeout.

**Inbound handshakes and single-hop translation.**  A client that is served is
served as the one it is, to the target it means, on an account that may be
charged for it, and the bytes of both directions come through in order and
whole; and the router does not wait for somebody who waits for it.  Hard: one
read is taken for whole messages here too, wherever the segments end; clients
send ahead; SOCKS5 is resolved and can be refused before its user name is known;
three handlers parse what one read returned and repeat the conversation of the
chain connector for three kinds of upstream, each with differences of its own.

The list of hazards with their lines is in `PROJECT.json`.

## 2. Modules

```
Metering -> Allowances --+--> AccountLedger  what an account promises
                         |       ^      ^
                         +-> StaticAuth |    the in-memory loop implements it
                         +-----------> Relay connections over either back end implement it

Routing -> AccountLookup -> Upstreams        table, refresh task, accounts, connections
Usernames                                    the parsing loop
Lifecycle                                    phases and counters of connections
Hops ---+--> Chain -> Tunnel                 connect_chain implements "through every hop to the target"
        +--> Inbound -> SingleHop            the client's stream, the handlers, one upstream
StatsFlush                                   totals across restarts
```

How the pieces fit: `Inbound` and `SingleHop` are the inside of the phases of
`Lifecycle` up to the relay, and `Relay` is the inside of its `relaying`.
`Inbound` takes `connect_chain` for one step, with the promise `Chain` is proved
to keep.  `Relay` takes a debit for one step, which `StaticAuth` shows it to be.
`Upstreams` decides which path and which account a connection gets; the others
take both for given.

| module | models | state, and what it is in the code |
|---|---|---|
| `Metering` | the arithmetic of `report_usage` | operators only: price of a chunk, floored debit, the exhaustion test |
| `Allowances` | the configured users, or the rows of accounts | constants only |
| `AccountLedger` | an account, whoever stores it (abstract) | `remaining`; history variables `spent`, `granted` |
| `StaticAuth` | `StaticAuthBackend` | `history`: modification order of each `AtomicI64`; `seen`: what each task has observed of it; `task`: the local variables of `report_usage` |
| `Relay` | `check_bandwidth` and `proxy_data` for any number of connections | `status`; `pump`: where each async block is, its chunk and the balance returned; `backend`: which of the two was built; `counted`: byte counters; the ledger; `paid`, `passed` and `written` (history): what was debited for each pump, the part handed to `write_all`, and the part whose write has ended |
| `Lifecycle` | `run`, `handle_connection`, the handlers as phases | `phase`, `proto`; `stats`: the four connection counters; `running`: the accept loop |
| `Routing` | `routing.rs` without parsing, the `resolve_*` methods | operators: a resolution is the set of paths the code may return |
| `AccountLookup` | `authenticate` and `authenticate_by_ip` of both back ends | operators: a lookup is the set of accounts it may find |
| `Upstreams` | `load_dynamic_upstreams`, the refresh task, `replace_upstreams`, `selection_for`, the calls of `resolve_proxy_chain`, the lookups of `authenticate_user` | `auth`, `database` ("none" without a `[database]` section), `table` (external); `refresh`: the task and the rows in its hand; `live`: the `ArcSwap`; `conn`: the last resolution of each connection and the account it is charged to |
| `Tunnel` | what `connect_chain` promises (abstract) | `at`: how far the stream reaches; `outcome` |
| `Hops` | the SOCKS5, SOCKS4 and CONNECT conversations with an upstream, as `chain.rs` holds them and the three handlers repeat them; the upstream and the target (external) | `wait`: the read the router is in; `request`: what the hop has been asked; `wire`: what has been sent to the router and not read; `at`, `closed`, `said`: the other side |
| `Chain` | `connect_chain` | `chain`, `target`: its arguments; `hop`: the loop; and those of `Hops` |
| `Inbound` | the first read, detection, routing, `authenticate_user`, `handle_socks5` and the `handle_*_chain` methods; clients (external) | `client`, `path`: who connects, and over what; `sent`, `gone`, `inbox`: the client and its stream; `taken`: `initial_request`; `told`: what has been written to the client; `user`, `selected`, `asked`: whom it is charged to, by what it is routed, where it is taken to go; `passed`: what has been written to the upstream for the target |
| `SingleHop` | `Socks4::handle`, `Http::handle`, `Https::handle`: three protocols over three kinds of upstream | those of `Inbound` |
| `Usernames` | `parse_username` | `parts`, `i`, `base`, `sel`: its locals |
| `StatsFlush` | `GlobalStats` and the loop of `StatsDisplay::run` | `process`, `mem` (two of the totals), `loop`, `db` (the row of `global`), `connected`: the one connection to it, `orphan` (a write whose process died or lost its connection) |

Actions correspond to the code between two points at which another task can
run.  In `StaticAuth` these are the atomic operations; in `Relay`, `Lifecycle`
and `Upstreams` the awaits; in `StatsFlush` the awaits, and the reads of the
counters within `get_stats`.  Where the code does not await (in-memory reports)
`Relay` forbids the sibling pump to move (`TaskIsFree`).

Each `MC` module gives its specification the instance of one or more runs;
`StatsFlush` has no need of one.  The `...Proofs` modules hold the theorems
(section 4).  Operators whose comment begins with
"Mutation of" are deliberate bugs, which the properties are tested against; no
specification uses them.

### Abstractions

* Prices are fractions (the code multiplies in `f64`, exactly enough for chunks
  of 8 KiB); balances are integers without the 64-bit width, debits saturate
  at `MaxDebit`.
* A relaxed atomic is its modification order; a load returns any value that is
  not older than the last one its task observed.
* A byte stream is, in `Relay`, chunks of a size; in `Lifecycle`, phases; in
  `Hops` and the modules on it, units: a byte the code compares, or a run of bytes
  it skips or searches.  A `read_exact` is one step, since nobody else reads the
  stream; a plain `read` returns any part that has arrived, which is how messages
  and replies are cut.  In `Inbound` a host name with its port is two units, so
  that a read may end inside it; methods, paths, user ids, user names and
  passwords are one, and arrive whole.  Of the SOCKS4 addresses 0.0.0.1, another
  0.0.0.x and all others are told apart; 0.0.0.0, which the parsers treat in two
  further ways, is left out.
* Tag values are compared up to case (as `dim_ok` does); a built user name is
  the record of the values appended to the base, whose wording and order are
  configuration.
* Rows of the database have no templates (`upstreams.rs:77`) and are distinct.
* `pick_index` without a session and chains of mode `random` are a
  nondeterministic choice; with a session the position is `Hash[session] % n`
  for an arbitrary `Hash`.
* The lossy decoding of a request to UTF-8 and the splitting of what follows its
  first line into lines (`http.rs:31`, `:61-65`) are taken as the identity: what
  was read is text with its line ends in place.
* Passwords are compared as values and networks are sets of addresses.  Balances
  are in `Relay` and `StaticAuth` only: nobody is refused for one in `Upstreams`.
* A failed query, a refused lookup and an account that is not there are one answer
  (`Nobody`), as the callers make no difference.

## 3. Runs

| run | instance | shows |
|---|---|---|
| `static_auth` | three tasks, two calls each, allowance 4, chunks of price 3, an unlimited user and an unknown id | the loop implements the ledger, ends for each caller, and a login is never refused on a stale balance while funds remain |
| `relay` | either back end; two connections of one account with limit 3 at different costs, one without an account; chunks of 1 and 2, 2 bytes per direction | no over-delivery, exact balances, one chunk at risk, from its debit to the end of its write, withheld in memory by nothing but the cut-off or else cut short in its write, the ledger, a relay on a spent account ends; with queries that fail or outlive their relay |
| `lifecycle` | three connections, all protocols, authentication on | the exact drift of the gauge, exact tallies, the first read is bounded, failures are settled |
| `upstreams` | with and without a database, with and without authentication; two configured upstreams, two rows (one with a taken label, so every table of up to two rows and both orders), three chains; three accounts, of which two share a login and two share each address; twelve requests, one connection | fail closed, configured labels win, a session has one path through one set, an inline account routes whom it is charged for, the set follows the table |
| `usernames` | all user names of up to five parts over three keys (one of them `chain`), two words and the empty part | parsing inverts composition |
| `chain` | every chain of up to three hops out of SOCKS5 with and without credentials, SOCKS4a, HTTP, and HTTP with an address that does not parse; a target name of 255 bytes and up to two units from the target | a stream handed out goes through every hop to the target (`TunnelSpec`) and is whole after a last SOCKS hop; a request that is not answered and a hop that goes away end the attempt |
| `inbound` | SOCKS5, SOCKS4, plain HTTP and CONNECT clients, polite, eager (payload on the heels of the handshake) and hasty (everything at once), with good, refused, unparsable and no credentials, from authorised and other addresses; the last three over a chain and over single upstreams of each kind, with and without credentials of the router's own | served as who they are and to where they mean, nobody for free, both streams whole, and no wait without somebody who owes an answer |
| `stats_flush` | two totals of up to 2, a flush every 2 ticks, any number of crashes and losses of the connection | no event counted twice, the row shrinks only after a failed or early load, totals are stored in the end while the connection lasts |

Four runs end in a counterexample that shows the code and a text of the
repository to disagree:

| run | text | what the code does |
|---|---|---|
| `lifecycle_gauge` | "Always decrement active connections when connection ends" / "Ensure we decrement on error" (`proxy.rs:1031`, `:552`) | both happen for a relay that ends in an error: after `RelayIsCut` and `Settle` no connection is open and the gauge is -1, for ever. `GaugeDrift` states by how much it is off, and holds |
| `sticky_refresh` | "`session-<id>` pins one exit out of the matching set for as long as the id is reused" (`wiki/Routing-tokens.md:37`) | the session is hashed to a position in a list whose order is the one the last query happened to return |
| `default_selection` | a default selection is applied "when the username has no tokens - and for IP-authenticated connections" (`wiki/Routing-tokens.md:56`) | it is looked up by source address only |
| `socks4a` | "0.0.0.x (x != 0) signals a domain name follows the user id" (`proxy.rs:1202`) | the single-hop handler takes only 0.0.0.1 and 0.0.0.0 for the mark (`socks4.rs:72`); a request marked by 0.0.0.2 is translated into a CONNECT to 0.0.0.2 |

More was met while modelling, and is in the models without a run of its own:

* An unknown key after the first token is an error (`UnknownKey` in `Usernames`),
  where `wiki/Routing-tokens.md:22` says that parsing stops there.
* After a last hop that speaks HTTP the stream may begin with the tail of the
  hop's reply, or lack the first bytes of the target, when the two arrive cut or
  glued (`ReadStatus` in `Hops`); `WholeAfterSocks` says where this cannot happen.
* Only the first read from a client has a timeout: a SOCKS5 client that stalls
  after its greeting keeps its task, against the comment at `proxy.rs:571`
  (`EverybodyIsAnswered` names it: the client may send).
* SOCKS5 is resolved before its user name is known, and can be refused then by a
  default or a global chain that its tokens would not use (`NothingMatches` in
  `Inbound`, `FirstResolve` in `Upstreams`; compare `proxy.rs:626`).
* SOCKS5 does not look at the command: BIND is served as CONNECT.
* A plain HTTP request to an HTTP upstream is sent on line by line with an empty
  line behind the last that was read, which may come before the rest of a body;
  a request line with CONNECT anywhere in it is taken for a tunnel there.
* A SOCKS4 request that was cut is forwarded to a SOCKS4 upstream as it is; then
  client, router and upstream wait for each other.
* A password with a colon in it is cut there (`proxy.rs:881`), so that such an
  account cannot log in over HTTP.
* Rows: an address in the networks of two accounts may be routed by the default
  of one and charged to the other (`RowByIp`), and two rows with one user name and
  password make the lookup fail for both (`RowByLogin`).
* `cur - debit` (`auth.rs:393`) would overflow for a limit near the lowest `i64`
  and a saturated debit; an account with a negative balance is never admitted, so
  a relay does not get there.

### Why the bounds are enough

Three tasks are the fewest for which one can lose its exchange to a second
while a third holds an older value still.  In the relays a limit of 3 with
chunks priced 1 and 2 is exhausted exactly, overshot, or reached by two pumps at
once; two connections of one account race for it and the third shows that
strangers do not matter.  Two bytes per direction let a pump read again
after it was granted.  In `lifecycle` connections meet only in the counters, so
three show every sum.  In `upstreams` two rows are the fewest that can change
order; the session hashes to 2, so its position among two candidates is not its
position among three; of two accounts that share an address one comes first and the other has
a different default, and of two that share a login neither is found among rows.
Five parts hold a base, two pairs, or a pair and a chain of two
parts.  In `chain` three hops are the fewest with one that is
neither first nor last, so that what an HTTP hop leaves behind can pass through
another HTTP hop before SOCKS reads it; 255 is the last length that one byte
holds.  In `inbound` the client's messages are as long as they are; one unit from
the target is enough to be lost, doubled or misplaced.  In `stats_flush` two events per total let a stale write be smaller than
what is stored.  The bounds in guards are `MaxCalls`, `MaxBytes`, `MaxParts`,
`MaxSaid` and `MaxEvents`; each is a cap on the environment, not on the code.

### Fairness

* `StaticAuth`: a thread in the loop goes on (WF `Load`), an exchange that is
  tried again and again with the current value does not fail spuriously for
  ever (SF `Swap`), and stores become visible (WF `SwapFailsAfresh`).
* `Relay`: the back end answers (WF `Commit`) and a woken pump is polled (WF
  `CutOff`); peers owe nothing.
* `Lifecycle`: timers fire and tasks that wait for nobody are polled (WF of
  `FirstReadTimesOut`, `Route`, `Authenticated`, `Settle`).  Clients and upstreams owe nothing, so
  nothing is claimed of the phases in which they are waited for without a timeout.
* `Upstreams`: the refresh ticks (WF `Query`, WF `ReplaceUpstreams`); a query
  may fail any number of times, but WF is on the successful one, that is: a
  database that stays connected answers in the end.  After `DatabaseIsLost`
  `Query` is disabled and nothing is claimed, as the code never reconnects.
* `StatsFlush`: the interval fires and the loop is polled (WF `Tick`, `Snapshot`);
  a database asked again and again over a live connection commits in the end (SF
  `Commit`).  After `ConnectionIsLost` `Commit` is disabled until a restart and nothing
  is claimed, as the code does not reconnect.
* `Chain`: the task is polled when something has arrived (WF `Router`), the timer
  of the one bounded read fires (WF `HeaderTimesOut`), and the end of a stream
  shows (WF `HopBreaks`).  Hops and targets owe nothing.
* `SingleHop`: the same of the task (WF `Router`) and of the timer of the first
  read (WF `FirstReadTimesOut`).  Clients, upstreams and targets owe nothing, and
  `EverybodyIsAnswered` says exactly for whom the router may wait.

`CHECK_DEADLOCK FALSE` is set where the modelled part really stops: all calls
made (`StaticAuth`), all connections ended (`Relay`, `Lifecycle`), a stream
handed out or given up (`Chain`), a relay started or a connection dropped
(`SingleHop`), a user name parsed (`Usernames`).

## 4. Theorems

All proofs are checked by TLAPS for every value of the constants that
satisfies the named assumptions of the modules.

* **`RelayProofs`** begins with what an account promises.  `Sound(limit, balance,
  spent, granted)` is the relation between one account's balance and its history,
  and a debit keeps it (`DebitKeepsSound`).  This is the one place where flooring
  at zero is argued: once a floored balance is zero it stays zero, and the total
  debited has reached the limit.  The ledger's inductive invariant is its types and
  `Sound` of every account; `LedgerIsExact` and `LedgerGrantsWithinLimit` follow.
  `GrantedWithinLimit` alone is not inductive: it says nothing of `remaining`, on
  which the next grant depends.
  `RelayInv` is `TypeOK` and, for each pump, `PumpInv`: what
  its control state says of its connection, its chunk and the difference
  between what was paid, what was handed to `write_all` and what has been written.  From it `OneChunkAtRisk` and
  `RelayPumpsMatchStatus` (no pump outlives its relay) follow, and
  `RelayImplementsLedger`: `Commit` and `CommitLate` are steps of the ledger, all
  others stutter (for the prices to be legal debits `TypeOK` is needed).
  `RelayKeepsBalances` carries the ledger's two invariants over to the relay.
  `RelayHandsOnWithinLimit` is `HandedOnWithinLimit`: all connections of an account
  together hand on less than its limit.  That is a sum over connections and
  directions, and a sum needs an induction; so what was handed on is stated as the
  cardinality of a set, with one element for each unit of price.  Its invariant
  `EntitledInv` counts, besides what has been handed on, what each pump may hand on
  next (`Due`: the price of its chunk once a positive balance has been answered),
  and bounds both by what was granted.  Only `Commit` adds to that set, and adds as
  much to what is granted (`UnitsAdded`); what is handed on was due before.
  `RelayLosesToCutOffOrWrite` is `OnlyCutOffOrWriteLosesAChunk`, and needs two more
  invariants.  `StaticInv`: with the in-memory back end, which never suspends a
  task before the write, one pump at most of a relay is between its read and its
  answer, no query outlives its relay, and what was charged and not handed to
  `write_all` was withheld by the cut-off.  `CutShortInv`: the pump that ends a relay
  with an end of file or the cut-off is not writing, so at most its sibling is cut
  short in a write.
* **`StaticAuthProofs`**: `IInv` adds two facts to the types: in the order of the
  values of an atomic everything behind an exhausted one is exhausted
  (`Declines`, by `OrderGrows`), and the balance a login is judged by is one the
  account has had (`Remembers`).  Together they give `StaleLoginsAreFair`.
  `StaticAuthImplementsLedger`: an exchange that succeeds is one debit of the
  newest balance (`SwapApplies`), a report of an unlimited user is one debit, and
  every other step stutters; no invariant on the value a task expects is needed,
  for the exchange compares it.
* **`UpstreamsProofs`**: `IInv` says that the live set is the configured
  upstreams followed by a sequence of rows, that the rows in the hand of the
  refresh task are rows, and that every connection is `WellRouted`: its path is a
  resolution of its selection in the set it saw, its selection is that of its
  user name once that is read and has tokens, and without a database the account
  that routes it and the one it is charged to are each an answer of the same
  lookup.  The shape of the live set makes it inductive; the theorems then follow
  from lemmas about `Routing`: the first upstream with a label is a configured
  one if any configured one bears it (`FirstOfItsLabel`, `HopsByName`), hence
  `ConfiguredLabelsWin`; a path by tags is one candidate whose user name asks for
  what the candidate templates (`OneHopByTags`, `UsernameFits`), hence
  `RoutingFailsClosed`; a session leaves one position and one user name
  (`PickOne`, `RankTellsApart`, `OneUsername`), hence `SessionsArePinned`; and the
  first account that fits is one, hence `InlineAccountDecides`.  `UpstreamsTypeOK`
  needs more than that invariant: every hop of a resolution has to be shown to be
  an upstream with a user name, through each operator of `Routing`; the first
  upstream of a label is a least element of a set of positions, which exists by the
  library's theorem on well-founded orders.
* **`InboundProofs`**: `SettledInv` says that a connection in any wait behind
  `authenticate_user`, or behind the SOCKS5 login, has an account that may be
  charged.  `NobodyRidesFree` alone speaks of started relays only, and says
  nothing of the waits that lead there.
  `ReturnsTheStream` speaks of the last moment too; `ServedInv` says what leads to
  it.  `Placed` says for each wait which clients reach it, how far the stream goes
  and what can have been asked; `Recognised`, that what the first read took begins
  with what its protocol is detected by; `Talking`, for each reply that is awaited,
  that nothing is on the wire but what is still to be read of the answer and, behind
  it, what the target has said; `Answered`, what the client has been told and what
  is on the wire once the conversation with the upstream is over.  A SOCKS reply is
  read to its last byte; of an HTTP upstream's answer one read takes any part, and
  `https` forwards the part it has read, with whatever of the target's words is in
  it.  So nothing of these is lost or repeated (`ReadAddressKeeps`,
  `ReadStatusKeeps`, `HandsOverKeeps`, `SpeaksKeeps`).  That each handler finds the
  answer it waits for, and no other, rests on what the parsers return: parts of what
  they were given (`PartsType`, `TargetsType`), hence never the mark of a stream
  that is not there (`NamesApart`).
  `TakenAtItsWord` needs what the parsers return on a request that came whole, and
  what the SOCKS5 dialogue reads.  The first is a fact about strings: a request is
  spelled out unit by unit (`ConnectSpelled`, `GetSpelled`, `Socks4Spelled`),
  whatever begins with it has the same units (`GetAgrees` and the like), and each
  parser cuts it where the model's `Upto` and `After` find the first of a set of
  units (`CutAt`; `RequestServed` puts them together).  `Whole` carries that through
  every wait of the handlers.  For the second, all that a client sends is one row of
  units (`UnitAt`), in which its messages lie end to end (`MessageAt`, `Offset`).
  `Flow` says that there are two places in this row, that the inbox holds what is
  between them, that the second is the end of a message while the client stays, and
  which place the first is in each wait: so a read that was cut and one that took in
  the next message are the same to it, and the dialogue cannot lose its place
  without failing.  `Charged5` adds the account and the selection of its login.
  `DeliversTheStream` needs `Flow` again, for what is still in the row is the rest
  of the stream (`RestIs`, `HttpRest`), and `Passing`: what has been written to the
  upstream in each wait is what the handler of the protocol takes from behind the
  request, nothing before it dials.  A plain request keeps its line and its rest
  when the authority is dropped from it (`Reformed`) and when the router's
  credentials are put behind the line (`Forwarded`).
* **`LifecycleProofs`**: `Coherent` ties how a relay ended to the phase its
  connection is in, and `Counters` states each counter as a number of
  connections; `GaugeDrift` and `TalliesExact` follow for any finite set of
  them, and the counters of outcomes never go below zero (`LifecycleTypeCorrect`).
* **`StatsFlushProofs`**: a write may be under way from the process, or left
  behind by one that has died or lost its connection.  `Trailing` bounds everything that can reach the row by what has
  happened, and `Growing` says that while no load has failed the row is below all
  that may be written to it, and gives the action property `StoredTotalsGrow`.
* **`ChainProofs`**: `connect_chain` keeps in step with every hop, for chains of
  any length, hops that do anything the models allow and reads that return any part
  of what has arrived.  `ChainInv` is the types, `Placed` (how far the stream
  reaches, by the wait the router is in) and `InStep`, which says of each wait what
  may be on the wire: the end of a reply that an HTTP hop before has left over, the
  answer to the outstanding request, and behind it what the target has said,
  nothing else and in this order.  `WholeAfterSocks` is not inductive, for it speaks
  of the last moment only; what makes it true is that a SOCKS reply is read to its
  last byte (`ReadHeaderKeepsInv`, `ReadLengthKeepsInv`, `ReadAddressKeepsInv`), so that nothing is left but
  what the target has said.  `ChainImplementsTunnel`: a reply is taken for a success
  only when the stream has reached what the hop was asked for, so each success is
  one step of `Tunnel`; all other steps stutter.  Its hypothesis `Fits` says that
  the name of the target has less than 256 bytes if the last hop speaks SOCKS5: its
  length is cast to `u8` (`chain.rs:137`), a longer name is asked for by
  another one, and then the promise is not kept.  The instance of `chain`
  satisfies it, with a name of 255 bytes.
* **`UsernamesProofs`**: `UsernamesInv` says that the loop is at an even distance
  from the key that ends the base, that every turn so far has found a key there,
  and that the selection holds of each key the value of its last turn (`Got`).  A user
  name that was composed has a key at each of these positions up to the end or up
  to its chain, so the loop stops there and not before, and selects what was
  composed (`UsernamesSelectsWhatWasComposed`); a base with no key in it is itself
  (`UsernamesBaseIsItself`).  User names are of any length here, and the words and
  keys any.

Assumed of the constants: a debit's bound is a natural, `Unlimited` is no
integer, limits are balances, costs are fractions with a positive denominator,
chunks are positive; rows are finitely many, distinct from the configured
upstreams and without templates; chains name labels; accounts are a sequence;
connections are finitely many in `Lifecycle`; the empty part is no word and
`chain` no tag; the mark for "nobody is asked" is no request, and lengths and amounts are
naturals.  TLC evaluates each of these on the instances.

Only model-checked: liveness (`EveryReportIsAnswered`, `SpentRelayEnds`,
`FirstReadIsBounded`, `FailuresAreSettled`, `TableIsFollowed`,
`EventuallyStored`, `HeaderIsBounded`, `EndsAreNoticed`, `EverybodyIsAnswered`),
which TLAPS does not prove, and the four runs that end in a counterexample.  Every
invariant and action property of a passing run is a theorem.  The library's
induction theorems take an operator as a parameter, which the installed provers
cannot instantiate; so wherever a proof would go by induction over a sequence it
goes by a least element of a set of positions, or by a cardinality.

## 5. Plan

Written, in this order: the ledger and its implementations (what users pay
for), the relay, the life cycle, the upstream set with routing, user names, the
flush, the chain connector, the client's side and the single-hop handlers, the
account lookups.  What would come next:

1. That what an HTTP upstream is sent is followed by nothing but an empty line and
   the rest of a body: `DeliversTheStream` says what it begins with.
2. The current-rate counters and the channel of log lines (`stats/global.rs`),
   once something depends on them; the 64-bit width of balances.

## 6. Not modelled

* `serve_metrics` renders an external registry and keeps no state.
* TOML parsing and argument handling are libraries; their results are the
  constants.
* Schema creation and the text of the SQL statements; `user_stats`, which is
  loaded and never used.
* The current-rate counters and the log lines: they are only drawn.  A receiver
  that lags behind the channel of 100 lines gets an error, which ends the draining
  for that tick (`stats/display.rs:258`).  Drawing itself, except that a terminal
  error ends the flush loop (`TerminalFails`).
* Password comparison in constant time, CIDR arithmetic, base64 and the text of
  headers: data that the models take as values.
* Byte counters of handshakes, and lengths of credentials beyond one byte.
