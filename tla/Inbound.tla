-------------------------------- MODULE Inbound --------------------------------
(***************************************************************************)
(* The client's side of a connection (src/protocols/proxy.rs): the first   *)
(* read, the protocol it is taken for, where it is routed and whom it is   *)
(* charged to, the SOCKS5 dialogue, and the handlers that go through a     *)
(* chain.  Module SingleHop adds the handlers for one upstream.            *)
(*                                                                         *)
(* What the client sends is a stream too, in units: a byte, or a run of    *)
(* bytes none of the parsers looks into.  A user id, a path, a header name *)
(* and a method are each one unit and arrive whole; a host name is two, so *)
(* that a read may cut it.  Names include the port.                        *)
(*                                                                         *)
(* connect_chain is one step, with the promise that Chain is checked to    *)
(* keep: the stream ends at the target, and nothing has been read from it. *)
(***************************************************************************)
EXTENDS Hops

CONSTANTS
    Cases            \* clients, and how they are routed

\* Protocols and the forms of a request that each has.
Forms == [socks5 |-> {"01", "03", "04", "FF"},                     \* address types
          socks4 |-> {"ip", "0.0.0.1", "0.0.0.x"},
          http   |-> {"absolute", "origin", "mentions CONNECT"},   \* request lines
          https  |-> {"absolute"},
          other  |-> {"01"}]

Client == {c \in [proto   : DOMAIN Forms,
                  manner  : {"polite", "eager", "hasty"},
                  offers  : SUBSET {"00", "02"},                   \* SOCKS5 methods
                  command : {"connect", "bind"},
                  form    : UNION {Forms[p] : p \in DOMAIN Forms},
                  creds   : {"none", "good", "refused", "unparsable"},
                  address : BOOLEAN] :                             \* it is authorised
             c.form \in Forms[c.proto]}

\* How the client is routed: over several hops, or over this one.
Path == [multi : BOOLEAN, hop : Hop, auth : BOOLEAN]

ASSUME InboundAssumption ==
    /\ Cases \subseteq [client : Client, path : Path]
    /\ MaxSaid \in Nat

VARIABLES
    client,          \* the client
    path,            \* where it is routed, and whether it must authenticate
    sent,            \* messages of its script the client has sent
    gone,            \* the client has closed its side
    inbox,           \* units it has sent and the router has not read
    taken,           \* what the first read returned: initial_request
    told,            \* what the router has written to the client
    user,            \* the account that is charged
    selected,        \* what the upstream was selected by
    asked,           \* the target the router has understood
    passed           \* units written to the upstream for the target

fixed    == <<client, path>>
stream   == <<sent, gone, inbox>>
verdicts == <<user, selected>>
hopside  == <<request, wire, at, closed, said>>
vars     == <<client, path, sent, gone, inbox, taken, told, user, selected, asked, passed,
              wait, request, wire, at, closed, said>>

Nowhere == <<"nowhere">>     \* no stream yet
AtHop   == <<"hop">>         \* it ends at the upstream
NoName  == <<"no name">>     \* no target has been understood

-------------------------------------------------------------------------------
(* What clients send *)

Name == <<"na", "me">>

UserId(c) == IF c.creds = "none" THEN <<>> ELSE <<"id">>

Credentials(c) ==
    IF c.creds = "none" THEN <<>> ELSE <<"Proxy-Authorization: Basic ", "user", "pass", "EOL">>

Path1(c) == IF c.form = "mentions CONNECT" THEN "/CONNECT" ELSE "/"

\* The messages of the handshake.  A client logs in where that is asked for.
Handshake(c, auth) ==
    CASE c.proto = "socks5" ->
           <<<<"05", "methods">>>>
           \o (IF auth THEN <<<<"01", "name and password">>>> ELSE <<>>)
           \o <<<<"05", c.command, c.form>>
                \o (IF c.form = "03" THEN <<"length">> \o Name ELSE <<"ip">>)>>
      [] c.proto = "socks4" ->
           <<<<"04", c.command, c.form>> \o UserId(c) \o <<"NUL">>
             \o (IF c.form = "ip" THEN <<>> ELSE Name \o <<"NUL">>)>>
      [] c.proto = "https" ->
           <<<<"CONNECT">> \o Name \o <<"EOL">> \o Credentials(c) \o <<"EOL">>>>
      [] c.proto = "http" ->
           <<<<"GET">>
             \o (IF c.form = "origin" THEN <<>> ELSE <<"http://">> \o Name)
             \o <<Path1(c), "EOL", "Host: ">> \o Name \o <<"EOL">>
             \o Credentials(c) \o <<"EOL">>>>
      [] c.proto = "other" -> <<<<"?">>>>

\* A plain request brings its body along; a tunnel is used once it is there.
Script(c, auth) ==
    IF c.proto = "http" THEN <<Handshake(c, auth)[1] \o <<"body">>>>
    ELSE Append(Handshake(c, auth), <<"payload">>)

script == Script(client, path.auth)
Unsent == FlattenSeq(SubSeq(script, sent + 1, Len(script)))

\* A polite client waits for an answer to each message, an eager one sends its
\* payload on the heels of the handshake, a hasty one waits for nothing.
MaySend ==
    /\ sent < Len(script) /\ ~gone
    /\ \/ Len(told) >= sent
       \/ client.manner = "eager" /\ sent = Len(script) - 1
       \/ client.manner = "hasty"

\* What the client means.
Meant(c) == IF c.form = "ip" \/ (c.proto = "socks5" /\ c.form # "03") THEN <<"ip">> ELSE Name

-------------------------------------------------------------------------------
(* Parsers *)

\* A string up to the first of some units, and what follows it.
Upto(s, ends) ==
    LET k == SelectInSeq(s, LAMBDA u : u \in ends)
    IN  IF k = 0 THEN s ELSE SubSeq(s, 1, k - 1)
After(s, ends) ==
    LET k == SelectInSeq(s, LAMBDA u : u \in ends)
    IN  IF k = 0 THEN <<>> ELSE SubSeq(s, k + 1, Len(s))
Has(s, unit) == unit \in ToSet(s)

Detected(s) == CASE s[1] = "05" -> "socks5"
                 [] s[1] = "04" -> "socks4"
                 [] s[1] = "CONNECT" -> "https"
                 [] s[1] = "GET" -> "http"
                 [] OTHER -> "other"

\* The value of the Basic header, as far as it was read.
BasicHeader(s) == Upto(After(s, {"Proxy-Authorization: Basic "}), {"EOL"})

\* A user name whose tokens can be used for routing.
HttpProxyUsername(s) == Has(BasicHeader(s), "user")
Socks4Userid(s) == Has(s, "id") /\ Has(After(s, {"id"}), "NUL")

\* CONNECT's second word.
ParseConnectTarget(s) ==
    LET word == After(Upto(s, {"EOL"}), {"CONNECT"})
    IN  IF word = <<>> THEN NoName ELSE word

HostHeader(s) == IF Has(s, "Host: ") THEN Upto(After(s, {"Host: "}), {"EOL"}) ELSE NoName

ParseHttpTarget(s) ==
    LET authority == Upto(After(Upto(s, {"EOL"}), {"http://"}), {"/", "/CONNECT"})
    IN  IF authority # <<>> THEN authority ELSE HostHeader(s)

\* A name that was cut is taken for the name.
ParseSocks4Target(s) ==
    IF Len(s) < 4 \/ ~Has(s, "NUL") THEN NoName
    ELSE IF s[3] = "ip" THEN <<"ip">>
    ELSE Upto(After(s, {"NUL"}), {"NUL"})

\* The authority is dropped from a complete request line.
ToOriginForm(s) ==
    LET line == Upto(s, {"EOL"})
    IN  IF ~Has(s, "EOL") \/ ~Has(line, "http://") THEN s
        ELSE <<line[1], line[Len(line)], "EOL">> \o After(s, {"EOL"})

-------------------------------------------------------------------------------

Init ==
    /\ \E c \in Cases : client = c.client /\ path = c.path
    /\ sent = 0 /\ gone = FALSE /\ inbox = <<>>
    /\ taken = <<>> /\ told = <<>>
    /\ user = "nobody" /\ selected = "nothing"
    /\ asked = NoName /\ passed = <<>>
    /\ wait = "first" /\ request = Nobody
    /\ wire = <<>> /\ at = Nowhere /\ closed = FALSE /\ said = 0

\* The client sends a message; it may arrive in pieces.
Sends ==
    /\ MaySend
    /\ wait \notin Outcomes
    /\ sent' = sent + 1
    /\ inbox' = inbox \o script[sent + 1]
    /\ UNCHANGED <<fixed, gone, taken, told, verdicts, asked, passed, wait, hopside>>

\* The client closes its side, or vanishes in the middle of a message.
Leaves ==
    /\ ~gone
    /\ wait \notin Outcomes
    /\ gone' = TRUE
    /\ \/ UNCHANGED inbox
       \/ MaySend /\ \E n \in 1 .. Len(script[sent + 1]) - 1 :
             inbox' = inbox \o SubSeq(script[sent + 1], 1, n)
    /\ UNCHANGED <<fixed, sent, taken, told, verdicts, asked, passed, wait, hopside>>

Fails ==
    /\ wait' = "failed"
    /\ UNCHANGED <<fixed, stream, taken, told, verdicts, asked, passed, hopside>>

\* A read of the client's stream: n units have arrived.
Receives(phase, n) ==
    /\ wait = phase
    /\ Len(inbox) >= n
    /\ inbox' = SubSeq(inbox, n + 1, Len(inbox))
    /\ UNCHANGED <<fixed, sent, gone, hopside>>

\* The stream ends before what is waited for has been read.
ClientIsGone == gone /\ inbox = <<>> /\ wait \in {"first", "login"} /\ Fails

\* Mutation of RequestIsCut: once the request has begun, an end is not noticed.
RequestIsNotBegun == gone /\ wait = "request" /\ Len(inbox) < 3 /\ Fails

RequestIsCut ==
    /\ gone
    /\ \/ wait = "request" /\ Len(inbox) < 3
       \/ wait = "count" /\ Len(inbox) < 1
       \/ wait = "host" /\ Len(inbox) < 2
       \/ wait = "ip" /\ Len(inbox) < 1
    /\ Fails

\* Of all reads from the client only the first has a timeout.
FirstReadTimesOut == wait = "first" /\ Fails

\* Whatever has arrived is taken for the whole request; its tokens, or else the
\* default of the account at this address, select the route.
FirstRead ==
    \E n \in 1 .. Len(inbox) :
        /\ Receives("first", n)
        /\ taken' = SubSeq(inbox, 1, n)
        /\ IF Detected(taken') = "other" THEN wait' = "failed" ELSE wait' = "route"
        /\ UNCHANGED <<told, verdicts, asked, passed>>

\* The username's tokens, if it has been read and can be parsed.
SelectionFor ==
    IF /\ client.creds # "unparsable"
       /\ CASE Detected(taken) = "socks4" -> Socks4Userid(taken)
            [] Detected(taken) \in {"http", "https"} -> HttpProxyUsername(taken)
            [] OTHER -> FALSE
    THEN "tokens" ELSE "default"

\* The upstreams are resolved.  SOCKS5 logs in later and resolves again.
Routes ==
    /\ wait = "route"
    /\ selected' = SelectionFor
    /\ wait' = IF Detected(taken) = "socks5" THEN "greeting" ELSE "account"
    /\ UNCHANGED <<fixed, stream, taken, told, user, asked, passed, hopside>>

\* No upstream matches the selection.
NothingMatches == wait \in {"route", "chain"} /\ Fails

\* Mutation of AuthenticateUser: credentials that are refused count as none.
AuthenticateUserOrNot ==
    /\ wait = "account"
    /\ user' = IF ~path.auth THEN "nobody"
               ELSE IF Has(BasicHeader(taken), "pass") /\ client.creds = "good" THEN "user"
               ELSE "address"
    /\ wait' = "dial"
    /\ UNCHANGED <<fixed, stream, taken, told, selected, asked, passed, hopside>>

\* The account is that of the credentials if the header has been read, and else
\* that of the address, whatever the client meant to send.
AuthenticateUser ==
    /\ wait = "account"
    /\ \/ ~path.auth /\ user' = "nobody"
       \/ /\ path.auth /\ Has(taken, "Proxy-Authorization: Basic ")
          /\ Has(BasicHeader(taken), "pass") /\ client.creds = "good"
          /\ user' = "user"
       \/ /\ path.auth /\ ~Has(taken, "Proxy-Authorization: Basic ")
          /\ client.address
          /\ user' = "address"
    /\ wait' = "dial"
    /\ UNCHANGED <<fixed, stream, taken, told, selected, asked, passed, hopside>>

\* Wrong credentials, an unknown address, a spent account, or a failing lookup.
IsRefused == wait = "account" /\ path.auth /\ Fails

-------------------------------------------------------------------------------
(* SOCKS5 *)

Method == IF path.auth THEN "02" ELSE "00"

\* The greeting must have arrived whole; what arrived behind it is dropped.
Greets ==
    /\ wait = "greeting"
    /\ IF Len(taken) < 2
       THEN wait' = "failed" /\ UNCHANGED told
       ELSE IF Method \in client.offers
       THEN /\ told' = Append(told, <<"05", Method>>)
            /\ wait' = IF path.auth THEN "login" ELSE "request"
       ELSE /\ told' = Append(told, <<"05", "FF">>)
            /\ wait' = "failed"
    /\ UNCHANGED <<fixed, stream, taken, verdicts, asked, passed, hopside>>

\* One read is taken for the whole message.
LogsIn ==
    \E n \in 1 .. Len(inbox) :
        /\ Receives("login", n)
        /\ \/ /\ inbox[1] = "01" /\ n >= 2
              /\ client.creds = "good"
              /\ user' = "user" /\ selected' = "tokens"
              /\ told' = Append(told, <<"01", "00">>)
              /\ wait' = "request"
           \/ wait' = "failed" /\ UNCHANGED <<told, verdicts>>
        /\ UNCHANGED <<taken, asked, passed>>

\* The command is not looked at.
ReadsRequest ==
    /\ Receives("request", 3)
    /\ wait' = CASE inbox[1] # "05" -> "failed"
                 [] inbox[1] = "05" /\ inbox[3] \in {"01", "04"} -> "ip"
                 [] inbox[1] = "05" /\ inbox[3] = "03" -> "count"
                 [] OTHER -> "failed"
    /\ UNCHANGED <<taken, told, verdicts, asked, passed>>

ReadsCount ==
    /\ Receives("count", 1)
    /\ wait' = "host"
    /\ UNCHANGED <<taken, told, verdicts, asked, passed>>

ReadsName(phase, n) ==
    /\ Receives(phase, n)
    /\ asked' = SubSeq(inbox, 1, n)
    /\ wait' = "chain"
    /\ UNCHANGED <<taken, told, verdicts, passed>>

-------------------------------------------------------------------------------
(* Handlers that go through a chain *)

\* connect_chain has returned a stream to this name: the client is told, what
\* must be forwarded is, and the relay starts.
Tunnels(name, words, units) ==
    /\ name # NoName
    /\ asked' = name /\ at' = name
    /\ told' = told \o words
    /\ passed' = units
    /\ wait' = "open"
    /\ UNCHANGED <<fixed, stream, taken, verdicts, request, wire, closed, said>>

Granted     == <<"00", "5A">>
Established == <<"HTTP/1.1", "200 Connection Established", "CRLF">>

Socks5Chain == wait = "chain" /\ Tunnels(asked, <<<<"05", "00", "01", "address">>>>, <<>>)

Dialling(proto) == wait = "dial" /\ path.multi /\ Detected(taken) = proto

HandleSocks4Chain ==
    Dialling("socks4") /\ Tunnels(ParseSocks4Target(taken), <<Granted>>, <<>>)

HandleHttpsChain ==
    Dialling("https") /\ Tunnels(ParseConnectTarget(taken), <<Established>>, <<>>)

HandleHttpChain ==
    Dialling("http") /\ Tunnels(ParseHttpTarget(taken), <<>>, ToOriginForm(taken))

\* No target in the request, or connect_chain fails.
ChainFails == (wait = "chain" \/ (wait = "dial" /\ path.multi)) /\ Fails

ClientSide ==
    \/ ClientIsGone \/ RequestIsCut
    \/ FirstRead \/ Routes \/ NothingMatches
    \/ AuthenticateUser \/ IsRefused
    \/ Greets \/ LogsIn \/ ReadsRequest \/ ReadsCount
    \/ ReadsName("host", 2) \/ ReadsName("ip", 1)
    \/ Socks5Chain \/ HandleSocks4Chain \/ HandleHttpsChain \/ HandleHttpChain
    \/ ChainFails
===============================================================================
