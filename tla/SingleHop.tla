------------------------------- MODULE SingleHop -------------------------------
(***************************************************************************)
(* The handlers for one upstream: Socks4::handle, Http::handle and         *)
(* Https::handle (src/protocols/), each of which asks an upstream of each  *)
(* kind in its own way.  They go by what the first read has returned, and  *)
(* by nothing that arrives later.                                          *)
(***************************************************************************)
EXTENDS Inbound

Single(proto, phase) == wait = phase /\ ~path.multi /\ Detected(taken) = proto

\* The upstream is connected, and is asked for this name, or there is none.
Opens(proto, kind, name) ==
    /\ Single(proto, "dial") /\ path.hop.kind = kind
    /\ at' = AtHop
    /\ asked' = name
    /\ IF name = NoName THEN Goes("failed", Nobody) ELSE Asks(path.hop, name)
    /\ UNCHANGED <<fixed, stream, taken, told, verdicts, wire, closed, said>>

\* The client is told, and the relay starts.
HandsOver(words, units) ==
    /\ told' = told \o words
    /\ passed' = units
    /\ wait' = "open"
    /\ UNCHANGED <<fixed, stream, taken, verdicts, asked, hopside>>

Untold == UNCHANGED <<fixed, stream, taken, told, verdicts, asked, passed>>

-------------------------------------------------------------------------------
(* SOCKS4 *)

\* Mutation of Socks4Target: the domain is looked for right behind the address.
Socks4TargetTooSoon(s) ==
    IF Len(s) < 3 \/ s[2] # "connect" THEN NoName
    ELSE IF s[3] # "0.0.0.1" THEN <<s[3]>>
    ELSE LET domain == Upto(SubSeq(s, 4, Len(s)), {"NUL"})
         IN  IF domain = <<>> THEN NoName ELSE domain

\* Of the addresses that announce a domain name only 0.0.0.1 is looked for.  A
\* request too short for its address panics; a user id need not end.
Socks4Target(s) ==
    IF Len(s) < 3 \/ s[2] # "connect" THEN NoName
    ELSE IF s[3] # "0.0.0.1" THEN <<s[3]>>
    ELSE LET domain == Upto(After(s, {"NUL"}), {"NUL"})
         IN  IF domain = <<>> THEN NoName ELSE domain

\* The request is parsed before the upstream is connected.
Socks4Rejects == Single("socks4", "dial") /\ Socks4Target(taken) = NoName /\ Fails

Socks4Opens(kind) ==
    /\ Socks4Target(taken) # NoName
    /\ Opens("socks4", kind, Socks4Target(taken))
    /\ UNCHANGED passed

Socks4ToHttp   == Socks4Opens("http")
Socks4ToSocks5 == Socks4Opens("socks5")

\* The request as far as it has been read is forwarded.  The upstream finds the
\* end of it, and the name, where SOCKS4a puts them.
Socks4ToSocks4 ==
    /\ Single("socks4", "dial") /\ path.hop.kind = "socks4"
    /\ Socks4Target(taken) # NoName
    /\ at' = AtHop
    /\ LET request4 == Handshake(client, path.auth)[1]
       IN  IF IsPrefix(request4, taken)
           THEN /\ asked' = Meant(client)
                /\ Goes("granted", Connect(Meant(client)))
                /\ passed' = SubSeq(taken, Len(request4) + 1, Len(taken))
           ELSE Goes("granted", Nobody) /\ UNCHANGED <<asked, passed>>
    /\ UNCHANGED <<fixed, stream, taken, told, verdicts, wire, closed, said>>

\* Its answer is forwarded, whatever it is.
Socks4Forwards ==
    /\ Single("socks4", "granted")
    /\ ReadGranted
    /\ told' = Append(told, SubSeq(wire, 1, 2))
    /\ UNCHANGED <<fixed, stream, taken, verdicts, asked, passed>>

Socks4Answers ==
    /\ Single("socks4", "next")
    /\ HandsOver(IF path.hop.kind = "socks4" THEN <<>> ELSE <<Granted>>, passed)

-------------------------------------------------------------------------------
(* Plain HTTP *)

\* Mutation of WithCredentials: the credentials are put behind the last header.
WithCredentialsLast(s) ==
    LET ended == IF s[Len(s)] = "EOL" THEN s ELSE Append(s, "EOL")
    IN  (IF path.hop.auth THEN Append(ended, "credentials") ELSE ended) \o <<"EOL">>

\* What was read, line by line, with the router's credentials after the first
\* line and an empty line after the last.  That bytes which are no UTF-8 are
\* replaced, and bare line feeds become line ends, is left out.
WithCredentials(s) ==
    LET ended == IF s[Len(s)] = "EOL" THEN s ELSE Append(s, "EOL")
    IN  Upto(ended, {"EOL"}) \o <<"EOL">>
        \o (IF path.hop.auth THEN <<"credentials", "EOL">> ELSE <<>>)
        \o After(ended, {"EOL"}) \o <<"EOL">>

\* There is no handshake: the upstream reads the name, and its response comes
\* through the relay.
HttpToHttp ==
    /\ Single("http", "dial") /\ path.hop.kind = "http"
    /\ at' = AtHop
    /\ wait' = "open"
    /\ passed' = WithCredentials(taken)
    /\ UNCHANGED <<fixed, stream, taken, told, verdicts, asked, request, wire, closed, said>>

HttpToSocks4 == Opens("http", "socks4", HostHeader(taken)) /\ UNCHANGED passed
HttpToSocks5 == Opens("http", "socks5", HostHeader(taken)) /\ UNCHANGED passed

\* A request line with CONNECT in it, wherever, is taken for a tunnel.
HttpAnswers ==
    /\ Single("http", "next")
    /\ LET line == Upto(taken, {"EOL"})
       IN  IF Has(line, "/CONNECT") THEN HandsOver(<<Established>>, <<>>)
           ELSE HandsOver(<<>>, taken)

-------------------------------------------------------------------------------
(* CONNECT *)

HttpsToHttp   == Opens("https", "http", ParseConnectTarget(taken)) /\ UNCHANGED passed
HttpsToSocks4 == Opens("https", "socks4", ParseConnectTarget(taken)) /\ UNCHANGED passed
HttpsToSocks5 == Opens("https", "socks5", ParseConnectTarget(taken)) /\ UNCHANGED passed

\* Mutation of HttpsForwards: the response is read and not forwarded.
HttpsKeeps ==
    /\ Single("https", "status")
    /\ ReadStatus
    /\ Untold

\* The part of the response that holds the phrase is forwarded.
HttpsForwards ==
    /\ Single("https", "status")
    /\ ReadStatus
    /\ told' = IF wait' = "next"
               THEN Append(told, SubSeq(wire, 1, Len(wire) - Len(wire')))
               ELSE told
    /\ UNCHANGED <<fixed, stream, taken, verdicts, asked, passed>>

HttpsAnswers ==
    /\ Single("https", "next")
    /\ HandsOver(IF path.hop.kind = "http" THEN <<>> ELSE <<Established>>, <<>>)

-------------------------------------------------------------------------------

UpstreamIsDown == wait = "dial" /\ ~path.multi /\ Fails

\* The rest of each conversation.
Conversing(proto) == Detected(taken) = proto /\ Untold

Socks4Converses == (ReadsSocks5(path.hop, asked) \/ ReadStatus) /\ Conversing("socks4")
HttpConverses   == (ReadsSocks5(path.hop, asked) \/ ReadGranted) /\ Conversing("http")
HttpsConverses  == (ReadsSocks5(path.hop, asked) \/ ReadGranted) /\ Conversing("https")

UpstreamBreaks == Breaks /\ Untold

Router ==
    \/ ClientSide
    \/ Socks4Rejects \/ Socks4ToHttp \/ Socks4ToSocks4 \/ Socks4ToSocks5
    \/ HttpToHttp \/ HttpToSocks4 \/ HttpToSocks5
    \/ HttpsToHttp \/ HttpsToSocks4 \/ HttpsToSocks5
    \/ UpstreamIsDown
    \/ Socks4Converses \/ HttpConverses \/ HttpsConverses
    \/ Socks4Forwards \/ HttpsForwards \/ UpstreamBreaks
    \/ Socks4Answers \/ HttpAnswers \/ HttpsAnswers

Upstream ==
    /\ Untold
    /\ \/ FarEnd(path.hop)
       \/ Speaks(asked)
       \/ at # Nowhere /\ Closes

Next ==
    \/ Router
    \/ FirstReadTimesOut
    \/ Sends \/ Leaves
    \/ Upstream

\* The task is polled when something has arrived or a stream has ended.  Nobody
\* else need do anything.
Fairness == WF_vars(Router) /\ WF_vars(FirstReadTimesOut)

Spec == Init /\ [][Next]_vars /\ Fairness

-------------------------------------------------------------------------------

TypeOK ==
    /\ \E c \in Cases : client = c.client /\ path = c.path
    /\ sent \in 0 .. Len(script) /\ gone \in BOOLEAN
    /\ wait \in Outcomes \cup Replies
              \cup {"first", "route", "account", "greeting", "login", "request",
                    "count", "host", "ip", "chain", "dial", "next"}
    /\ user \in {"nobody", "user", "address"}
    /\ selected \in {"nothing", "tokens", "default"}
    /\ request # Nobody => wait \in Awaited(request.ask) \cup {"failed"}
    /\ asked = NoName => at \in {Nowhere, AtHop}
    /\ closed \in BOOLEAN /\ said \in 0 .. MaxSaid

\* The first message arrived, whole, with the first read.
CameWhole == IsPrefix(Handshake(client, path.auth)[1], taken)
Untouched == ~path.multi /\ path.hop.kind = client.proto

\* The account and the selection that a client's credentials stand for.
Owner == IF ~path.auth THEN "nobody"
         ELSE IF client.proto # "socks4" /\ client.creds # "none" THEN "user" ELSE "address"
Choice == IF /\ client.creds \notin {"none", "unparsable"}
             /\ client.proto = "socks5" => path.auth
          THEN "tokens" ELSE "default"

\* A client that is served is served as the one it is and to the target it means:
\* a SOCKS5 client however its messages are cut and wherever one read ends
\* (src/protocols/proxy.rs:207-360), the others when the first read took in the
\* request.  Apart from SOCKS4a addresses other than 0.0.0.1 over one upstream, and
\* from requests an HTTP upstream reads itself.
TakenAtItsWord ==
    wait = "open" /\ (client.proto = "socks5" \/ CameWhole)
        => /\ user = Owner /\ selected = Choice
           /\ \/ asked = Meant(client)
              \/ client.form = "0.0.0.x" /\ ~path.multi
              \/ client.proto = "http" /\ Untouched

\* However little of a request has been read, nobody is served for free, on the
\* account of a password that was refused, or on that of an address that is not
\* authorised (src/protocols/proxy.rs:851-903).
NobodyRidesFree ==
    wait = "open" /\ path.auth
        => \/ user = "user" /\ client.creds = "good"
           \/ user = "address" /\ client.address

\* The first read ends with the request, or SOCKS5 finds the ends itself.
EndsWithRequest ==
    \/ client.proto = "socks5"
    \/ taken = Handshake(client, path.auth)[1]
    \/ CameWhole /\ (client.proto = "http" \/ (client.proto = "socks4" /\ Untouched))

\* What is meant for the target reaches it from the first byte, and nothing of the
\* handshake with it: a payload sent on the heels of a SOCKS5 request is not lost,
\* and a plain request is passed on with its body, in the form its next reader
\* expects (src/protocols/proxy.rs:1074-1108, src/protocols/http.rs:47-70, :104-114).
\* Apart from request lines with CONNECT in them.  Of what an HTTP upstream gets only
\* the beginning is stated: the request line, the router's credentials and the
\* headers, in this order; the empty line the router adds may come before the rest
\* of a body.
DeliversTheStream ==
    wait = "open" /\ EndsWithRequest /\ ~gone
        => LET whole == script[1]
               rest  == passed \o inbox \o Unsent
           IN  CASE client.proto # "http" -> rest = <<"payload">>
                 [] client.proto = "http" /\ path.multi ->
                      rest = (IF client.form = "origin" THEN whole
                              ELSE <<"GET">> \o SubSeq(whole, 5, Len(whole)))
                 [] client.proto = "http" /\ Untouched ->
                      IsPrefix(Upto(whole, {"EOL"})
                               \o (IF path.hop.auth THEN <<"EOL", "credentials">> ELSE <<>>)
                               \o SubSeq(whole, Len(Upto(whole, {"EOL"})) + 1, Len(whole) - 1),
                               rest)
                 [] OTHER -> client.form = "mentions CONNECT" \/ rest = whole

Answer == CASE client.proto = "socks5" -> <<"05", "00", "01", "address">>
            [] client.proto = "socks4" -> Granted
            [] client.proto = "https"  -> Established
            [] client.proto = "http"   -> <<>>

\* The last thing a client that is served is told is the answer to its request, and
\* then it reads what the target says, from the first byte, whoever's words the
\* answer is in and however it is cut
\* (src/protocols/https.rs:68-76, src/protocols/socks4.rs:127-143).  Apart from
\* SOCKS4 over an HTTP upstream, and request lines with CONNECT in them.
ReturnsTheStream ==
    wait = "open" /\ at = asked /\ client.form # "mentions CONNECT"
    /\ ~(client.proto = "socks4" /\ ~path.multi /\ path.hop.kind = "http")
        => (IF told = <<>> THEN <<>> ELSE told[Len(told)]) \o wire
           = Answer \o [k \in 1 .. said |-> "data"]

\* The router does not fall silent on a client that keeps to the order of things:
\* sooner or later it serves it, drops it, or waits for an answer that the upstream
\* owes, or for the client (src/protocols/proxy.rs:197-401).  Apart from a SOCKS4
\* request that was cut and forwarded to a SOCKS4 upstream: then all three wait.
EverybodyIsAnswered ==
    <>[](\/ wait \in Outcomes
         \/ request # Nobody
         \/ MaySend
         \/ client.manner = "hasty"
         \/ wait = "granted" /\ client.proto = "socks4" /\ ~CameWhole)

\* "SOCKS4a: 0.0.0.x (x != 0) signals a domain name follows the user id"
\* (src/protocols/proxy.rs:1202): so a client that sends its request like that is
\* connected to that name.
Socks4aIsHonoured ==
    wait = "open" /\ client.form \in {"0.0.0.1", "0.0.0.x"} /\ CameWhole
        => at = Name
===============================================================================
