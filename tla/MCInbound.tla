------------------------------- MODULE MCInbound -------------------------------
(***************************************************************************)
(* Clients of every protocol with every form of request, every kind of     *)
(* upstream and a chain.  SOCKS5 clients go through connect_chain however  *)
(* long the chain, so they meet one path.                                  *)
(***************************************************************************)
EXTENDS SingleHop

MCHops == {[kind |-> k, auth |-> a, parses |-> TRUE] :
             k \in {"socks5", "socks4", "http"}, a \in BOOLEAN}
MCHop == [kind |-> "socks5", auth |-> FALSE, parses |-> TRUE]

Over(multi, hops) == [multi : {multi}, hop : hops, auth : BOOLEAN]
Anywhere == Over(TRUE, {MCHop})
            \cup Over(FALSE, MCHops \ {[MCHop EXCEPT !.kind = "socks4", !.auth = TRUE]})

Clients(proto, manners, offers, commands, forms, creds, addresses) ==
    [proto : {proto}, manner : manners, offers : offers, command : commands,
     form : forms, creds : creds, address : addresses]

Socks5Clients ==
    Clients("socks5", {"polite", "eager", "hasty"}, {{"00"}, {"02"}, {"00", "02"}}, {"connect"},
            {"01", "03"}, {"good"}, {FALSE})
    \cup Clients("socks5", {"polite"}, {{"00", "02"}}, {"connect", "bind"},
                 {"03", "FF"}, {"refused", "unparsable"}, {TRUE})

Socks4Clients ==
    Clients("socks4", {"polite"}, {{}}, {"connect"},
            {"ip", "0.0.0.1", "0.0.0.x"}, {"none", "good"}, {TRUE})
    \cup Clients("socks4", {"eager"}, {{}}, {"connect"}, {"ip", "0.0.0.1"}, {"good"}, {TRUE})
    \cup Clients("socks4", {"polite"}, {{}}, {"connect"}, {"ip"}, {"good"}, {FALSE})
    \cup Clients("socks4", {"polite"}, {{}}, {"bind"}, {"0.0.0.1"}, {"unparsable"}, {TRUE})

HttpClients ==
    Clients("http", {"polite"}, {{}}, {"connect"},
            {"absolute"}, {"none", "good", "refused"}, BOOLEAN)
    \cup Clients("http", {"polite"}, {{}}, {"connect"}, {"origin"}, {"none", "good"}, {TRUE})
    \cup Clients("http", {"polite"}, {{}}, {"connect"}, {"mentions CONNECT"}, {"none"}, {TRUE})

HttpsClients ==
    Clients("https", {"polite"}, {{}}, {"connect"},
            {"absolute"}, {"none", "good", "refused", "unparsable"}, {TRUE})
    \cup Clients("https", {"polite"}, {{}}, {"connect"}, {"absolute"}, {"none", "refused"}, {FALSE})
    \cup Clients("https", {"eager"}, {{}}, {"connect"}, {"absolute"}, {"good"}, {TRUE})

MCCases ==
    [client : Socks5Clients \cup Clients("other", {"polite"}, {{}}, {"connect"}, {"01"}, {"none"}, {FALSE}),
     path : Over(TRUE, {MCHop})]
    \cup [client : Socks4Clients \cup HttpClients \cup HttpsClients, path : Anywhere]
===============================================================================
