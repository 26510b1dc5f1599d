------------------------------ MODULE MCUpstreams ------------------------------
(***************************************************************************)
(* Two configured upstreams, two rows, three chains, three accounts.       *)
(*                                                                         *)
(*   s1  labelled "A", in the US                                           *)
(*   s2  labelled "B", residential, asked for a country and a session by   *)
(*       its user name                                                     *)
(*   r1  a row that bears the label "A" as well, in the US                 *)
(*   r2  a row labelled "C", in Germany and residential                    *)
(*                                                                         *)
(* The session hashes to 2, so it picks the third of three or four and the *)
(* first of two.  The country de is served by r2 and s2, us by s1, s2 and  *)
(* r1, mobile exits by nobody.  "B" is a label and the id of an empty      *)
(* chain.                                                                  *)
(***************************************************************************)
EXTENDS Upstreams

CONSTANTS c1, c2

MCDims     == {"country", "type"}
MCValues   == {"us", "de", "residential", "mobile"}
MCSessions == {"s"}
MCHash     == [s \in MCSessions |-> 2]
MCLabels   == {"A", "B", "C"}
MCChainIds == {"strict", "random", "B"}
MCChains   ==
    [id \in MCChainIds |->
        CASE id = "strict" -> [proxies |-> <<"A", "C">>, mode |-> "strict", count |-> None]
          [] id = "random" -> [proxies |-> <<"B", "A", "C">>, mode |-> "random", count |-> 2]
          [] OTHER         -> [proxies |-> <<>>, mode |-> "random", count |-> None]]

Tagged(country, type) == [d \in MCDims |-> IF d = "country" THEN country ELSE type]

s1 == [id |-> "s1", label |-> "A", tags |-> Tagged("us", None), templates |-> {}]
s2 == [id |-> "s2", label |-> "B", tags |-> Tagged(None, "residential"),
       templates |-> {"country", "session"}]
r1 == [id |-> "r1", label |-> "A", tags |-> Tagged("us", None), templates |-> {}]
r2 == [id |-> "r2", label |-> "C", tags |-> Tagged("de", "residential"), templates |-> {}]

MCStatic == <<s1, s2>>
MCRows   == {r1, r2}

Selects(country, type, session, chain) ==
    [want |-> Tagged(country, type), session |-> session, chain |-> chain]

Nothing == Selects(<<>>, <<>>, None, None)
US      == Selects(<<"us">>, <<>>, None, None)
DE      == Selects(<<"de">>, <<>>, None, None)
Mobile  == Selects(<<"us">>, <<"mobile">>, None, None)
Pinned  == Selects(<<"us", "de">>, <<>>, "s", None)
Either  == Selects(<<"us", "de">>, <<"residential">>, None, None)
Sticky  == Selects(<<>>, <<>>, "s", None)
Ref(n)  == Selects(<<"de">>, <<>>, None, n)

Asks(proto, login, tokens, peer) ==
    [proto |-> proto, login |-> login, tokens |-> tokens, peer |-> peer]

\* Three accounts.  The address p is in the networks of the first two, which
\* have different defaults; q in those of the last two; and r in none.  The last
\* two have the same user name and password.
MCLogins == {"ann", "bob", "eve"}
MCPeers  == {"p", "q", "r"}
MCListed == <<[login |-> "ann", nets |-> {"p"}, default |-> DE],
              [login |-> "bob", nets |-> {"p", "q"}, default |-> Sticky],
              [login |-> "bob", nets |-> {"q"}, default |-> US]>>

\* Every kind of selection, by both ways in, with and without defaults.
MCRequests ==
    {Asks("other", "ann", t, "r") : t \in {Either, Mobile, Ref("A"), Ref("strict")}}
    \cup {Asks("socks5", "ann", t, "p") : t \in {Pinned, Nothing, Ref("B")}}
    \cup {Asks("other", None, Nothing, peer) : peer \in MCPeers}
    \cup {Asks("socks5", "bob", DE, "q"), Asks("other", "eve", Nothing, "q")}

\* The same pinned selection by both ways in.
PinnedRequests == {Asks(p, "ann", Pinned, "r") : p \in {"other", "socks5"}}

\* Credentials of an account with a default, from an address of none.
DefaultRequests == {Asks("other", "ann", Nothing, "r")}
===============================================================================
