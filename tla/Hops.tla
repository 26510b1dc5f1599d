---------------------------------- MODULE Hops ----------------------------------
(***************************************************************************)
(* The conversation with one hop, an upstream proxy that speaks SOCKS5,    *)
(* SOCKS4 or HTTP CONNECT: what the router asks and how it reads the       *)
(* answers.  src/protocols/chain.rs holds it once; the handlers of         *)
(* socks4.rs, http.rs and https.rs repeat it for a single hop.  Chain and  *)
(* Inbound extend this module.                                             *)
(*                                                                         *)
(* The stream carries no message boundaries.  What the hop, and after it   *)
(* the target, have sent and the router has not read is `wire`, a sequence *)
(* of units: a byte in hexadecimal, or a run of bytes that is only ever    *)
(* skipped or searched.  A read_exact is one step once enough units are    *)
(* there; a plain read returns any part that has arrived.                  *)
(*                                                                         *)
(* Hops answer what they are asked or not at all; whatever they answer     *)
(* ends where their protocol says it ends.  Credentials are shorter than   *)
(* 256 bytes.  The byte counters are left out.                             *)
(***************************************************************************)
EXTENDS Naturals, Sequences, SequencesExt

CONSTANTS
    Nobody,          \* no request is outstanding
    MaxSaid          \* bound: units the target sends

Hop == [kind   : {"socks5", "socks4", "http"},
        auth   : BOOLEAN,     \* a user name and a password are configured
        parses : BOOLEAN]     \* parse_address accepts its address

VARIABLES
    wait,            \* what the router waits for, or the outcome
    request,         \* what the hop has been asked and not answered
    wire,            \* units sent by the far end and not read
    at,              \* where the stream ends
    closed,          \* the stream has been closed from the other side
    said             \* units the target has sent

Replies  == {"method", "verdict", "header", "length", "address", "granted", "status"}
Outcomes == {"open", "failed"}

Goes(reply, asked) ==
    /\ wait' = reply
    /\ request' = asked

Greeting == [ask |-> "greeting"]
Login    == [ask |-> "credentials"]
Connect(name) == [ask |-> "connect", to |-> name]

\* The first thing a hop is asked.
Asks(h, name) ==
    CASE h.kind = "socks5" -> Goes("method", Greeting)
      [] h.kind = "socks4" -> Goes("granted", Connect(name))
      [] h.kind = "http"   -> Goes("status", Connect(name))

-------------------------------------------------------------------------------

\* The hop's answer, sent as a whole and arriving in pieces.
Answers(units) ==
    /\ ~closed
    /\ wire' = wire \o units
    /\ request' = Nobody
    /\ UNCHANGED <<wait, closed, said>>

Asked(ask) == request # Nobody /\ request.ask = ask

\* A method, offered or not, or none.
ChoosesMethod(m) ==
    /\ Asked("greeting")
    /\ Answers(<<"05", m>>)
    /\ UNCHANGED at

JudgesCredentials(v) ==
    /\ Asked("credentials")
    /\ Answers(<<"01", v>>)
    /\ UNCHANGED at

Address(type) == CASE type = "03" -> <<"length", "address">>
                   [] type \in {"01", "04"} -> <<"address">>
                   [] OTHER -> <<>>

\* A reply to CONNECT, with a code or a phrase and, from SOCKS5, an address.
Reply(kind, code, type) ==
    CASE kind = "socks5" -> <<"05", code, type>> \o Address(type)
      [] kind = "socks4" -> <<"00", code>>
      [] kind = "http"   -> <<"HTTP/1.1", code, "CRLF">>

Success(kind) == CASE kind = "socks5" -> "00"
                   [] kind = "socks4" -> "5A"
                   [] kind = "http"   -> "200 Connection Established"

\* The hop connects and says so, in the words the router looks for or in others.
Connects(h, type, worded) ==
    /\ Asked("connect")
    /\ h.kind # "http" => worded
    /\ at' = request.to
    /\ Answers(Reply(h.kind, IF worded THEN Success(h.kind) ELSE "200 OK", type))

Refuses(h) ==
    /\ Asked("connect")
    /\ Answers(Reply(h.kind, "FF", "01"))
    /\ UNCHANGED at

\* The target speaks, as soon as it is connected.
Speaks(target) ==
    /\ at = target /\ ~closed
    /\ said < MaxSaid
    /\ wire' = Append(wire, "data")
    /\ said' = said + 1
    /\ UNCHANGED <<wait, request, at, closed>>

Closes ==
    /\ ~closed
    /\ closed' = TRUE
    /\ UNCHANGED <<wait, request, wire, at, said>>

\* What the hop may answer next, if it answers.
FarEnd(h) ==
    \/ \E m \in {"00", "02", "FF"} : ChoosesMethod(m)
    \/ \E v \in {"00", "FF"} : JudgesCredentials(v)
    \/ \E type \in {"01", "03", "04", "FF"}, worded \in BOOLEAN : Connects(h, type, worded)
    \/ Refuses(h)

-------------------------------------------------------------------------------

\* read_exact of n units.
Takes(reply, n) ==
    /\ wait = reply
    /\ Len(wire) >= n
    /\ wire' = SubSeq(wire, n + 1, Len(wire))
    /\ UNCHANGED <<at, closed, said>>

\* Mutation of ReadMethod: the request is sent along with the credentials.
ReadMethodHastily(h, name) ==
    /\ Takes("method", 2)
    /\ CASE wire[2] = "02" /\ h.auth -> Goes("header", Login)
         [] wire[2] = "00" -> Goes("header", Connect(name))
         [] OTHER -> Goes("failed", request)

ReadMethod(h, name) ==
    /\ Takes("method", 2)
    /\ CASE wire[2] = "02" /\ h.auth -> Goes("verdict", Login)
         [] wire[2] = "00" -> Goes("header", Connect(name))
         [] OTHER -> Goes("failed", request)

ReadVerdict(name) ==
    /\ Takes("verdict", 2)
    /\ IF wire[2] = "00" THEN Goes("header", Connect(name)) ELSE Goes("failed", request)

\* Mutation of ReadHeader: the code of the reply is not looked at.
ReadHeaderBlindly ==
    /\ Takes("header", 3)
    /\ CASE wire[3] = "03" -> Goes("length", request)
         [] wire[3] \in {"01", "04"} -> Goes("address", request)
         [] OTHER -> Goes("failed", request)

\* The address that follows is skipped; that of a host name has a length first.
ReadHeader ==
    /\ Takes("header", 3)
    /\ CASE wire[2] # "00" -> Goes("failed", request)
         [] wire[2] = "00" /\ wire[3] = "03" -> Goes("length", request)
         [] wire[2] = "00" /\ wire[3] \in {"01", "04"} -> Goes("address", request)
         [] OTHER -> Goes("failed", request)

\* Mutation of ReadLength: the length is taken for the address.
ReadLengthOnly == Takes("length", 1) /\ Goes("next", request)

ReadLength == Takes("length", 1) /\ Goes("address", request)

ReadAddress == Takes("address", 1) /\ Goes("next", request)

ReadGranted ==
    /\ Takes("granted", 2)
    /\ IF wire[2] = "5A" THEN Goes("next", request) ELSE Goes("failed", request)

\* One read of whatever has arrived, searched for the phrase.
ReadStatus ==
    \E n \in 1 .. Len(wire) :
        /\ Takes("status", n)
        /\ IF "200 Connection Established" \in ToSet(SubSeq(wire, 1, n))
           THEN Goes("next", request) ELSE Goes("failed", request)

\* Mutation of Breaks: a read of nothing is repeated.
BreaksUnlessHttp ==
    /\ closed
    /\ wait \in Replies \ {"status"}
    /\ wait' = "failed"
    /\ UNCHANGED <<request, wire, at, closed, said>>

\* The stream ends, or is reset, before what is waited for has been read.
Breaks ==
    /\ closed
    /\ wait \in Replies
    /\ wait' = "failed"
    /\ UNCHANGED <<request, wire, at, closed, said>>

\* Reading what a SOCKS5 hop answers on the way to the name it is asked for.
ReadsSocks5(h, name) ==
    \/ ReadMethod(h, name) \/ ReadVerdict(name)
    \/ ReadHeader \/ ReadLength \/ ReadAddress

Reads(h, name) == ReadsSocks5(h, name) \/ ReadGranted \/ ReadStatus

-------------------------------------------------------------------------------

\* The router waits only for replies to what it has asked.
Awaited(ask) ==
    CASE ask = "greeting"    -> {"method"}
      [] ask = "credentials" -> {"verdict"}
      [] ask = "connect"     -> {"header", "granted", "status"}
===============================================================================
