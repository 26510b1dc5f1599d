------------------------------ MODULE ChainProofs ------------------------------
(***************************************************************************)
(* The connector of chains, for every set of chains, every target and any  *)
(* amount of what the target says.                                         *)
(*                                                                         *)
(* What keeps the conversation in step is an invariant about the bytes on  *)
(* their way.  While a hop has not answered, nothing is on its way but the *)
(* end of a reply that an HTTP hop before it has left over; once it has,   *)
(* there is the answer to what the router waits for and, behind it, what   *)
(* the target has said.  So what is left when a SOCKS reply has been read  *)
(* is what the target has said, and a reply is taken for a success only    *)
(* when the stream has reached what the hop was asked for.                 *)
(***************************************************************************)
EXTENDS Chain, SequenceTheorems, TLAPS

\* What the target has said when it has said n units.
Data(n) == [k \in 1 .. n |-> "data"]

\* What an HTTP hop may have left over, unread.
Rests == {<<>>, <<"CRLF">>}

\* Where the stream ends when hop i has done what it was asked for.
Reached(i) == IF i = 0 THEN 1 ELSE Named(i)

Unanswered(req) == request = req /\ at = hop
Refused  == request = Nobody /\ at = hop
Accepted == request = Nobody /\ at = Named(hop)

\* The words in which an HTTP hop says that it has connected.
Phrases == {"200 Connection Established", "200 OK"}

\* Everything hops and the target send.
Units == {"00", "01", "02", "03", "04", "05", "5A", "FF", "length", "address",
          "HTTP/1.1", "CRLF", "data"} \cup Phrases

Types   == {"01", "03", "04", "FF"}
Methods == {"00", "02", "FF"}

AtMethod == \E l \in Rests :
    \/ Unanswered(Greeting) /\ wire = l
    \/ Refused /\ \E m \in Methods : wire = l \o <<"05", m>>

AtVerdict ==
    \/ Unanswered(Login) /\ wire = <<>>
    \/ Refused /\ \E v \in {"00", "FF"} : wire = <<"01", v>>

AtHeader ==
    \/ Unanswered(Connect(Named(hop))) /\ wire = <<>>
    \/ Refused /\ wire = <<"05", "FF", "01">> \o <<"address">>
    \/ Accepted /\ \E type \in Types :
          wire = <<"05", "00", type>> \o (Address(type) \o Data(said))

AtLength  == Accepted /\ wire = <<"length">> \o (<<"address">> \o Data(said))
AtAddress == Accepted /\ wire = <<"address">> \o Data(said)

AtGranted == \E l \in Rests :
    \/ Unanswered(Connect(Named(hop))) /\ wire = l
    \/ Refused /\ wire = l \o <<"00", "FF">>
    \/ Accepted /\ wire = (l \o <<"00", "5A">>) \o Data(said)

AtStatus == \E l \in Rests :
    \/ Unanswered(Connect(Named(hop))) /\ wire = l
    \/ Refused /\ wire = l \o <<"HTTP/1.1", "FF", "CRLF">>
    \/ Accepted /\ \E code \in Phrases :
          wire = (l \o <<"HTTP/1.1", code, "CRLF">>) \o Data(said)

AtEnd ==
    /\ request = Nobody /\ at = Reached(hop) /\ Len(chain) > 0
    /\ hop < Len(chain) => wire \in Rests
    /\ hop = Len(chain) /\ chain[hop].kind # "http" => wire = Data(said)

\* The kind of hop that a reply is awaited from.
Speaker(reply) == CASE reply = "granted" -> "socks4"
                    [] reply = "status"  -> "http"
                    [] OTHER             -> "socks5"

InStep ==
    /\ wait = "method"  => AtMethod
    /\ wait = "verdict" => AtVerdict
    /\ wait = "header"  => AtHeader
    /\ wait = "length"  => AtLength
    /\ wait = "address" => AtAddress
    /\ wait = "granted" => AtGranted
    /\ wait = "status"  => AtStatus
    /\ wait \in {"next", "open"} => AtEnd

Placed ==
    /\ wait = "dial" => hop = 0 /\ at = 0 /\ request = Nobody /\ wire = <<>>
    /\ wait \in Replies => hop > 0 /\ chain[hop].kind = Speaker(wait)
    /\ wait = "open" => hop = Len(chain)
    /\ request # Nobody =>
          /\ hop > 0 /\ at = hop
          /\ request.ask = "connect" => request = Connect(Named(hop))
    /\ said > 0 => at = Target

ChainInv == TypeOK /\ wire \in Seq(Units) /\ Placed /\ InStep

-------------------------------------------------------------------------------

LEMMA DataType ==
    ASSUME NEW n \in Nat
    PROVE  Data(n) \in Seq(Units) /\ Len(Data(n)) = n
  <1> DEFINE unit == "data"
             d    == [k \in 1 .. n |-> unit]
  <1>1. unit \in Units
    BY DEF Units
  <1> HIDE DEF unit
  <1>2. d \in Seq(Units) /\ Len(d) = n
    BY <1>1
  <1> QED
    BY <1>2 DEF Data, unit

LEMMA NoData == Data(0) = <<>>
  BY DEF Data

\* Reading the units u of u \o t leaves t (src/protocols/chain.rs:115-190, every
\* read_exact).
LEMMA Cut ==
    ASSUME NEW u \in Seq(Units), NEW t \in Seq(Units)
    PROVE  /\ u \o t \in Seq(Units)
           /\ Len(u \o t) = Len(u) + Len(t)
           /\ \A i \in 1 .. Len(u) : (u \o t)[i] = u[i]
           /\ SubSeq(u \o t, Len(u) + 1, Len(u \o t)) = t
  <1>1. /\ u \o t \in Seq(Units) /\ Len(u) \in Nat /\ Len(t) \in Nat
        /\ Len(u \o t) = Len(u) + Len(t)
        /\ \A i \in 1 .. Len(u) + Len(t) :
              (u \o t)[i] = IF i <= Len(u) THEN u[i] ELSE t[i - Len(u)]
    BY ConcatProperties
  <1>2. \A i \in 1 .. Len(u) : (u \o t)[i] = u[i]
    BY <1>1
  <1> DEFINE whole == u \o t
             m == Len(u) + 1
             n == Len(u) + Len(t)
             rest == SubSeq(whole, m, n)
  <1>3. rest = t
    <2>1. \A i \in m .. n : whole[i] \in Units
      BY <1>1
    <2>2. m \in Int /\ n \in Int
      BY <1>1
    <2> HIDE DEF m, n, whole
    <2>3. /\ rest \in Seq(Units)
          /\ Len(rest) = IF m <= n THEN n - m + 1 ELSE 0
          /\ \A i \in 1 .. n - m + 1 : rest[i] = whole[m + i - 1]
      BY <2>1, <2>2, SubSeqProperties
    <2> HIDE DEF rest
    <2>4. Len(rest) = Len(t)
      BY <1>1, <2>3 DEF m, n
    <2>5. \A i \in 1 .. Len(rest) : rest[i] = t[i]
      <3> SUFFICES ASSUME NEW i \in 1 .. Len(t) PROVE rest[i] = t[i]
        BY <2>4
      <3>1. i \in 1 .. n - m + 1 /\ m + i - 1 = Len(u) + i
        BY <1>1 DEF m, n
      <3>2. rest[i] = whole[Len(u) + i]
        BY <2>3, <3>1
      <3>3. /\ Len(u) + i \in 1 .. Len(u) + Len(t) /\ ~(Len(u) + i <= Len(u))
            /\ Len(u) + i - Len(u) = i
        BY <1>1
      <3> QED
        BY <1>1, <3>2, <3>3 DEF whole
    <2> QED
      BY <2>3, <2>4, <2>5, SeqEqual
  <1> QED
    BY <1>1, <1>2, <1>3

\* What the target says goes behind everything else.
LEMMA DataGrows ==
    ASSUME NEW u \in Seq(Units), NEW n \in Nat
    PROVE  Append(u \o Data(n), "data") = u \o Data(n + 1)
  <1> DEFINE unit == "data"
             one  == <<unit>>
  <1>1. unit \in Units
    BY DEF Units
  <1>2. Data(n) \in Seq(Units) /\ Data(n + 1) \in Seq(Units) /\ Len(Data(n)) = n
    BY DataType
  <1>3. Data(n + 1) = Append(Data(n), unit)
    <2>1. /\ Append(Data(n), unit) \in Seq(Units) /\ Len(Append(Data(n), unit)) = n + 1
          /\ \A i \in 1 .. n : Append(Data(n), unit)[i] = Data(n)[i]
          /\ Append(Data(n), unit)[n + 1] = unit
      BY <1>1, <1>2, AppendProperties
    <2>2. Len(Data(n + 1)) = n + 1
      BY DataType
    <2>3. \A i \in 1 .. n + 1 : Data(n + 1)[i] = unit
      BY DEF Data
    <2>4. \A i \in 1 .. n : Data(n)[i] = unit
      BY DEF Data
    <2> HIDE DEF unit
    <2>5. \A i \in 1 .. n + 1 : Data(n + 1)[i] = Append(Data(n), unit)[i]
      BY <2>1, <2>3, <2>4
    <2> QED
      BY <1>2, <2>1, <2>2, <2>5, SeqEqual
  <1> HIDE DEF unit
  <1>4. one \in Seq(Units)
    BY <1>1
  <1>5. Data(n + 1) = Data(n) \o one
    BY <1>1, <1>2, <1>3, AppendIsConcat
  <1>6. u \o Data(n) \in Seq(Units)
    BY <1>2, ConcatProperties
  <1>7. Append(u \o Data(n), unit) = (u \o Data(n)) \o one
    BY <1>1, <1>6, AppendIsConcat
  <1> HIDE DEF one
  <1>8. (u \o Data(n)) \o one = u \o (Data(n) \o one)
    BY <1>2, <1>4, ConcatAssociative
  <1> QED
    BY <1>5, <1>7, <1>8 DEF unit

\* Short sequences of units.
LEMMA Tuples ==
    /\ \A a \in Units : <<a>> \in Seq(Units) /\ Len(<<a>>) = 1
    /\ \A a, b \in Units : <<a, b>> \in Seq(Units) /\ Len(<<a, b>>) = 2
    /\ \A a, b, c \in Units : <<a, b, c>> \in Seq(Units) /\ Len(<<a, b, c>>) = 3
  OBVIOUS

LEMMA UnitsHold ==
    /\ Methods \subseteq Units /\ Types \subseteq Units /\ Phrases \subseteq Units
    /\ {"00", "01", "02", "03", "04", "05", "5A", "FF", "length", "address", "HTTP/1.1",
        "CRLF", "data"} \subseteq Units
    /\ Rests \subseteq Seq(Units)
    /\ \A type \in Types : Address(type) \in Seq(Units)
  <1>1. /\ Methods \subseteq Units /\ Types \subseteq Units /\ Phrases \subseteq Units
        /\ {"00", "01", "02", "03", "04", "05", "5A", "FF", "length", "address", "HTTP/1.1",
            "CRLF", "data"} \subseteq Units
    BY DEF Methods, Types, Phrases, Units
  <1>2. /\ <<>> \in Seq(Units) /\ <<"CRLF">> \in Seq(Units)
        /\ <<"address">> \in Seq(Units) /\ <<"length", "address">> \in Seq(Units)
    BY <1>1, Tuples
  <1>3. Rests \subseteq Seq(Units)
    BY <1>2 DEF Rests
  <1>4. \A type \in Types : Address(type) \in Seq(Units)
    BY <1>2 DEF Types, Address
  <1> QED
    BY <1>1, <1>3, <1>4

\* An answer u behind what an HTTP hop has left over: of the second unit the
\* router sees u[2] or u[1].
LEMMA BehindARest ==
    ASSUME NEW l \in Rests, NEW u \in Seq(Units)
    PROVE  /\ l \o u \in Seq(Units)
           /\ l = <<>> => l \o u = u
           /\ l = <<"CRLF">> => /\ Len(l \o u) = Len(u) + 1
                                /\ (l \o u)[1] = "CRLF"
                                /\ \A i \in 1 .. Len(u) : (l \o u)[i + 1] = u[i]
  <1>1. l \in Seq(Units) /\ Len(u) \in Nat
    BY UnitsHold
  <1>2. l \o u \in Seq(Units)
    BY <1>1, ConcatProperties
  <1>3. l = <<>> => l \o u = u
    BY <1>1, ConcatEmptySeq
  <1>4. ASSUME l = <<"CRLF">>
        PROVE  /\ Len(l \o u) = Len(u) + 1
               /\ (l \o u)[1] = "CRLF"
               /\ \A i \in 1 .. Len(u) : (l \o u)[i + 1] = u[i]
    <2>1. Len(l) = 1 /\ l[1] = "CRLF"
      BY <1>4
    <2>2. /\ Len(l \o u) = 1 + Len(u)
          /\ \A i \in 1 .. 1 + Len(u) :
                (l \o u)[i] = IF i <= 1 THEN l[i] ELSE u[i - 1]
      <3>1. /\ Len(l \o u) = Len(l) + Len(u)
            /\ \A i \in 1 .. Len(l) + Len(u) :
                  (l \o u)[i] = IF i <= Len(l) THEN l[i] ELSE u[i - Len(l)]
        BY <1>1, ConcatProperties
      <3> QED
        BY <2>1, <3>1
    <2> DEFINE w == l \o u
    <2> HIDE DEF w
    <2>3. ASSUME NEW i \in 1 .. Len(u)
          PROVE  w[i + 1] = u[i]
      <3>1. i + 1 \in 1 .. 1 + Len(u) /\ ~(i + 1 <= 1) /\ (i + 1) - 1 = i
        BY <1>1
      <3> QED
        BY <2>2, <3>1 DEF w
    <2>4. w[1] = "CRLF"
      BY <1>1, <2>1, <2>2 DEF w
    <2> QED
      BY <1>1, <2>2, <2>3, <2>4 DEF w
  <1> QED
    BY <1>2, <1>3, <1>4

\* Positions along the chain.
LEMMA Positions ==
    ASSUME TypeOK
    PROVE  /\ chain \in Seq(Hop) /\ Len(chain) \in Nat /\ hop \in 0 .. Len(chain)
           /\ Target = Len(chain) + 1 /\ Elsewhere = Len(chain) + 2
           /\ \A i \in 1 .. Len(chain) :
                 /\ chain[i] \in Hop
                 /\ Named(i) \in 1 .. Elsewhere /\ Named(i) # i
                 /\ i < Len(chain) => Named(i) = i + 1
                 /\ i = Len(chain) => Named(i) \in {Target, Elsewhere}
                 /\ i = Len(chain) /\ chain[i].kind # "socks5" => Named(i) = Target
  <1>1. chain \in Seq(Hop) /\ Len(chain) \in Nat /\ hop \in 0 .. Len(chain)
    BY ChainAssumption DEF TypeOK
  <1>2. \A i \in 1 .. Len(chain) : chain[i] \in Hop
    BY <1>1
  <1> QED
    BY <1>1, <1>2 DEF Named, Target, Elsewhere

\* Requests and their absence are told apart.
LEMMA RequestsApart ==
    /\ Greeting # Nobody /\ Greeting.ask = "greeting"
    /\ Login # Nobody /\ Login.ask = "credentials"
    /\ \A i \in Nat : Connect(i) # Nobody /\ Connect(i).ask = "connect" /\ Connect(i).to = i
  BY ChainAssumption DEF Greeting, Login, Connect

\* A reply has been read, and what is awaited next is in step.
LEMMA GoesOn ==
    ASSUME ChainInv, wait \in Replies, wire' \in Seq(Units),
           UNCHANGED <<chain, target, hop, at, closed, said>>,
           \/ wait' = "failed" /\ request' = request
           \/ /\ wait' \in Replies /\ Speaker(wait') = Speaker(wait)
              /\ request' \in {Login, Connect(Named(hop))} /\ wait' \in Awaited(request'.ask)
              /\ at = hop /\ InStep'
           \/ wait' \in Replies /\ Speaker(wait') = Speaker(wait) /\ request' = Nobody /\ InStep'
           \/ wait' = "next" /\ request' = Nobody /\ InStep'
    PROVE  ChainInv'
  <1>1. /\ hop \in 1 .. Len(chain) /\ Named(hop) \in 1 .. Elsewhere /\ Elsewhere \in Nat
        /\ chain[hop].kind = Speaker(wait)
    BY Positions DEF ChainInv, Placed
  <1>2. Named(hop)' = Named(hop) /\ Elsewhere' = Elsewhere /\ Target' = Target
    BY DEF Named, Elsewhere, Target
  <1>3. Named(hop) \in Nat
    BY <1>1
  <1>4. /\ request' # Nobody => request' \in Requests
        /\ request' # Nobody => wait' \in Awaited(request'.ask) \cup {"failed"}
    BY <1>1 DEF ChainInv, TypeOK, Requests
  <1>5. wait' \in {"dial", "next"} \cup Replies \cup Outcomes
    BY DEF Outcomes
  <1>6. Requests' = Requests
    BY <1>2 DEF Requests
  <1>7. TypeOK'
    BY <1>2, <1>4, <1>5, <1>6 DEF ChainInv, TypeOK
  <1>8. Placed'
    <2>1. wait' \in Replies => chain[hop].kind = Speaker(wait')
      BY <1>1 DEF Replies
    <2>2. request' # Nobody =>
             /\ at = hop
             /\ request'.ask = "connect" => request' = Connect(Named(hop))
      BY <1>3, RequestsApart DEF ChainInv, Placed
    <2>3. wait' # "dial" /\ wait' # "open"
      BY DEF Replies
    <2> QED
      BY <1>1, <1>2, <2>1, <2>2, <2>3 DEF ChainInv, Placed
  <1>9. InStep'
    BY DEF InStep
  <1> QED
    BY <1>7, <1>8, <1>9 DEF ChainInv

\* Nothing is left of a method or a verdict once it has been read.
LEMMA NothingLeft ==
    ASSUME NEW a \in Units, NEW b \in Units
    PROVE  SubSeq(<<a, b>>, 2 + 1, Len(<<a, b>>)) = <<>>
  <1>1. Len(<<a, b>>) = 2
    OBVIOUS
  <1> QED
    BY <1>1, SubSeqEmpty

\* What a read leaves on the wire is a sequence of units.
LEMMA LeftOver ==
    ASSUME wire \in Seq(Units), NEW n \in Nat
    PROVE  SubSeq(wire, n + 1, Len(wire)) \in Seq(Units)
  <1>1. \A i \in n + 1 .. Len(wire) : wire[i] \in Units
    BY LenProperties
  <1>2. n + 1 \in Int /\ Len(wire) \in Int
    BY LenProperties
  <1> QED
    BY <1>1, <1>2, SubSeqProperties

LEMMA ReadMethodKeepsInv ==
    ASSUME ChainInv, ReadMethod(chain[hop], Named(hop)), UNCHANGED <<chain, target, hop>>
    PROVE  ChainInv'
  <1>1. /\ wait = "method" /\ AtMethod /\ Len(wire) >= 2
        /\ UNCHANGED <<at, closed, said>>
        /\ wire' = SubSeq(wire, 2 + 1, Len(wire))
    BY DEF ReadMethod, Takes, ChainInv, InStep
  <1>2. wire' \in Seq(Units)
    BY <1>1, LeftOver DEF ChainInv
  <1>3. \/ wait' = "verdict" /\ request' = Login /\ wire[2] = "02"
        \/ wait' = "header" /\ request' = Connect(Named(hop)) /\ wire[2] = "00"
        \/ wait' = "failed" /\ request' = request
    BY DEF ReadMethod, Goes
  <1>4. PICK l \in Rests :
           \/ wire = l
           \/ at = hop /\ \E m \in Methods : wire = l \o <<"05", m>>
    BY <1>1 DEF AtMethod, Refused, Unanswered
  <1>5. wire # l
    <2>1. Len(<<>>) = 0 /\ Len(<<"CRLF">>) = 1
      OBVIOUS
    <2>2. Len(l) \in {0, 1}
      BY <2>1 DEF Rests
    <2> QED
      BY <1>1, <2>2
  <1>6. PICK m \in Methods : at = hop /\ wire = l \o <<"05", m>>
    BY <1>4, <1>5
  <1>7. <<"05", m>> \in Seq(Units) /\ "05" \in Units /\ m \in Units /\ Len(<<"05", m>>) = 2
    BY UnitsHold, Tuples
  <1>8. CASE l = <<"CRLF">>
    <2>1. wire[1 + 1] = <<"05", m>>[1]
      BY <1>6, <1>7, <1>8, BehindARest
    <2>2. wait' = "failed" /\ request' = request
      BY <1>3, <2>1
    <2> QED
      BY <1>1, <1>2, <2>2, GoesOn DEF Replies
  <1>9. CASE l = <<>>
    <2>1. wire = <<"05", m>>
      BY <1>6, <1>7, <1>9, BehindARest
    <2>2. wire' = <<>>
      BY <1>1, <1>7, <2>1, NothingLeft
    <2>3. wait' = "verdict" => AtVerdict'
      BY <1>1, <1>3, <1>6, <2>2 DEF AtVerdict, Unanswered
    <2>4. wait' = "header" => AtHeader'
      <3>1. Named(hop)' = Named(hop)
        BY DEF Named, Target, Elsewhere
      <3> QED
        BY <1>1, <1>3, <1>6, <2>2, <3>1 DEF AtHeader, Unanswered
    <2>5. wait' # "failed" => InStep'
      BY <1>3, <2>3, <2>4 DEF InStep
    <2>6. /\ Speaker("verdict") = Speaker("method") /\ Speaker("header") = Speaker("method")
          /\ "verdict" \in Awaited("credentials") /\ "header" \in Awaited("connect")
          /\ Login.ask = "credentials" /\ Connect(Named(hop)).ask = "connect"
      BY DEF Speaker, Awaited, Login, Connect
    <2> QED
      BY <1>1, <1>2, <1>3, <1>6, <2>5, <2>6, GoesOn DEF Replies
  <1> QED
    BY <1>8, <1>9 DEF Rests

LEMMA ReadVerdictKeepsInv ==
    ASSUME ChainInv, ReadVerdict(Named(hop)), UNCHANGED <<chain, target, hop>>
    PROVE  ChainInv'
  <1>1. /\ wait = "verdict" /\ AtVerdict /\ Len(wire) >= 2
        /\ UNCHANGED <<at, closed, said>>
        /\ wire' = SubSeq(wire, 2 + 1, Len(wire))
    BY DEF ReadVerdict, Takes, ChainInv, InStep
  <1>2. wire' \in Seq(Units)
    BY <1>1, LeftOver DEF ChainInv
  <1>3. \/ wait' = "header" /\ request' = Connect(Named(hop))
        \/ wait' = "failed" /\ request' = request
    BY DEF ReadVerdict, Goes
  <1>4. PICK v \in {"00", "FF"} : at = hop /\ wire = <<"01", v>>
    BY <1>1 DEF AtVerdict, Refused
  <1>5. wire' = <<>>
    BY <1>1, <1>4, UnitsHold, NothingLeft
  <1>6. wait' = "header" => AtHeader'
    <2>1. Named(hop)' = Named(hop)
      BY DEF Named, Target, Elsewhere
    <2> QED
      BY <1>1, <1>3, <1>4, <1>5, <2>1 DEF AtHeader, Unanswered
  <1>7. wait' # "failed" => InStep'
    BY <1>3, <1>6 DEF InStep
  <1>8. /\ Speaker("header") = Speaker("verdict") /\ "header" \in Awaited("connect")
        /\ Connect(Named(hop)).ask = "connect"
    BY DEF Speaker, Awaited, Connect
  <1> QED
    BY <1>1, <1>2, <1>3, <1>4, <1>7, <1>8, GoesOn DEF Replies

\* A host name's length goes before it.
LEMMA LengthFirst ==
    ASSUME NEW d \in Seq(Units)
    PROVE  <<"length", "address">> \o d = <<"length">> \o (<<"address">> \o d)
  <1> DEFINE u == "length"
             v == "address"
             one == <<u>>
             two == <<v>>
  <1>1. u \in Units /\ v \in Units
    BY UnitsHold
  <1> HIDE DEF u, v
  <1>2. /\ one \in Seq(Units) /\ Len(one) = 1 /\ one[1] = u
        /\ two \in Seq(Units) /\ Len(two) = 1 /\ two[1] = v
    BY <1>1
  <1> DEFINE both == <<u, v>>
  <1>3. both \in Seq(Units) /\ Len(both) = 2 /\ both[1] = u /\ both[2] = v
    BY <1>1
  <1> HIDE DEF one, two, both
  <1>4. /\ one \o two \in Seq(Units) /\ Len(one \o two) = 2
        /\ (one \o two)[1] = u /\ (one \o two)[2] = v
    <2>1. /\ one \o two \in Seq(Units) /\ Len(one \o two) = Len(one) + Len(two)
          /\ \A i \in 1 .. Len(one) + Len(two) :
                (one \o two)[i] = IF i <= Len(one) THEN one[i] ELSE two[i - Len(one)]
      BY <1>2, ConcatProperties
    <2> QED
      BY <1>2, <2>1
  <1>5. one \o two = both
    <2>1. \A i \in 1 .. Len(both) : (one \o two)[i] = both[i]
      BY <1>3, <1>4
    <2> QED
      BY <1>3, <1>4, <2>1, SeqEqual
  <1>6. one \in Seq(Units) /\ two \in Seq(Units)
    BY <1>2
  <1>7. (one \o two) \o d = one \o (two \o d)
    BY <1>6, ConcatAssociative
  <1> QED
    BY <1>5, <1>7 DEF one, two, both, u, v

LEMMA ReadHeaderKeepsInv ==
    ASSUME ChainInv, ReadHeader, UNCHANGED <<chain, target, hop>>
    PROVE  ChainInv'
  <1>1. /\ wait = "header" /\ AtHeader /\ Len(wire) >= 3
        /\ UNCHANGED <<at, closed, said>>
        /\ wire' = SubSeq(wire, 3 + 1, Len(wire))
    BY DEF ReadHeader, Takes, ChainInv, InStep
  <1>2. wire' \in Seq(Units)
    BY <1>1, LeftOver DEF ChainInv
  <1>3. request' = request
    BY DEF ReadHeader, Goes
  <1>4. CASE wait' = "failed"
    BY <1>1, <1>2, <1>3, <1>4, GoesOn DEF Replies
  <1>5. CASE wait' # "failed"
    <2>1. \/ wait' = "length" /\ wire[2] = "00" /\ wire[3] = "03"
          \/ wait' = "address" /\ wire[2] = "00" /\ wire[3] \in {"01", "04"}
      BY <1>5 DEF ReadHeader, Goes
    <2>2. ~(Unanswered(Connect(Named(hop))) /\ wire = <<>>)
      BY <1>1
    <2>3. ~(Refused /\ wire = <<"05", "FF", "01">> \o <<"address">>)
      <3> DEFINE u == <<"05", "FF", "01">>
                 t == <<"address">>
      <3>1. /\ u \in Seq(Units) /\ t \in Seq(Units) /\ Len(u) = 3 /\ u[2] = "FF"
        BY UnitsHold, Tuples
      <3> HIDE DEF u, t
      <3>2. \A i \in 1 .. Len(u) : (u \o t)[i] = u[i]
        BY <3>1, Cut
      <3> DEFINE w == u \o t
      <3>3. 2 \in 1 .. Len(u) /\ u[2] = "FF"
        BY <3>1
      <3>4. \A i \in 1 .. Len(u) : w[i] = u[i]
        BY <3>2
      <3> HIDE DEF w
      <3>5. w[2] = "FF"
        BY <3>3, <3>4
      <3> QED
        BY <2>1, <3>5 DEF u, t, w
    <2>4. PICK type \in Types :
             Accepted /\ wire = <<"05", "00", type>> \o (Address(type) \o Data(said))
      BY <1>1, <2>2, <2>3 DEF AtHeader
    <2>5. /\ type \in Units /\ Address(type) \in Seq(Units) /\ said \in Nat
          /\ Data(said) \in Seq(Units)
      BY UnitsHold, DataType DEF ChainInv, TypeOK
    <2> DEFINE u == <<"05", "00", type>>
               t == Address(type) \o Data(said)
    <2>6. t \in Seq(Units)
      BY <2>5, ConcatProperties
    <2>7. u \in Seq(Units) /\ Len(u) = 3 /\ u[3] = type
      BY <2>5, UnitsHold, Tuples
    <2>8. wire = u \o t
      BY <2>4
    <2> HIDE DEF u, t
    <2>9. wire[3] = type /\ wire' = t
      <3>1. /\ \A i \in 1 .. Len(u) : (u \o t)[i] = u[i]
            /\ SubSeq(u \o t, Len(u) + 1, Len(u \o t)) = t
        BY <2>6, <2>7, Cut
      <3> QED
        BY <1>1, <2>7, <2>8, <3>1
    <2>10. /\ wire' = Address(type) \o Data(said) /\ Data(said)' = Data(said)
           /\ request = Nobody /\ at = Named(hop) /\ Named(hop)' = Named(hop)
      BY <1>1, <2>4, <2>9 DEF t, Accepted, Data, Named, Target, Elsewhere
    <2>11. Accepted'
      BY <1>1, <1>3, <2>10 DEF Accepted
    <2>12. wait' = "length" => AtLength'
      <3> SUFFICES ASSUME wait' = "length" PROVE AtLength'
        OBVIOUS
      <3>1. Address(type) = <<"length", "address">>
        BY <2>1, <2>9 DEF Address
      <3>2. wire' = <<"length">> \o (<<"address">> \o Data(said))
        BY <2>5, <2>10, <3>1, LengthFirst
      <3> QED
        BY <2>10, <2>11, <3>2 DEF AtLength
    <2>13. wait' = "address" => AtAddress'
      <3> SUFFICES ASSUME wait' = "address" PROVE AtAddress'
        OBVIOUS
      <3>1. Address(type) = <<"address">>
        BY <2>1, <2>9 DEF Address
      <3> QED
        BY <2>10, <2>11, <3>1 DEF AtAddress
    <2>14. InStep'
      BY <2>1, <2>12, <2>13 DEF InStep
    <2>15. Speaker("length") = Speaker("header") /\ Speaker("address") = Speaker("header")
      BY DEF Speaker
    <2> QED
      BY <1>1, <1>2, <1>3, <2>1, <2>10, <2>14, <2>15, GoesOn DEF Replies
  <1> QED
    BY <1>4, <1>5

LEMMA ReadLengthKeepsInv ==
    ASSUME ChainInv, ReadLength, UNCHANGED <<chain, target, hop>>
    PROVE  ChainInv'
  <1>1. /\ wait = "length" /\ wait' = "address" /\ AtLength /\ request' = request
        /\ UNCHANGED <<at, closed, said>>
        /\ wire' = SubSeq(wire, 1 + 1, Len(wire))
    BY DEF ReadLength, Takes, Goes, ChainInv, InStep
  <1>2. wire' \in Seq(Units)
    BY <1>1, LeftOver DEF ChainInv
  <1> DEFINE u == <<"length">>
             t == <<"address">> \o Data(said)
  <1>3. u \in Seq(Units) /\ Len(u) = 1
    BY UnitsHold, Tuples
  <1>4. t \in Seq(Units)
    <2>1. <<"address">> \in Seq(Units) /\ Data(said) \in Seq(Units)
      BY UnitsHold, Tuples, DataType DEF ChainInv, TypeOK
    <2> QED
      BY <2>1, ConcatProperties
  <1>5. wire = u \o t
    BY <1>1 DEF AtLength
  <1> HIDE DEF u, t
  <1>6. wire' = t
    BY <1>1, <1>3, <1>4, <1>5, Cut
  <1>7. /\ Data(said)' = Data(said) /\ request = Nobody /\ at = Named(hop)
        /\ Named(hop)' = Named(hop)
    BY <1>1 DEF AtLength, Accepted, Data, Named, Target, Elsewhere
  <1>8. AtAddress'
    BY <1>1, <1>6, <1>7 DEF t, AtAddress, Accepted
  <1>9. InStep' /\ Speaker("address") = Speaker("length")
    BY <1>1, <1>8 DEF InStep, Speaker
  <1> QED
    BY <1>1, <1>2, <1>7, <1>9, GoesOn DEF Replies

\* A reply that says the hop has connected has been read to its end.
LEMMA Ended ==
    ASSUME ChainInv, wait \in Replies, wait' = "next", Accepted,
           UNCHANGED <<chain, target, hop, at, request, closed, said>>,
           NEW l \in Rests, wire' = l \o Data(said), Speaker(wait) # "http" => l = <<>>
    PROVE  ChainInv'
  <1>1. /\ hop \in 1 .. Len(chain) /\ Len(chain) \in Nat /\ chain[hop].kind = Speaker(wait)
        /\ Target = Len(chain) + 1 /\ said \in Nat
        /\ hop < Len(chain) => Named(hop) = hop + 1
    BY Positions DEF ChainInv, Placed, TypeOK
  <1>2. Data(said) \in Seq(Units) /\ l \in Seq(Units)
    BY <1>1, DataType, UnitsHold
  <1>3. wire' \in Seq(Units)
    BY <1>2, ConcatProperties
  <1>4. /\ at = Named(hop) /\ request = Nobody /\ Reached(hop)' = Named(hop)
        /\ Len(chain) > 0
    BY <1>1 DEF Accepted, Reached, Named, Target, Elsewhere
  <1>5. hop < Len(chain) => wire' \in Rests
    <2> SUFFICES ASSUME hop < Len(chain) PROVE wire' \in Rests
      OBVIOUS
    <2>1. said = 0
      BY <1>1, <1>4 DEF ChainInv, Placed
    <2>2. wire' = l
      BY <1>2, <2>1, NoData, ConcatEmptySeq
    <2> QED
      BY <2>2
  <1>6. chain[hop].kind # "http" => wire' = Data(said)
    BY <1>1, <1>2, ConcatEmptySeq
  <1>7. Data(said)' = Data(said)
    BY DEF Data
  <1>8. AtEnd'
    BY <1>4, <1>5, <1>6, <1>7 DEF AtEnd
  <1>9. InStep'
    BY <1>8 DEF InStep
  <1> QED
    BY <1>3, <1>4, <1>9, GoesOn

LEMMA ReadAddressKeepsInv ==
    ASSUME ChainInv, ReadAddress, UNCHANGED <<chain, target, hop>>
    PROVE  ChainInv'
  <1>1. /\ wait = "address" /\ wait' = "next" /\ AtAddress /\ request' = request
        /\ UNCHANGED <<at, closed, said>>
        /\ wire' = SubSeq(wire, 1 + 1, Len(wire))
    BY DEF ReadAddress, Takes, Goes, ChainInv, InStep
  <1> DEFINE u == <<"address">>
             t == Data(said)
  <1>2. u \in Seq(Units) /\ Len(u) = 1 /\ t \in Seq(Units)
    BY UnitsHold, Tuples, DataType DEF ChainInv, TypeOK
  <1>3. wire = u \o t /\ Accepted
    BY <1>1 DEF AtAddress
  <1> HIDE DEF u, t
  <1>4. wire' = t
    BY <1>1, <1>2, <1>3, Cut
  <1>5. <<>> \in Rests /\ wire' = <<>> \o Data(said)
    BY <1>2, <1>4, ConcatEmptySeq DEF Rests, t
  <1> QED
    BY <1>1, <1>3, <1>5, Ended DEF Replies

LEMMA ReadGrantedKeepsInv ==
    ASSUME ChainInv, ReadGranted, UNCHANGED <<chain, target, hop>>
    PROVE  ChainInv'
  <1>1. /\ wait = "granted" /\ AtGranted /\ Len(wire) >= 2
        /\ UNCHANGED <<at, closed, said>> /\ request' = request
        /\ wire' = SubSeq(wire, 2 + 1, Len(wire))
    BY DEF ReadGranted, Takes, Goes, ChainInv, InStep
  <1>2. wire' \in Seq(Units)
    BY <1>1, LeftOver DEF ChainInv
  <1>3. CASE wait' = "failed"
    BY <1>1, <1>2, <1>3, GoesOn DEF Replies
  <1>4. CASE wait' # "failed"
    <2>1. wait' = "next" /\ wire[2] = "5A"
      BY <1>4 DEF ReadGranted, Goes
    <2>2. PICK l \in Rests :
             \/ wire = l
             \/ wire = l \o <<"00", "FF">>
             \/ Accepted /\ wire = (l \o <<"00", "5A">>) \o Data(said)
      BY <1>1 DEF AtGranted
    <2>3. wire # l
      <3>1. Len(<<>>) = 0 /\ Len(<<"CRLF">>) = 1
        OBVIOUS
      <3>2. Len(l) \in {0, 1}
        BY <3>1 DEF Rests
      <3> QED
        BY <1>1, <3>2
    <2> DEFINE no  == <<"00", "FF">>
               yes == <<"00", "5A">>
               d   == Data(said)
    <2>4. /\ no \in Seq(Units) /\ Len(no) = 2 /\ no[1] = "00" /\ no[2] = "FF"
          /\ yes \in Seq(Units) /\ Len(yes) = 2 /\ yes[1] = "00" /\ yes[2] = "5A"
          /\ d \in Seq(Units)
      BY UnitsHold, Tuples, DataType DEF ChainInv, TypeOK
    <2>5. \/ wire = l \o no
          \/ Accepted /\ wire = (l \o yes) \o d
      BY <2>2, <2>3
    <2> HIDE DEF no, yes, d
    <2>6. wire # l \o no
      <3>1. /\ l = <<>> => l \o no = no
            /\ l = <<"CRLF">> => \A i \in 1 .. Len(no) : (l \o no)[i + 1] = no[i]
        BY <2>4, BehindARest
      <3>2. 1 \in 1 .. Len(no) /\ 1 + 1 = 2
        BY <2>4
      <3> DEFINE w == l \o no
      <3>3. ASSUME l = <<"CRLF">> PROVE w[2] = no[1]
        <4>1. \A i \in 1 .. Len(no) : w[i + 1] = no[i]
          BY <3>1, <3>3
        <4> HIDE DEF w
        <4> QED
          BY <3>2, <4>1
      <3> HIDE DEF w
      <3>4. l = <<"CRLF">> => wire # w
        BY <2>1, <2>4, <3>3
      <3> QED
        BY <2>1, <2>4, <3>1, <3>4 DEF Rests, w
    <2>7. Accepted /\ wire = (l \o yes) \o d
      BY <2>5, <2>6
    <2>8. /\ l \o yes \in Seq(Units)
          /\ l = <<>> => l \o yes = yes
          /\ l = <<"CRLF">> => /\ Len(l \o yes) = Len(yes) + 1
                               /\ \A i \in 1 .. Len(yes) : (l \o yes)[i + 1] = yes[i]
      BY <2>4, BehindARest
    <2>9. l = <<>>
      <3> SUFFICES ASSUME l = <<"CRLF">> PROVE FALSE
        BY DEF Rests
      <3> DEFINE head == l \o yes
      <3>1. head \in Seq(Units) /\ Len(head) = 3 /\ head[2] = "00"
        <4>1. 1 \in 1 .. Len(yes) /\ 1 + 1 = 2
          BY <2>4
        <4> QED
          BY <2>4, <2>8, <4>1
      <3> HIDE DEF head
      <3>2. \A i \in 1 .. Len(head) : (head \o d)[i] = head[i]
        BY <2>4, <3>1, Cut
      <3> DEFINE w == head \o d
      <3>3. \A i \in 1 .. Len(head) : w[i] = head[i]
        BY <3>2
      <3> HIDE DEF w
      <3>4. w[2] = "00"
        <4>1. 2 \in 1 .. Len(head)
          BY <3>1
        <4> QED
          BY <3>1, <3>3, <4>1
      <3> QED
        BY <2>1, <2>7, <3>4 DEF w, head
    <2>10. SubSeq(yes \o d, Len(yes) + 1, Len(yes \o d)) = d
      BY <2>4, Cut
    <2>11. wire' = d
      BY <1>1, <2>4, <2>7, <2>8, <2>9, <2>10
    <2>12. <<>> \in Rests /\ wire' = <<>> \o Data(said)
      BY <2>4, <2>11, ConcatEmptySeq DEF Rests, d
    <2> QED
      BY <1>1, <2>1, <2>7, <2>12, Ended DEF Replies
  <1> QED
    BY <1>3, <1>4

\* What is found in a read of n units is one of these units.
LEMMA Found ==
    ASSUME NEW w \in Seq(Units), NEW n \in 1 .. Len(w), NEW x \in ToSet(SubSeq(w, 1, n))
    PROVE  \E j \in 1 .. n : w[j] = x
  <1> DEFINE part == SubSeq(w, 1, n)
  <1>1. Len(w) \in Nat /\ \A i \in 1 .. Len(w) : w[i] \in Units
    BY LenProperties
  <1>2. n \in Nat /\ 1 <= n /\ \A i \in 1 .. n : w[i] \in Units
    BY <1>1
  <1>3. /\ part \in Seq(Units) /\ Len(part) = IF 1 <= n THEN n - 1 + 1 ELSE 0
        /\ \A i \in 1 .. n - 1 + 1 : part[i] = w[1 + i - 1]
    BY <1>2, SubSeqProperties
  <1>4. x \in ToSet(part)
    OBVIOUS
  <1> HIDE DEF part
  <1>5. DOMAIN part = 1 .. n
    BY <1>2, <1>3, LenProperties
  <1>6. PICK j \in 1 .. n : part[j] = x
    BY <1>4, <1>5 DEF ToSet
  <1>7. j \in 1 .. n - 1 + 1 /\ 1 + j - 1 = j
    BY <1>2
  <1> QED
    BY <1>3, <1>6, <1>7

\* A read that goes as far as the unit before the end of a line leaves the end of
\* the line at most.
LEMMA EndOfLine ==
    ASSUME NEW w \in Seq(Units), NEW k \in Nat, Len(w) = k, w[k] = "CRLF",
           NEW n \in Nat, n = k \/ n = k - 1
    PROVE  SubSeq(w, n + 1, k) \in Rests
  <1>1. CASE n = k
    <2>1. SubSeq(w, k + 1, k) = <<>>
      BY SubSeqEmpty
    <2> QED
      BY <1>1, <2>1 DEF Rests
  <1>2. CASE n = k - 1
    <2> DEFINE last == SubSeq(w, k, k)
               end  == "CRLF"
    <2>1. w[k] = end /\ end \in Units
      BY UnitsHold
    <2> HIDE DEF end
    <2>2. last \in Seq(Units) /\ Len(last) = 1 /\ last[1] = end
      <3>1. \A i \in k .. k : w[i] \in Units
        BY <2>1
      <3>2. /\ last \in Seq(Units) /\ Len(last) = IF k <= k THEN k - k + 1 ELSE 0
            /\ \A i \in 1 .. k - k + 1 : last[i] = w[k + i - 1]
        BY <3>1, SubSeqProperties
      <3> HIDE DEF last
      <3>3. Len(last) = 1 /\ 1 \in 1 .. k - k + 1 /\ k + 1 - 1 = k
        BY <3>2
      <3> QED
        BY <2>1, <3>2, <3>3
    <2> HIDE DEF last
    <2>3. last = <<end>>
      BY <2>2
    <2>4. n + 1 = k
      BY <1>2
    <2> QED
      BY <2>3, <2>4 DEF last, end, Rests
  <1> QED
    BY <1>1, <1>2

\* The units of the first line of an HTTP reply, behind what may be left of
\* another.
LEMMA FirstLine ==
    ASSUME NEW l \in Rests, NEW code \in Units
    PROVE  LET w == l \o <<"HTTP/1.1", code, "CRLF">>
               k == Len(w)
           IN  /\ w \in Seq(Units) /\ k \in {3, 4} /\ w[k] = "CRLF" /\ w[k - 1] = code
               /\ \A i \in 1 .. k - 2 : w[i] \in {"HTTP/1.1", "CRLF"}
  <1> DEFINE u == <<"HTTP/1.1", code, "CRLF">>
             w == l \o u
  <1>1. u \in Seq(Units) /\ Len(u) = 3 /\ u[1] = "HTTP/1.1" /\ u[2] = code /\ u[3] = "CRLF"
    BY UnitsHold, Tuples
  <1> HIDE DEF u
  <1>2. /\ w \in Seq(Units)
        /\ l = <<>> => w = u
        /\ l = <<"CRLF">> => /\ Len(w) = Len(u) + 1 /\ w[1] = "CRLF"
                             /\ \A i \in 1 .. Len(u) : w[i + 1] = u[i]
    BY <1>1, BehindARest
  <1> HIDE DEF w
  <1>3. l = <<>> => Len(w) = 3 /\ w[1] = "HTTP/1.1" /\ w[2] = code /\ w[3] = "CRLF"
    BY <1>1, <1>2
  <1>4. l = <<"CRLF">> => /\ Len(w) = 4 /\ w[1] = "CRLF" /\ w[2] = "HTTP/1.1"
                          /\ w[3] = code /\ w[4] = "CRLF"
    <2>1. 1 \in 1 .. Len(u) /\ 2 \in 1 .. Len(u) /\ 3 \in 1 .. Len(u)
      BY <1>1
    <2>2. l = <<"CRLF">> => w[1 + 1] = u[1] /\ w[2 + 1] = u[2] /\ w[3 + 1] = u[3]
      BY <1>2, <2>1
    <2> QED
      BY <1>1, <1>2, <2>2
  <1>5. l = <<>> \/ l = <<"CRLF">>
    BY DEF Rests
  <1>6. /\ Len(w) \in {3, 4} /\ w[Len(w)] = "CRLF" /\ w[Len(w) - 1] = code
        /\ \A i \in 1 .. Len(w) - 2 : w[i] \in {"HTTP/1.1", "CRLF"}
    <2>1. CASE l = <<>>
      <3>1. Len(w) = 3 /\ Len(w) - 1 = 2 /\ Len(w) - 2 = 1 /\ \A i \in 1 .. 1 : i = 1
        BY <1>3, <2>1
      <3> QED
        BY <1>3, <2>1, <3>1
    <2>2. CASE l = <<"CRLF">>
      <3>1. Len(w) = 4 /\ Len(w) - 1 = 3 /\ Len(w) - 2 = 2 /\ \A i \in 1 .. 2 : i = 1 \/ i = 2
        BY <1>4, <2>2
      <3> QED
        BY <1>4, <2>2, <3>1
    <2> QED
      BY <1>5, <2>1, <2>2
  <1> QED
    BY <1>2, <1>6 DEF w, u

LEMMA ReadStatusKeepsInv ==
    ASSUME ChainInv, ReadStatus, UNCHANGED <<chain, target, hop>>
    PROVE  ChainInv'
  <1> DEFINE phrase == "200 Connection Established"
  <1>1. PICK n \in 1 .. Len(wire) :
           /\ Takes("status", n)
           /\ IF phrase \in ToSet(SubSeq(wire, 1, n))
              THEN Goes("next", request) ELSE Goes("failed", request)
    BY DEF ReadStatus
  <1>2. /\ wait = "status" /\ AtStatus /\ request' = request
        /\ UNCHANGED <<at, closed, said>>
        /\ wire' = SubSeq(wire, n + 1, Len(wire))
        /\ wire \in Seq(Units) /\ Len(wire) \in Nat /\ n \in Nat
    <2>1. request' = request
      BY <1>1 DEF Goes
    <2>2. wire \in Seq(Units) /\ Len(wire) \in Nat
      BY LenProperties DEF ChainInv
    <2>3. n \in Nat
      BY <2>2
    <2> QED
      BY <1>1, <2>1, <2>2, <2>3 DEF Takes, ChainInv, InStep
  <1>3. wire' \in Seq(Units)
    BY <1>2, LeftOver
  <1>4. CASE wait' = "failed"
    BY <1>2, <1>3, <1>4, GoesOn DEF Replies
  <1>5. CASE wait' # "failed"
    <2>1. wait' = "next" /\ phrase \in ToSet(SubSeq(wire, 1, n))
      BY <1>1, <1>5 DEF Goes
    <2>2. PICK j \in 1 .. n : wire[j] = phrase
      BY <1>1, <1>2, <2>1, Found
    <2>3. j \in 1 .. Len(wire)
      <3>1. Len(wire) \in Nat
        BY <1>2
      <3> QED
        BY <3>1
    <2>4. /\ "CRLF" # phrase /\ "HTTP/1.1" # phrase /\ "FF" # phrase
      OBVIOUS
    <2> HIDE DEF phrase
    <2>5. PICK l \in Rests :
             \/ wire = l
             \/ Refused /\ wire = l \o <<"HTTP/1.1", "FF", "CRLF">>
             \/ Accepted /\ \E code \in Phrases :
                   wire = (l \o <<"HTTP/1.1", code, "CRLF">>) \o Data(said)
      BY <1>2 DEF AtStatus
    <2>6. wire # l
      <3> SUFFICES ASSUME wire = l PROVE FALSE
        OBVIOUS
      <3>1. CASE l = <<>>
        BY <2>3, <3>1
      <3>2. CASE l = <<"CRLF">>
        <4>1. Len(wire) = 1 /\ wire[1] = "CRLF"
          BY <3>2
        <4> QED
          BY <2>2, <2>3, <2>4, <4>1
      <3> QED
        BY <3>1, <3>2 DEF Rests
    <2>7. ASSUME NEW code \in Units, wire = l \o <<"HTTP/1.1", code, "CRLF">>
          PROVE  code = phrase /\ wire' \in Rests
      <3> DEFINE k == Len(wire)
      <3>1. /\ k \in {3, 4} /\ wire[k] = "CRLF" /\ wire[k - 1] = code
            /\ \A i \in 1 .. k - 2 : wire[i] \in {"HTTP/1.1", "CRLF"}
        BY <2>7, FirstLine
      <3>2. k \in Nat /\ j \in 1 .. k /\ j # k /\ ~(j \in 1 .. k - 2)
        BY <2>2, <2>3, <2>4, <3>1
      <3>3. n \in 1 .. k
        BY <1>1
      <3>4. k \in Nat /\ k = Len(wire)
        BY <1>2
      <3> HIDE DEF k
      <3>5. j = k - 1
        BY <3>2
      <3>6. code = phrase
        BY <2>2, <3>1, <3>5
      <3>7. n = k \/ n = k - 1
        BY <1>2, <3>2, <3>3, <3>5
      <3>8. SubSeq(wire, n + 1, k) \in Rests
        BY <1>2, <3>1, <3>4, <3>7, EndOfLine
      <3> QED
        BY <1>2, <3>4, <3>6, <3>8
    <2>8. PICK code \in Phrases :
             Accepted /\ wire = (l \o <<"HTTP/1.1", code, "CRLF">>) \o Data(said)
      <3>1. "FF" \in Units
        BY UnitsHold
      <3> QED
        BY <2>4, <2>5, <2>6, <2>7, <3>1
    <2>9. /\ hop \in 1 .. Len(chain) /\ Len(chain) \in Nat /\ chain[hop].kind = "http"
          /\ Target = Len(chain) + 1 /\ said \in Nat
          /\ hop < Len(chain) => Named(hop) = hop + 1
      BY <1>2, Positions DEF ChainInv, Placed, TypeOK, Replies, Speaker
    <2>10. hop < Len(chain) => wire' \in Rests
      <3> SUFFICES ASSUME hop < Len(chain) PROVE wire' \in Rests
        OBVIOUS
      <3>1. said = 0
        BY <2>8, <2>9 DEF ChainInv, Placed, Accepted
      <3>2. code \in Units
        BY UnitsHold
      <3> DEFINE line == l \o <<"HTTP/1.1", code, "CRLF">>
      <3>3. line \in Seq(Units)
        BY <3>2, FirstLine
      <3>4. wire = line \o <<>>
        BY <2>8, <3>1, NoData
      <3> HIDE DEF line
      <3>5. wire = line
        BY <3>3, <3>4, ConcatEmptySeq
      <3> QED
        BY <2>7, <3>2, <3>5 DEF line
    <2>11. at = Named(hop) /\ request = Nobody /\ Reached(hop)' = Named(hop)
      BY <2>8, <2>9 DEF Accepted, Reached, Named, Target, Elsewhere
    <2>12. AtEnd'
      BY <1>2, <2>9, <2>10, <2>11 DEF AtEnd
    <2>13. InStep'
      BY <2>1, <2>12 DEF InStep
    <2> QED
      BY <1>2, <1>3, <2>1, <2>11, <2>13, GoesOn DEF Replies
  <1> QED
    BY <1>4, <1>5

LEMMA ReadsKeepInv ==
    ASSUME ChainInv, Reads(chain[hop], Named(hop)), UNCHANGED <<chain, target, hop>>
    PROVE  ChainInv'
  BY ReadMethodKeepsInv, ReadVerdictKeepsInv, ReadHeaderKeepsInv, ReadLengthKeepsInv,
     ReadAddressKeepsInv, ReadGrantedKeepsInv, ReadStatusKeepsInv DEF Reads, ReadsSocks5

\* The hop answers while nothing has been said behind it.
LEMMA AnswerKeepsInv ==
    ASSUME ChainInv, request # Nobody, NEW units \in Seq(Units), Answers(units),
           UNCHANGED <<chain, target, hop>>, at' \in {at, Named(hop)}, InStep'
    PROVE  ChainInv'
  <1>1. /\ hop \in 1 .. Len(chain) /\ Named(hop) \in 0 .. Elsewhere
        /\ at = hop /\ said \in Nat /\ Target = Len(chain) + 1 /\ Len(chain) \in Nat
    BY Positions DEF ChainInv, Placed, TypeOK
  <1>2. said = 0
    BY <1>1 DEF ChainInv, Placed
  <1>3. /\ Named(hop)' = Named(hop) /\ Elsewhere' = Elsewhere /\ Target' = Target
        /\ UNCHANGED <<wait, closed, said>> /\ request' = Nobody /\ wire' = wire \o units
    BY DEF Named, Elsewhere, Target, Answers
  <1>4. wire' \in Seq(Units)
    BY <1>3, ConcatProperties DEF ChainInv
  <1>5. TypeOK'
    BY <1>1, <1>3 DEF ChainInv, TypeOK
  <1>6. Placed'
    <2>1. wait # "dial"
      BY <1>1 DEF ChainInv, Placed
    <2> QED
      BY <1>1, <1>2, <1>3, <2>1 DEF ChainInv, Placed
  <1> QED
    BY <1>4, <1>5, <1>6 DEF ChainInv

\* What is on its way when a request has not been answered.
LEMMA BeforeAnAnswer ==
    ASSUME ChainInv, request # Nobody
    PROVE  /\ hop \in 1 .. Len(chain) /\ at = hop /\ said = 0 /\ Data(said) = <<>>
           /\ chain[hop] \in Hop
           /\ wait = "failed" \/ wait \in Awaited(request.ask)
           /\ wait = "method"  => wire \in Rests
           /\ wait = "verdict" => wire = <<>>
           /\ wait = "header"  => wire = <<>> /\ chain[hop].kind = "socks5"
           /\ wait = "granted" => wire \in Rests /\ chain[hop].kind = "socks4"
           /\ wait = "status"  => wire \in Rests /\ chain[hop].kind = "http"
           /\ request.ask = "connect" => request.to = Named(hop)
  <1>1. /\ hop \in 1 .. Len(chain) /\ chain[hop] \in Hop /\ Named(hop) \in 1 .. Elsewhere
        /\ Elsewhere \in Nat
        /\ at = hop /\ said \in Nat /\ Target = Len(chain) + 1 /\ Len(chain) \in Nat
    BY Positions DEF ChainInv, Placed, TypeOK
  <1>2. said = 0
    BY <1>1 DEF ChainInv, Placed
  <1>3. wait = "failed" \/ wait \in Awaited(request.ask)
    BY DEF ChainInv, TypeOK
  <1>4. /\ wait = "method"  => wire \in Rests
        /\ wait = "verdict" => wire = <<>>
        /\ wait = "header"  => wire = <<>>
        /\ wait = "granted" => wire \in Rests
        /\ wait = "status"  => wire \in Rests
    BY DEF ChainInv, InStep, AtMethod, AtVerdict, AtHeader, AtGranted, AtStatus, Unanswered,
           Refused, Accepted
  <1>5. /\ wait = "header"  => chain[hop].kind = "socks5"
        /\ wait = "granted" => chain[hop].kind = "socks4"
        /\ wait = "status"  => chain[hop].kind = "http"
    BY DEF ChainInv, Placed, Speaker, Replies
  <1>6. request.ask = "connect" => request.to = Named(hop)
    BY DEF ChainInv, Placed, Connect
  <1> QED
    BY <1>1, <1>2, <1>3, <1>4, <1>5, <1>6, NoData

LEMMA ChoosesMethodKeepsInv ==
    ASSUME ChainInv, NEW m \in Methods, ChoosesMethod(m), UNCHANGED <<chain, target, hop>>
    PROVE  ChainInv'
  <1>1. /\ request # Nobody /\ request.ask = "greeting" /\ at' = at
        /\ Answers(<<"05", m>>)
    BY DEF ChoosesMethod, Asked
  <1>2. /\ wait = "failed" \/ (wait = "method" /\ wire \in Rests)
        /\ at = hop
    <2>1. Awaited(request.ask) = {"method"}
      BY <1>1 DEF Awaited
    <2> QED
      BY <1>1, <2>1, BeforeAnAnswer
  <1>3. wait' = wait /\ request' = Nobody /\ wire' = wire \o <<"05", m>>
    BY <1>1 DEF Answers
  <1>4. wait = "method" => AtMethod'
    <2>1. Refused'
      BY <1>1, <1>2, <1>3 DEF Refused
    <2>2. wait = "method" => \E l \in Rests : \E n \in Methods : wire' = l \o <<"05", n>>
      BY <1>2, <1>3
    <2> QED
      BY <2>1, <2>2 DEF AtMethod
  <1>5. InStep'
    BY <1>2, <1>3, <1>4 DEF InStep
  <1>6. <<"05", m>> \in Seq(Units)
    BY UnitsHold, Tuples
  <1> QED
    BY <1>1, <1>5, <1>6, AnswerKeepsInv

LEMMA JudgesCredentialsKeepsInv ==
    ASSUME ChainInv, NEW v \in {"00", "FF"}, JudgesCredentials(v),
           UNCHANGED <<chain, target, hop>>
    PROVE  ChainInv'
  <1>1. /\ request # Nobody /\ request.ask = "credentials" /\ at' = at
        /\ Answers(<<"01", v>>)
    BY DEF JudgesCredentials, Asked
  <1>2. /\ wait = "failed" \/ (wait = "verdict" /\ wire = <<>>)
        /\ at = hop
    <2>1. Awaited(request.ask) = {"verdict"}
      BY <1>1 DEF Awaited
    <2> QED
      BY <1>1, <2>1, BeforeAnAnswer
  <1>3. wait' = wait /\ request' = Nobody /\ wire' = wire \o <<"01", v>>
    BY <1>1 DEF Answers
  <1>4. <<"01", v>> \in Seq(Units)
    BY UnitsHold, Tuples
  <1>5. wait = "verdict" => AtVerdict'
    <2>1. <<>> \o <<"01", v>> = <<"01", v>>
      BY <1>4, ConcatEmptySeq
    <2> QED
      BY <1>1, <1>2, <1>3, <2>1 DEF AtVerdict, Refused
  <1>6. InStep'
    BY <1>2, <1>3, <1>5 DEF InStep
  <1> QED
    BY <1>1, <1>4, <1>6, AnswerKeepsInv

LEMMA RefusesKeepsInv ==
    ASSUME ChainInv, Refuses(chain[hop]), UNCHANGED <<chain, target, hop>>
    PROVE  ChainInv'
  <1> DEFINE units == Reply(chain[hop].kind, "FF", "01")
  <1>1. /\ request # Nobody /\ request.ask = "connect" /\ at' = at /\ Answers(units)
    BY DEF Refuses, Asked
  <1>2. /\ \/ wait = "failed"
           \/ wait = "header" /\ wire = <<>> /\ chain[hop].kind = "socks5"
           \/ wait = "granted" /\ wire \in Rests /\ chain[hop].kind = "socks4"
           \/ wait = "status" /\ wire \in Rests /\ chain[hop].kind = "http"
        /\ at = hop /\ chain[hop] \in Hop
    <2>1. Awaited(request.ask) = {"header", "granted", "status"}
      BY <1>1 DEF Awaited
    <2> QED
      BY <1>1, <2>1, BeforeAnAnswer
  <1>3. wait' = wait /\ request' = Nobody /\ wire' = wire \o units
    BY <1>1 DEF Answers
  <1>4. /\ chain[hop].kind = "socks5" => units = <<"05", "FF", "01">> \o <<"address">>
        /\ chain[hop].kind = "socks4" => units = <<"00", "FF">>
        /\ chain[hop].kind = "http"   => units = <<"HTTP/1.1", "FF", "CRLF">>
    BY DEF Reply, Address
  <1>5. units \in Seq(Units)
    <2>1. <<"05", "FF", "01">> \in Seq(Units) /\ <<"address">> \in Seq(Units)
      BY UnitsHold, Tuples
    <2>2. <<"05", "FF", "01">> \o <<"address">> \in Seq(Units)
      BY <2>1, ConcatProperties
    <2>3. <<"00", "FF">> \in Seq(Units) /\ <<"HTTP/1.1", "FF", "CRLF">> \in Seq(Units)
      BY UnitsHold, Tuples
    <2> QED
      BY <1>2, <1>4, <2>2, <2>3 DEF Hop
  <1> HIDE DEF units
  <1>6. Refused'
    BY <1>1, <1>2, <1>3 DEF Refused
  <1>7. wait = "header" => AtHeader'
    BY <1>2, <1>3, <1>4, <1>5, <1>6, ConcatEmptySeq DEF AtHeader
  <1>8. wait = "granted" => AtGranted'
    BY <1>2, <1>3, <1>4, <1>6 DEF AtGranted
  <1>9. wait = "status" => AtStatus'
    BY <1>2, <1>3, <1>4, <1>6 DEF AtStatus
  <1>10. InStep'
    BY <1>2, <1>3, <1>7, <1>8, <1>9 DEF InStep
  <1> QED
    BY <1>1, <1>5, <1>10, AnswerKeepsInv

LEMMA ConnectsKeepsInv ==
    ASSUME ChainInv, NEW type \in Types, NEW worded \in BOOLEAN,
           Connects(chain[hop], type, worded), UNCHANGED <<chain, target, hop>>
    PROVE  ChainInv' /\ at = hop /\ at' = Named(hop) /\ wait' = wait /\ wait \notin {"next", "open"}
  <1> DEFINE kind  == chain[hop].kind
             code  == IF worded THEN Success(kind) ELSE "200 OK"
             units == Reply(kind, code, type)
  <1>1. /\ request # Nobody /\ request.ask = "connect" /\ Answers(units)
        /\ kind # "http" => worded
        /\ at' = request.to
    BY DEF Connects, Asked
  <1>2. /\ \/ wait = "failed"
           \/ wait = "header" /\ wire = <<>> /\ kind = "socks5"
           \/ wait = "granted" /\ wire \in Rests /\ kind = "socks4"
           \/ wait = "status" /\ wire \in Rests /\ kind = "http"
        /\ at = hop /\ chain[hop] \in Hop /\ Data(said) = <<>> /\ at' = Named(hop)
    <2>1. Awaited(request.ask) = {"header", "granted", "status"}
      BY <1>1 DEF Awaited
    <2> QED
      BY <1>1, <2>1, BeforeAnAnswer
  <1>3. UNCHANGED <<wait, said>> /\ request' = Nobody /\ wire' = wire \o units
    BY <1>1 DEF Answers
  <1>4. /\ kind = "socks5" => units = <<"05", "00", type>> \o Address(type)
        /\ kind = "socks4" => units = <<"00", "5A">>
        /\ kind = "http"   => code \in Phrases /\ units = <<"HTTP/1.1", code, "CRLF">>
    BY <1>1 DEF Reply, Success, Phrases
  <1>5. kind \in {"socks5", "socks4", "http"}
    BY <1>2 DEF Hop
  <1> HIDE DEF code, units
  <1>6. Address(type) \in Seq(Units)
    BY UnitsHold
  <1>7. units \in Seq(Units)
    <2>1. <<"05", "00", type>> \in Seq(Units)
      BY UnitsHold, Tuples
    <2>2. <<"05", "00", type>> \o Address(type) \in Seq(Units)
      BY <1>6, <2>1, ConcatProperties
    <2>3. <<"00", "5A">> \in Seq(Units)
      BY UnitsHold, Tuples
    <2>4. code \in Phrases => <<"HTTP/1.1", code, "CRLF">> \in Seq(Units)
      BY UnitsHold, Tuples
    <2> QED
      BY <1>4, <1>5, <2>2, <2>3, <2>4
  <1>8. Accepted' /\ Data(said)' = <<>>
    <2>1. Named(hop)' = Named(hop) /\ Data(said)' = Data(said)
      BY <1>3 DEF Named, Target, Elsewhere, Data
    <2> QED
      BY <1>2, <1>3, <2>1 DEF Accepted
  <1>9. wait = "header" => AtHeader'
    <2> SUFFICES ASSUME wait = "header" PROVE AtHeader'
      OBVIOUS
    <2>1. Address(type) \o Data(said)' = Address(type)
      BY <1>6, <1>8, ConcatEmptySeq
    <2>2. wire' = <<"05", "00", type>> \o Address(type)
      BY <1>2, <1>3, <1>4, <1>7, ConcatEmptySeq
    <2> QED
      BY <1>8, <2>1, <2>2 DEF AtHeader
  <1>10. ASSUME NEW l \in Rests
         PROVE  (l \o units) \o Data(said)' = l \o units
    <2>1. l \o units \in Seq(Units)
      BY <1>7, UnitsHold, ConcatProperties
    <2> QED
      BY <1>8, <2>1, ConcatEmptySeq
  <1>11. wait = "granted" => AtGranted'
    <2> SUFFICES ASSUME wait = "granted" PROVE AtGranted'
      OBVIOUS
    <2>1. wire' = (wire \o <<"00", "5A">>) \o Data(said)' /\ wire \in Rests
      BY <1>2, <1>3, <1>4, <1>10
    <2> QED
      BY <1>8, <2>1 DEF AtGranted
  <1>12. wait = "status" => AtStatus'
    <2> SUFFICES ASSUME wait = "status" PROVE AtStatus'
      OBVIOUS
    <2>1. /\ wire' = (wire \o <<"HTTP/1.1", code, "CRLF">>) \o Data(said)' /\ wire \in Rests
          /\ code \in Phrases
      BY <1>2, <1>3, <1>4, <1>10
    <2> QED
      BY <1>8, <2>1 DEF AtStatus
  <1>13. InStep'
    BY <1>2, <1>3, <1>9, <1>11, <1>12 DEF InStep
  <1>14. ChainInv'
    BY <1>1, <1>2, <1>7, <1>13, AnswerKeepsInv
  <1> QED
    BY <1>2, <1>3, <1>14

LEMMA FarEndKeepsInv ==
    ASSUME ChainInv, FarEnd(chain[hop]), UNCHANGED <<chain, target, hop>>
    PROVE  ChainInv'
  BY ChoosesMethodKeepsInv, JudgesCredentialsKeepsInv, ConnectsKeepsInv, RefusesKeepsInv
     DEF FarEnd, Methods, Types

\* What the target says goes behind what has been sent before it.
LEMMA DataGrowsBehind ==
    ASSUME NEW u \in Seq(Units), NEW v \in Seq(Units), NEW n \in Nat
    PROVE  Append(u \o (v \o Data(n)), "data") = u \o (v \o Data(n + 1))
  <1>1. u \o v \in Seq(Units)
    BY ConcatProperties
  <1>2. \A w \in Seq(Units) : (u \o v) \o w = u \o (v \o w)
    <2> TAKE w \in Seq(Units)
    <2> QED
      BY ConcatAssociative
  <1>3. (u \o v) \o Data(n) = u \o (v \o Data(n))
    BY <1>2, DataType
  <1>4. (u \o v) \o Data(n + 1) = u \o (v \o Data(n + 1))
    BY <1>2, DataType
  <1>5. Append((u \o v) \o Data(n), "data") = (u \o v) \o Data(n + 1)
    BY <1>1, DataGrows
  <1> QED
    BY <1>3, <1>4, <1>5

LEMMA SpeaksKeepsInv ==
    ASSUME ChainInv, Speaks(Target), UNCHANGED <<chain, target, hop>>
    PROVE  ChainInv'
  <1>1. /\ hop \in 0 .. Len(chain) /\ Len(chain) \in Nat /\ Target = Len(chain) + 1
        /\ said \in Nat /\ at = Target
        /\ hop \in 1 .. Len(chain) /\ hop < Len(chain) => Named(hop) = hop + 1
    BY Positions DEF ChainInv, TypeOK, Speaks
  <1>2. /\ UNCHANGED <<wait, request, at, closed>> /\ wire' = Append(wire, "data")
        /\ said' = said + 1 /\ said < MaxSaid
    BY DEF Speaks
  <1>3. at # hop /\ request = Nobody
    BY <1>1 DEF ChainInv, Placed
  <1>4. /\ Named(hop)' = Named(hop) /\ Elsewhere' = Elsewhere /\ Target' = Target
        /\ Reached(hop)' = Reached(hop) /\ Data(said)' = Data(said + 1)
    BY <1>2 DEF Named, Elsewhere, Target, Reached, Data
  <1>5. wire' \in Seq(Units)
    BY <1>2, UnitsHold, AppendProperties DEF ChainInv
  <1>6. TypeOK'
    <2>1. said' \in 0 .. MaxSaid
      BY <1>1, <1>2, ChainAssumption
    <2> QED
      BY <1>2, <1>3, <1>4, <2>1 DEF ChainInv, TypeOK
  <1>7. Placed'
    BY <1>1, <1>2, <1>3, <1>4 DEF ChainInv, Placed
  <1>8. /\ wait \notin {"method", "verdict"}
        /\ wait \in {"header", "length", "address", "granted", "status"} => Accepted'
    BY <1>2, <1>3, <1>4
       DEF ChainInv, InStep, AtMethod, AtVerdict, AtHeader, AtLength, AtAddress, AtGranted,
           AtStatus, Unanswered, Refused, Accepted
  <1>9. /\ \A type \in Types : Address(type) \in Seq(Units)
        /\ \A type \in Types : <<"05", "00", type>> \in Seq(Units)
        /\ <<"length">> \in Seq(Units) /\ <<"address">> \in Seq(Units)
    BY UnitsHold, Tuples
  <1>10. wait = "header" => AtHeader'
    <2> SUFFICES ASSUME wait = "header" PROVE AtHeader'
      OBVIOUS
    <2>1. PICK type \in Types : wire = <<"05", "00", type>> \o (Address(type) \o Data(said))
      BY <1>3 DEF ChainInv, InStep, AtHeader, Unanswered, Refused
    <2> DEFINE u == <<"05", "00", type>>
               v == Address(type)
    <2>2. u \in Seq(Units) /\ v \in Seq(Units) /\ wire = u \o (v \o Data(said))
      BY <1>9, <2>1
    <2> HIDE DEF u, v
    <2>3. wire' = u \o (v \o Data(said + 1))
      BY <1>1, <1>2, <2>2, DataGrowsBehind
    <2> QED
      BY <1>4, <1>8, <2>3 DEF u, v, AtHeader
  <1>11. wait = "length" => AtLength'
    <2> SUFFICES ASSUME wait = "length" PROVE AtLength'
      OBVIOUS
    <2> DEFINE u == <<"length">>
               v == <<"address">>
    <2>1. u \in Seq(Units) /\ v \in Seq(Units) /\ wire = u \o (v \o Data(said))
      BY <1>9 DEF ChainInv, InStep, AtLength
    <2> HIDE DEF u, v
    <2>2. wire' = u \o (v \o Data(said + 1))
      BY <1>1, <1>2, <2>1, DataGrowsBehind
    <2> QED
      BY <1>4, <1>8, <2>2 DEF u, v, AtLength
  <1>12. wait = "address" => AtAddress'
    <2> SUFFICES ASSUME wait = "address" PROVE AtAddress'
      OBVIOUS
    <2> DEFINE u == <<"address">>
    <2>1. u \in Seq(Units) /\ wire = u \o Data(said)
      BY <1>9 DEF ChainInv, InStep, AtAddress
    <2> HIDE DEF u
    <2>2. wire' = u \o Data(said + 1)
      BY <1>1, <1>2, <2>1, DataGrows
    <2> QED
      BY <1>4, <1>8, <2>2 DEF u, AtAddress
  <1>13. wait = "granted" => AtGranted'
    <2> SUFFICES ASSUME wait = "granted" PROVE AtGranted'
      OBVIOUS
    <2>1. PICK l \in Rests : wire = (l \o <<"00", "5A">>) \o Data(said)
      BY <1>3 DEF ChainInv, InStep, AtGranted, Unanswered, Refused
    <2> DEFINE u == l \o <<"00", "5A">>
    <2>2. u \in Seq(Units)
      <3>1. <<"00", "5A">> \in Seq(Units) /\ l \in Seq(Units)
        BY UnitsHold, Tuples
      <3> QED
        BY <3>1, ConcatProperties
    <2>3. wire = u \o Data(said)
      BY <2>1
    <2> HIDE DEF u
    <2>4. wire' = u \o Data(said + 1)
      BY <1>1, <1>2, <2>2, <2>3, DataGrows
    <2> QED
      BY <1>4, <1>8, <2>4 DEF u, AtGranted
  <1>14. wait = "status" => AtStatus'
    <2> SUFFICES ASSUME wait = "status" PROVE AtStatus'
      OBVIOUS
    <2>1. PICK l \in Rests :
             \E code \in Phrases : wire = (l \o <<"HTTP/1.1", code, "CRLF">>) \o Data(said)
      BY <1>3 DEF ChainInv, InStep, AtStatus, Unanswered, Refused
    <2>2. PICK code \in Phrases : wire = (l \o <<"HTTP/1.1", code, "CRLF">>) \o Data(said)
      BY <2>1
    <2> DEFINE u == l \o <<"HTTP/1.1", code, "CRLF">>
    <2>3. u \in Seq(Units)
      BY UnitsHold, FirstLine
    <2>4. wire = u \o Data(said)
      BY <2>2
    <2> HIDE DEF u
    <2>5. wire' = u \o Data(said + 1)
      BY <1>1, <1>2, <2>3, <2>4, DataGrows
    <2> QED
      BY <1>4, <1>8, <2>5 DEF u, AtStatus
  <1>15. wait \in {"next", "open"} => AtEnd'
    <2> SUFFICES ASSUME wait \in {"next", "open"} PROVE AtEnd'
      OBVIOUS
    <2>1. AtEnd
      BY DEF ChainInv, InStep
    <2>2. ~(hop < Len(chain))
      BY <1>1, <2>1 DEF AtEnd, Reached
    <2>3. wire = Data(said) => wire' = Data(said + 1)
      <3>1. /\ <<>> \in Seq(Units) /\ Data(said) \in Seq(Units)
            /\ Data(said + 1) \in Seq(Units)
        BY <1>1, DataType
      <3>2. Append(<<>> \o Data(said), "data") = <<>> \o Data(said + 1)
        BY <1>1, <3>1, DataGrows
      <3>3. Append(Data(said), "data") = Data(said + 1)
        BY <3>1, <3>2, ConcatEmptySeq
      <3> QED
        BY <1>2, <3>3
    <2> QED
      BY <1>2, <1>4, <2>1, <2>2, <2>3 DEF AtEnd
  <1>16. InStep'
    BY <1>2, <1>8, <1>10, <1>11, <1>12, <1>13, <1>14, <1>15 DEF InStep
  <1> QED
    BY <1>5, <1>6, <1>7, <1>16 DEF ChainInv

\* Giving up disturbs nothing, and neither does the end of the stream.
LEMMA GivingUpKeepsInv ==
    ASSUME ChainInv, UNCHANGED <<chain, target, hop, request, wire, at, said>>,
           closed' \in BOOLEAN,
           \/ wait' = "failed"
           \/ wait' = wait
           \/ wait = "next" /\ wait' = "open" /\ hop = Len(chain)
    PROVE  ChainInv'
  <1>1. /\ Named(hop)' = Named(hop) /\ Elsewhere' = Elsewhere /\ Target' = Target
        /\ Reached(hop)' = Reached(hop) /\ Data(said)' = Data(said) /\ Requests' = Requests
    BY DEF Named, Elsewhere, Target, Reached, Data, Requests
  <1>2. TypeOK'
    <2>1. request # Nobody => wait # "next"
      BY DEF ChainInv, InStep, AtEnd
    <2> QED
      BY <1>1, <2>1 DEF ChainInv, TypeOK, Outcomes
  <1>3. Placed'
    BY <1>1 DEF ChainInv, Placed, Replies
  <1>4. InStep'
    <2>1. CASE wait' = "failed"
      BY <2>1 DEF InStep
    <2>2. CASE wait = "next" /\ wait' = "open"
      <3>1. AtEnd'
        BY <1>1, <2>2 DEF ChainInv, InStep, AtEnd
      <3> QED
        BY <2>2, <3>1 DEF InStep
    <2>3. CASE wait' = wait
      <3>1. Refused' = Refused /\ Accepted' = Accepted
        BY <1>1 DEF Refused, Accepted
      <3>2. /\ Unanswered(Greeting)' = Unanswered(Greeting)
            /\ Unanswered(Login)' = Unanswered(Login)
            /\ Unanswered(Connect(Named(hop)))' = Unanswered(Connect(Named(hop)))
        BY <1>1 DEF Unanswered, Greeting, Login, Connect
      <3>3. AtMethod' = AtMethod /\ AtVerdict' = AtVerdict
        BY <3>1, <3>2 DEF AtMethod, AtVerdict
      <3>4. AtHeader' = AtHeader /\ AtLength' = AtLength /\ AtAddress' = AtAddress
        BY <1>1, <3>1, <3>2 DEF AtHeader, AtLength, AtAddress
      <3>5. AtGranted' = AtGranted /\ AtStatus' = AtStatus
        BY <1>1, <3>1, <3>2 DEF AtGranted, AtStatus
      <3>6. AtEnd' = AtEnd
        BY <1>1 DEF AtEnd
      <3> QED
        BY <2>3, <3>3, <3>4, <3>5, <3>6 DEF ChainInv, InStep
    <2> QED
      BY <2>1, <2>2, <2>3
  <1> QED
    BY <1>2, <1>3, <1>4 DEF ChainInv

LEMMA DialKeepsInv ==
    ASSUME ChainInv, Dial
    PROVE  ChainInv'
  <1>1. /\ hop = 0 /\ at = 0 /\ request = Nobody /\ wire = <<>>
        /\ wait' = "next" /\ at' = 1
        /\ UNCHANGED <<chain, target, hop, request, wire, closed, said>>
    BY DEF Dial, fixed, ChainInv, Placed
  <1>2. Len(chain) \in Nat /\ Target = Len(chain) + 1 /\ Elsewhere = Len(chain) + 2 /\ said \in Nat
    BY Positions DEF ChainInv, TypeOK
  <1>3. said = 0
    BY <1>1, <1>2 DEF ChainInv, Placed
  <1>4. Elsewhere' = Elsewhere /\ Target' = Target /\ Reached(0)' = 1
    BY <1>1 DEF Elsewhere, Target, Reached
  <1>5. TypeOK'
    BY <1>1, <1>2, <1>4 DEF ChainInv, TypeOK
  <1>6. Placed'
    BY <1>1, <1>3 DEF Placed, Replies
  <1>7. AtEnd'
    <2>1. Len(chain) > 0
      BY Positions, EmptySeq DEF ChainInv, Dial
    <2> QED
      BY <1>1, <1>4, <2>1 DEF AtEnd, Rests
  <1>8. InStep'
    BY <1>1, <1>7 DEF InStep
  <1> QED
    BY <1>1, <1>5, <1>6, <1>8 DEF ChainInv

LEMMA NextHopKeepsInv ==
    ASSUME ChainInv, NextHop
    PROVE  ChainInv'
  <1>1. /\ wait = "next" /\ hop < Len(chain) /\ hop' = hop + 1 /\ AtEnd
        /\ UNCHANGED <<chain, target, wire, at, closed, said>>
    BY DEF NextHop, fixed, ChainInv, InStep
  <1>2. /\ hop \in 0 .. Len(chain) /\ Len(chain) \in Nat /\ Target = Len(chain) + 1
        /\ Elsewhere = Len(chain) + 2 /\ said \in Nat
        /\ hop \in 1 .. Len(chain) => Named(hop) = hop + 1
        /\ hop' \in 1 .. Len(chain) /\ chain[hop'] \in Hop /\ Named(hop') \in 1 .. Elsewhere
    BY <1>1, Positions DEF ChainInv, TypeOK
  <1>3. at = hop' /\ wire \in Rests /\ request = Nobody /\ said = 0
    <2>1. at = hop'
      BY <1>1, <1>2 DEF AtEnd, Reached
    <2> QED
      BY <1>1, <1>2, <2>1 DEF AtEnd, ChainInv, Placed
  <1>4. /\ Elsewhere' = Elsewhere /\ Target' = Target /\ Named(hop)' = Named(hop')
        /\ Requests' = Requests
    BY <1>1 DEF Elsewhere, Target, Named, Requests
  <1>5. \/ wait' = "failed" /\ request' = Nobody
        \/ wait' = "method" /\ request' = Greeting /\ chain[hop'].kind = "socks5"
        \/ wait' = "granted" /\ request' = Connect(Named(hop')) /\ chain[hop'].kind = "socks4"
        \/ wait' = "status" /\ request' = Connect(Named(hop')) /\ chain[hop'].kind = "http"
    BY <1>2 DEF NextHop, Asks, Goes, Hop
  <1>6. TypeOK'
    <2>1. request' # Nobody => request' \in Requests
      BY <1>2, <1>5 DEF Requests
    <2>2. request' # Nobody => wait' \in Awaited(request'.ask) \cup {"failed"}
      <3>1. CASE wait' = "method"
        BY <1>5, <3>1, RequestsApart DEF Awaited
      <3>2. CASE wait' \in {"granted", "status"}
        <4>1. request' = Connect(Named(hop')) /\ request'.ask = "connect"
          BY <1>5, <3>2 DEF Connect
        <4> QED
          BY <3>2, <4>1 DEF Awaited
      <3> QED
        BY <1>5, <3>1, <3>2
    <2>3. wait' \in Replies \cup Outcomes
      BY <1>5 DEF Replies, Outcomes
    <2> QED
      BY <1>1, <1>2, <1>4, <2>1, <2>2, <2>3 DEF ChainInv, TypeOK
  <1>7. Placed'
    <2>1. wait' \in Replies => chain[hop'].kind = Speaker(wait')
      BY <1>5 DEF Speaker, Replies
    <2>2. request' # Nobody /\ request'.ask = "connect" => request' = Connect(Named(hop'))
      BY <1>5 DEF Greeting
    <2> QED
      BY <1>1, <1>2, <1>3, <1>4, <1>5, <2>1, <2>2 DEF Placed
  <1>8. InStep'
    <2>1. wait' = "method" => AtMethod'
      BY <1>1, <1>3, <1>5 DEF AtMethod, Unanswered, Greeting
    <2>2. wait' = "granted" => AtGranted'
      BY <1>1, <1>3, <1>4, <1>5 DEF AtGranted, Unanswered, Connect
    <2>3. wait' = "status" => AtStatus'
      BY <1>1, <1>3, <1>4, <1>5 DEF AtStatus, Unanswered, Connect
    <2> QED
      BY <1>5, <2>1, <2>2, <2>3 DEF InStep
  <1> QED
    BY <1>1, <1>6, <1>7, <1>8 DEF ChainInv

LEMMA ChainInit == Init => ChainInv
  <1> SUFFICES ASSUME Init PROVE ChainInv
    OBVIOUS
  <1>1. chain \in Seq(Hop) /\ Len(chain) \in Nat
    BY ChainAssumption DEF Init
  <1>2. TypeOK
    <2>1. 0 \in 0 .. Len(chain) /\ 0 \in 0 .. Elsewhere
      BY <1>1 DEF Elsewhere
    <2>2. 0 \in 0 .. MaxSaid
      BY ChainAssumption
    <2> QED
      BY <2>1, <2>2 DEF Init, TypeOK
  <1>3. Placed
    BY DEF Init, Placed, Replies
  <1>4. InStep
    BY DEF Init, InStep
  <1> QED
    BY <1>2, <1>3, <1>4 DEF ChainInv, Init

LEMMA ChainStep == ChainInv /\ [Next]_vars => ChainInv'
  <1> SUFFICES ASSUME ChainInv, [Next]_vars PROVE ChainInv'
    OBVIOUS
  <1> USE DEF fixed
  <1>1. CASE Dial
    BY <1>1, DialKeepsInv
  <1>2. CASE NextHop
    BY <1>2, NextHopKeepsInv
  <1>3. CASE HandOut
    BY <1>3, GivingUpKeepsInv DEF HandOut, ChainInv, TypeOK
  <1>4. CASE Reads(chain[hop], Named(hop)) /\ UNCHANGED <<fixed, hop>>
    BY <1>4, ReadsKeepInv
  <1>5. CASE DialFails \/ HeaderTimesOut
    BY <1>5, GivingUpKeepsInv DEF DialFails, HeaderTimesOut, ChainInv, TypeOK
  <1>6. CASE HopBreaks
    BY <1>6, GivingUpKeepsInv DEF HopBreaks, Breaks, ChainInv, TypeOK
  <1>7. CASE FarEnd(chain[hop]) /\ UNCHANGED <<fixed, hop>>
    BY <1>7, FarEndKeepsInv
  <1>8. CASE Speaks(Target) /\ UNCHANGED <<fixed, hop>>
    BY <1>8, SpeaksKeepsInv
  <1>9. CASE Closes /\ UNCHANGED <<fixed, hop>>
    BY <1>9, GivingUpKeepsInv DEF Closes
  <1>10. CASE UNCHANGED vars
    BY <1>10, GivingUpKeepsInv DEF vars, ChainInv, TypeOK
  <1> QED
    BY <1>1, <1>2, <1>3, <1>4, <1>5, <1>6, <1>7, <1>8, <1>9, <1>10 DEF Next, Router, Others

\* What is on its way is what the router waits for, whatever the hops answer and
\* however it is cut into reads (src/protocols/chain.rs:26-275).
THEOREM ChainInvariant == Spec => []ChainInv
  BY ChainInit, ChainStep, PTL DEF Spec

\* The router awaits a reply only to what it has asked
\* (src/protocols/chain.rs:84-190).
THEOREM ChainTypeOK == Spec => []TypeOK
  <1>1. ChainInv => TypeOK
    BY DEF ChainInv
  <1> QED
    BY <1>1, ChainInvariant, PTL

\* What can be read from a stream that a SOCKS hop has opened is what the target
\* has said (src/protocols/chain.rs:167-189, :217-224).
THEOREM ChainWholeAfterSocks == Spec => []WholeAfterSocks
  <1>1. ChainInv => WholeAfterSocks
    <2> SUFFICES ASSUME ChainInv, wait = "open", chain[Len(chain)].kind # "http"
                 PROVE  wire = Data(said)
      BY DEF WholeAfterSocks, Data
    <2>1. AtEnd /\ hop = Len(chain)
      BY DEF ChainInv, InStep, Placed
    <2> QED
      BY <2>1 DEF AtEnd
  <1> QED
    BY <1>1, ChainInvariant, PTL

\* The length of a host name that a SOCKS5 hop is asked for fits its byte
\* (src/protocols/chain.rs:137).
Fits == \A c \in Chains, n \in TargetLengths : c # <<>> /\ c[Len(c)].kind = "socks5" => n < 256

LEMMA NamesTheNext ==
    ASSUME Fits, ChainInv, hop > 0
    PROVE  Named(hop) = hop + 1
  <1>1. hop \in 1 .. Len(chain) /\ Len(chain) \in Nat /\ Target = Len(chain) + 1
    BY Positions DEF ChainInv
  <1>2. chain \in Chains /\ target \in TargetLengths /\ target \in Nat
    BY ChainAssumption DEF ChainInv, TypeOK
  <1>3. chain # <<>>
    BY <1>1
  <1>4. hop = Len(chain) /\ chain[hop].kind = "socks5" => target % 256 = target
    BY <1>2, <1>3 DEF Fits
  <1> QED
    BY <1>1, <1>4 DEF Named

\* What a read does to the tunnel: nothing, or it is given up.
LEMMA ReadsStay ==
    ASSUME Reads(chain[hop], Named(hop))
    PROVE  /\ wait \in Replies /\ at' = at
           /\ wait' \in Replies \cup {"next", "failed"}
  <1>1. CASE ReadMethod(chain[hop], Named(hop))
    BY <1>1 DEF ReadMethod, Takes, Goes, Replies
  <1>2. CASE ReadVerdict(Named(hop))
    BY <1>2 DEF ReadVerdict, Takes, Goes, Replies
  <1>3. CASE ReadHeader
    BY <1>3 DEF ReadHeader, Takes, Goes, Replies
  <1>4. CASE ReadLength \/ ReadAddress
    BY <1>4 DEF ReadLength, ReadAddress, Takes, Goes, Replies
  <1>5. CASE ReadGranted
    BY <1>5 DEF ReadGranted, Takes, Goes, Replies
  <1>6. CASE ReadStatus
    BY <1>6 DEF ReadStatus, Takes, Goes, Replies
  <1> QED
    BY <1>1, <1>2, <1>3, <1>4, <1>5, <1>6 DEF Reads, ReadsSocks5

LEMMA TunnelInit == Init => Abstract!Init
  BY ChainAssumption DEF Init, Abstract!Init, Outcomes

LEMMA TunnelStep ==
    ASSUME Fits, ChainInv, [Next]_vars
    PROVE  [Abstract!Next]_(Abstract!vars)
  <1> DEFINE outcome == IF wait \in Outcomes THEN wait ELSE "connecting"
  <1>1. /\ Len(chain) \in Nat /\ hop \in 0 .. Len(chain)
        /\ wait \in {"dial", "next"} \cup Replies \cup Outcomes
    BY Positions DEF ChainInv, TypeOK
  <1>2. /\ Len(chain)' = Len(chain)
    BY DEF Next, Router, Others, Dial, DialFails, HeaderTimesOut, HopBreaks, NextHop, HandOut,
           fixed, vars
  <1>3. ASSUME wait \notin Outcomes, wait' = "failed", at' = at
        PROVE  Abstract!Fail
    BY <1>2, <1>3 DEF Abstract!Fail, Outcomes
  <1>4. ASSUME wait \notin Outcomes, wait' \notin Outcomes, at' = at
        PROVE  UNCHANGED Abstract!vars
    BY <1>2, <1>4 DEF Abstract!vars
  <1>5. ASSUME wait' = wait, at' = at
        PROVE  UNCHANGED Abstract!vars
    BY <1>2, <1>5 DEF Abstract!vars
  <1>6. CASE Dial
    <2>1. at = 0 /\ at' = 1 /\ wait = "dial" /\ wait' = "next"
      BY <1>6 DEF Dial, ChainInv, Placed
    <2>2. Abstract!Extend
      BY <1>1, <1>2, <2>1 DEF Abstract!Extend, Outcomes
    <2> QED
      BY <2>2 DEF Abstract!Next
  <1>7. CASE DialFails \/ HeaderTimesOut \/ HopBreaks
    <2>1. wait \notin Outcomes /\ wait' = "failed" /\ at' = at
      BY <1>7 DEF DialFails, HeaderTimesOut, HopBreaks, Breaks, Outcomes, Replies
    <2> QED
      BY <1>3, <2>1 DEF Abstract!Next
  <1>8. CASE NextHop
    <2>1. /\ wait = "next" /\ at' = at
          /\ wait' \in {"failed", "method", "granted", "status"}
      <3>1. hop' \in 1 .. Len(chain) /\ chain[hop'] \in Hop
        BY <1>1, <1>8, Positions DEF NextHop, ChainInv
      <3> QED
        BY <1>8, <3>1 DEF NextHop, Asks, Goes, Hop
    <2> QED
      BY <1>3, <1>4, <2>1 DEF Abstract!Next, Outcomes
  <1>9. CASE HandOut
    <2>1. wait = "next" /\ wait' = "open" /\ at' = at /\ hop = Len(chain)
      BY <1>9 DEF HandOut
    <2>2. at = Reached(hop) /\ Len(chain) > 0
      BY <2>1 DEF ChainInv, InStep, AtEnd
    <2>3. at = Len(chain) + 1
      BY <1>1, <2>1, <2>2, NamesTheNext DEF Reached
    <2>4. Abstract!Open
      BY <1>2, <2>1, <2>2, <2>3 DEF Abstract!Open, Outcomes
    <2> QED
      BY <2>4 DEF Abstract!Next
  <1>10. CASE Reads(chain[hop], Named(hop)) /\ UNCHANGED <<fixed, hop>>
    <2>1. /\ wait \in Replies /\ at' = at
          /\ wait' \in Replies \cup {"next", "failed"}
      BY <1>10, ReadsStay
    <2> QED
      BY <1>3, <1>4, <2>1 DEF Abstract!Next, Outcomes, Replies
  <1>11. CASE FarEnd(chain[hop]) /\ UNCHANGED <<fixed, hop>>
    <2>1. CASE \E m \in Methods : ChoosesMethod(m)
      BY <1>5, <2>1 DEF ChoosesMethod, Answers
    <2>2. CASE \E v \in {"00", "FF"} : JudgesCredentials(v)
      BY <1>5, <2>2 DEF JudgesCredentials, Answers
    <2>3. CASE Refuses(chain[hop])
      BY <1>5, <2>3 DEF Refuses, Answers
    <2>4. ASSUME NEW type \in Types, NEW worded \in BOOLEAN, Connects(chain[hop], type, worded)
          PROVE  Abstract!Extend
      <3>1. at = hop /\ at' = Named(hop) /\ wait' = wait /\ wait # "open"
        BY <1>11, <2>4, ConnectsKeepsInv DEF fixed
      <3>2. hop > 0
        BY <1>1, <2>4 DEF Connects, Asked, ChainInv, Placed
      <3>3. at' = at + 1
        BY <3>1, <3>2, NamesTheNext
      <3> QED
        BY <1>1, <1>2, <3>1, <3>3 DEF Abstract!Extend, Outcomes
    <2>5. ASSUME NEW type \in Types, NEW worded \in BOOLEAN, Connects(chain[hop], type, worded)
          PROVE  Abstract!Next
      BY <2>4, <2>5 DEF Abstract!Next
    <2> QED
      BY <1>11, <2>1, <2>2, <2>3, <2>5 DEF FarEnd, Methods, Types
  <1>12. CASE (Speaks(Target) \/ Closes) /\ UNCHANGED <<fixed, hop>>
    BY <1>5, <1>12 DEF Speaks, Closes
  <1>13. CASE UNCHANGED vars
    BY <1>5, <1>13 DEF vars
  <1> QED
    BY <1>6, <1>7, <1>8, <1>9, <1>10, <1>11, <1>12, <1>13 DEF Next, Router, Others

\* A stream that is handed out ends at the target and goes through every hop in
\* order, if the length of the name fits the byte that a SOCKS5 hop is sent
\* (src/protocols/chain.rs:36-57, :137).
THEOREM ChainImplementsTunnel == Fits => (Spec => TunnelSpec)
  <1> SUFFICES ASSUME Fits PROVE Spec => TunnelSpec
    OBVIOUS
  <1>1. Init => Abstract!Init
    BY TunnelInit
  <1>2. ChainInv /\ [Next]_vars => [Abstract!Next]_(Abstract!vars)
    BY TunnelStep
  <1> QED
    BY <1>1, <1>2, ChainInvariant, PTL DEF Spec, TunnelSpec, Abstract!Spec
===============================================================================
