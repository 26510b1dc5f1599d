----------------------------- MODULE InboundProofs -----------------------------
(***************************************************************************)
(* The client's side and the handlers for one upstream, for every client,  *)
(* every path, every way to cut what is sent into reads, and every         *)
(* conversation with an upstream.                                          *)
(*                                                                         *)
(* Nobody rides free: a connection which has passed the point where its    *)
(* account is settled (authenticate_user, or the SOCKS5 login) has one.    *)
(* Every wait before that point is named; all others lie behind it         *)
(* (SettledInv).                                                           *)
(*                                                                         *)
(* What the client reads is what the target says: the invariant            *)
(* (ServedInv) adds to the types where the connection is and whose         *)
(* (Placed), that what was taken begins with what its protocol is detected *)
(* by (Recognised), what may be on the wire while a reply is awaited       *)
(* (Talking), and what the client has been told before the relay starts    *)
(* (Answered).                                                             *)
(*                                                                         *)
(* A client that is served is taken at its word: a request that came whole *)
(* is read as the one it is, in every protocol (Whole); what a client      *)
(* sends is one row of units, of which the inbox holds a piece, and the    *)
(* SOCKS5 dialogue stands at the place its phase says (Flow), with the     *)
(* account and the selection of its login (Charged5).                      *)
(*                                                                         *)
(* The target gets the stream: what was passed on is what the handler of   *)
(* the protocol has taken from behind the request (Passing), and what is   *)
(* still in the row is the rest of it.                                     *)
(***************************************************************************)
EXTENDS SingleHop, SequenceTheorems, WellFoundedInduction, TLAPS

\* Where the account is not settled yet, and where it never will be.
Before == {"first", "route", "account", "greeting", "login", "failed"}

Settled(phase) ==
    path.auth /\ phase \notin Before
        => \/ user = "user" /\ client.creds = "good"
           \/ user = "address" /\ client.address

SettledInv == Settled(wait)

-------------------------------------------------------------------------------

\* A step that changes neither client, path nor account, and goes on from behind
\* that point or does not go past it, keeps the invariant.
LEMMA OtherSteps ==
    ASSUME SettledInv, UNCHANGED <<client, path, user>>,
           wait' = wait \/ wait \notin Before \/ wait' \in Before \/ ~path.auth
    PROVE  SettledInv'
  BY DEF SettledInv, Settled

\* So does a step that drops the client.
LEMMA Failing ==
    ASSUME SettledInv, Fails
    PROVE  SettledInv'
  BY OtherSteps DEF Fails, fixed, verdicts, Before

\* The conversation with the upstream, its far side included, leaves the account
\* alone.
LEMMA HopSteps ==
    ASSUME SettledInv,
           \/ Socks4Converses \/ HttpConverses \/ HttpsConverses
           \/ UpstreamBreaks \/ Upstream
    PROVE  SettledInv'
  <1>1. UNCHANGED <<client, path, user>>
    BY DEF Socks4Converses, HttpConverses, HttpsConverses, Conversing, UpstreamBreaks, Upstream, Untold, fixed, verdicts
  <1>2. CASE Socks4Converses \/ HttpConverses \/ HttpsConverses
    <2>1. wait \in Replies
      BY <1>2 DEF Socks4Converses, HttpConverses, HttpsConverses, ReadsSocks5, ReadMethod, ReadVerdict, ReadHeader, ReadLength, ReadAddress,
                  ReadGranted, ReadStatus, Takes, Replies
    <2> QED
      BY <1>1, <2>1, OtherSteps DEF Replies, Before
  <1>3. CASE UpstreamBreaks
    BY <1>1, <1>3, OtherSteps DEF UpstreamBreaks, Breaks, Replies, Before
  <1>4. CASE Upstream
    <2>1. wait' = wait
      BY <1>4 DEF Upstream, FarEnd, ChoosesMethod, JudgesCredentials, Connects, Refuses,
                  Answers, Speaks, Closes
    <2> QED
      BY <1>1, <2>1, OtherSteps
  <1> QED
    BY <1>2, <1>3, <1>4

\* authenticate_user and the SOCKS5 login are where the account is settled
\* (src/protocols/proxy.rs:851-903, :280-290).
LEMMA SettlingSteps ==
    ASSUME SettledInv, AuthenticateUser \/ LogsIn \/ Greets
    PROVE  SettledInv'
  <1>1. CASE AuthenticateUser
    BY <1>1 DEF AuthenticateUser, SettledInv, Settled, fixed, Before
  <1>2. CASE LogsIn
    <2>1. UNCHANGED <<client, path>>
      BY <1>2 DEF LogsIn, Receives, fixed
    <2>2. \/ user' = "user" /\ client.creds = "good"
          \/ wait' = "failed"
      BY <1>2 DEF LogsIn
    <2> QED
      BY <2>1, <2>2 DEF SettledInv, Settled, Before
  <1>3. CASE Greets
    <2>1. UNCHANGED <<client, path, user>>
      BY <1>3 DEF Greets, fixed, verdicts
    <2>2. wait' \in {"failed", "login"} \/ ~path.auth
      BY <1>3 DEF Greets
    <2> QED
      BY <2>1, <2>2, OtherSteps DEF Before
  <1> QED
    BY <1>1, <1>2, <1>3

\* The other steps on the client's side.
LEMMA ClientSteps ==
    ASSUME SettledInv, ClientSide \/ Sends \/ Leaves
    PROVE  SettledInv'
  <1>1. CASE ClientIsGone \/ RequestIsCut \/ NothingMatches \/ IsRefused \/ ChainFails
    BY <1>1, Failing DEF ClientIsGone, RequestIsCut, NothingMatches, IsRefused, ChainFails
  <1>2. CASE FirstRead
    BY <1>2, OtherSteps DEF FirstRead, Receives, fixed, verdicts, Before
  <1>3. CASE Routes
    BY <1>3, OtherSteps DEF Routes, fixed, Before
  <1>4. CASE AuthenticateUser \/ LogsIn \/ Greets
    BY <1>4, SettlingSteps
  <1>5. CASE ReadsRequest
    BY <1>5, OtherSteps DEF ReadsRequest, Receives, fixed, verdicts, Before
  <1>6. CASE ReadsCount \/ ReadsName("host", 2) \/ ReadsName("ip", 1)
    BY <1>6, OtherSteps DEF ReadsCount, ReadsName, Receives, fixed, verdicts, Before
  <1>7. CASE Socks5Chain \/ HandleSocks4Chain \/ HandleHttpsChain \/ HandleHttpChain
    BY <1>7, OtherSteps
    DEF Socks5Chain, HandleSocks4Chain, HandleHttpsChain, HandleHttpChain, Dialling,
        Tunnels, fixed, verdicts, Before
  <1>8. CASE Sends \/ Leaves
    BY <1>8, OtherSteps DEF Sends, Leaves, fixed, verdicts
  <1> QED
    BY <1>1, <1>2, <1>3, <1>4, <1>5, <1>6, <1>7, <1>8 DEF ClientSide

\* The handlers for one upstream.
LEMMA SingleHopSteps ==
    ASSUME SettledInv,
           \/ Socks4ToHttp \/ Socks4ToSocks4 \/ Socks4ToSocks5
           \/ HttpToHttp \/ HttpToSocks4 \/ HttpToSocks5
           \/ HttpsToHttp \/ HttpsToSocks4 \/ HttpsToSocks5
           \/ Socks4Forwards \/ HttpsForwards
           \/ Socks4Answers \/ HttpAnswers \/ HttpsAnswers
    PROVE  SettledInv'
  <1>1. CASE \E proto, kind, name : Opens(proto, kind, name)
    BY <1>1, OtherSteps DEF Opens, Single, fixed, verdicts, Before
  <1>2. CASE Socks4ToSocks4 \/ HttpToHttp
    BY <1>2, OtherSteps DEF Socks4ToSocks4, HttpToHttp, Single, fixed, verdicts, Before
  <1>3. CASE Socks4Forwards \/ HttpsForwards
    BY <1>3, OtherSteps DEF Socks4Forwards, HttpsForwards, Single, fixed, verdicts, Before
  <1>4. CASE Socks4Answers \/ HttpAnswers \/ HttpsAnswers
    <2>1. wait = "next" /\ \E words, units : HandsOver(words, units)
      BY <1>4 DEF Socks4Answers, HttpAnswers, HttpsAnswers, Single
    <2> QED
      BY <2>1, OtherSteps DEF HandsOver, fixed, verdicts, Before
  <1>5. CASE \/ Socks4ToHttp \/ Socks4ToSocks5
             \/ HttpToSocks4 \/ HttpToSocks5
             \/ HttpsToHttp \/ HttpsToSocks4 \/ HttpsToSocks5
    <2>1. \E proto, kind, name : Opens(proto, kind, name)
      BY <1>5 DEF Socks4ToHttp, Socks4ToSocks5, Socks4Opens, HttpToSocks4, HttpToSocks5,
                  HttpsToHttp, HttpsToSocks4, HttpsToSocks5
    <2> QED
      BY <1>1, <2>1
  <1> QED
    BY <1>2, <1>3, <1>4, <1>5

LEMMA SettledStep ==
    ASSUME SettledInv, [Next]_vars
    PROVE  SettledInv'
  <1>1. CASE FirstReadTimesOut \/ UpstreamIsDown \/ Socks4Rejects
    BY <1>1, Failing DEF FirstReadTimesOut, UpstreamIsDown, Socks4Rejects
  <1>2. CASE UNCHANGED vars
    BY <1>2, OtherSteps DEF vars
  <1>3. CASE \/ Socks4Converses \/ HttpConverses \/ HttpsConverses
             \/ UpstreamBreaks \/ Upstream
    BY <1>3, HopSteps
  <1>4. CASE ClientSide \/ Sends \/ Leaves
    BY <1>4, ClientSteps
  <1> QED
    BY <1>1, <1>2, <1>3, <1>4, SingleHopSteps DEF Next, Router

\* Whatever is sent, however little of it is read at first and whatever upstreams
\* answer: with authentication on, a relay starts only on the account of accepted
\* credentials or of an authorised address (src/protocols/proxy.rs:851-903).
THEOREM InboundNobodyRidesFree == Spec => []NobodyRidesFree
  <1>1. Init => SettledInv
    BY DEF Init, SettledInv, Settled, Before
  <1>2. SettledInv => NobodyRidesFree
    BY DEF SettledInv, Settled, Before, NobodyRidesFree
  <1> QED
    BY <1>1, <1>2, SettledStep, PTL DEF Spec

-------------------------------------------------------------------------------
(* Parsers: the first of some units, what is before it and what behind *)

LEMMA LeastExists ==
    ASSUME NEW S \in SUBSET Nat, S # {}
    PROVE  \E m \in S : \A k \in S : m <= k
  <1> DEFINE R == OpToRel(<, Nat)
  <1>1. IsWellFoundedOn(R, Nat)
    BY NatLessThanWellFounded
  <1>2. \A x, y \in Nat : <<x, y>> \in R <=> x < y
    BY DEF OpToRel
  <1> HIDE DEF R
  <1>3. PICK m \in S : \A y \in S : ~ (<<y, m>> \in R)
    BY <1>1, WFMin
  <1>4. ASSUME NEW k \in S PROVE m <= k
    <2>1. m \in Nat /\ k \in Nat /\ ~(<<k, m>> \in R)
      BY <1>3
    <2>2. ~(k < m)
      BY <1>2, <2>1
    <2> QED
      BY <2>1, <2>2
  <1> QED
    BY <1>4

\* Where the first of some units is.
Index(s, ends) == SelectInSeq(s, LAMBDA u : u \in ends)

LEMMA FirstOfThem ==
    ASSUME NEW S, NEW s \in Seq(S), NEW ends
    PROVE  LET k == Index(s, ends)
           IN  \/ /\ k = 0 /\ \A j \in 1 .. Len(s) : s[j] \notin ends
               \/ /\ k \in 1 .. Len(s) /\ s[k] \in ends
                  /\ \A j \in 1 .. k - 1 : s[j] \notin ends
  <1> DEFINE I == {j \in 1 .. Len(s) : s[j] \in ends}
             k == Index(s, ends)
  <1>1. k = IF I # {} THEN Min(I) ELSE 0
    BY DEF Index, SelectInSeq
  <1>2. CASE I = {}
    BY <1>1, <1>2
  <1>3. CASE I # {}
    <2>1. I \in SUBSET Nat
      OBVIOUS
    <2>2. \E m \in I : \A j \in I : m <= j
      BY <1>3, <2>1, LeastExists
    <2>3. k \in I /\ \A j \in I : k <= j
      BY <1>1, <1>3, <2>2 DEF Min
    <2>4. Len(s) \in Nat
      OBVIOUS
    <2> HIDE DEF k
    <2>5. \A j \in 1 .. k - 1 : s[j] \notin ends
      <3> SUFFICES ASSUME NEW j \in 1 .. k - 1 PROVE s[j] \notin ends
        OBVIOUS
      <3>1. k \in 1 .. Len(s)
        BY <2>3
      <3>2. j \in 1 .. Len(s) /\ ~(k <= j)
        BY <2>4, <3>1
      <3> QED
        BY <2>3, <3>2
    <2> QED
      BY <2>3, <2>5 DEF k
  <1> QED
    BY <1>2, <1>3

\* What parsers cut out of a sequence of units is one.
LEMMA PartsType ==
    ASSUME NEW S, NEW s \in Seq(S), NEW ends
    PROVE  Upto(s, ends) \in Seq(S) /\ After(s, ends) \in Seq(S)
  <1> DEFINE k == Index(s, ends)
  <1>1. k = 0 \/ k \in 1 .. Len(s)
    BY FirstOfThem
  <1>2. Upto(s, ends) = IF k = 0 THEN s ELSE SubSeq(s, 1, k - 1)
    BY DEF Upto, Index
  <1>3. After(s, ends) = IF k = 0 THEN <<>> ELSE SubSeq(s, k + 1, Len(s))
    BY DEF After, Index
  <1> HIDE DEF k
  <1>4. Len(s) \in Nat /\ \A j \in 1 .. Len(s) : s[j] \in S
    OBVIOUS
  <1>5. ASSUME k \in 1 .. Len(s)
        PROVE  SubSeq(s, 1, k - 1) \in Seq(S) /\ SubSeq(s, k + 1, Len(s)) \in Seq(S)
    <2>1. /\ \A j \in 1 .. k - 1 : s[j] \in S
          /\ \A j \in k + 1 .. Len(s) : s[j] \in S
          /\ k - 1 \in Int /\ k + 1 \in Int /\ Len(s) \in Int
      BY <1>4, <1>5
    <2> QED
      BY <2>1, SubSeqProperties
  <1> QED
    BY <1>1, <1>2, <1>3, <1>5

-------------------------------------------------------------------------------
(* What clients send, unit by unit *)

\* Protocols, and the forms of a request that fit them.
LEMMA ClientType ==
    ASSUME NEW c \in Client
    PROVE  /\ c.proto \in {"socks5", "socks4", "http", "https", "other"}
           /\ c.command \in {"connect", "bind"}
           /\ c.creds \in {"none", "good", "refused", "unparsable"}
           /\ c.proto = "socks5" => c.form \in {"01", "03", "04", "FF"}
           /\ c.proto = "socks4" => c.form \in {"ip", "0.0.0.1", "0.0.0.x"}
           /\ c.proto = "http"   => c.form \in {"absolute", "origin", "mentions CONNECT"}
           /\ c.proto = "https"  => c.form = "absolute"
           /\ c.proto = "other"  => c.form = "01"
           /\ c.form \in {"01", "03", "04", "FF", "ip", "0.0.0.1", "0.0.0.x",
                         "absolute", "origin", "mentions CONNECT"}
  <1>1. c.proto \in DOMAIN Forms /\ c.form \in Forms[c.proto]
    BY DEF Client
  <1>2. DOMAIN Forms = {"socks5", "socks4", "http", "https", "other"}
    BY DEF Forms
  <1>3. /\ Forms["socks5"] = {"01", "03", "04", "FF"}
        /\ Forms["socks4"] = {"ip", "0.0.0.1", "0.0.0.x"}
        /\ Forms["http"]   = {"absolute", "origin", "mentions CONNECT"}
        /\ Forms["https"]  = {"absolute"}
        /\ Forms["other"]  = {"01"}
    BY DEF Forms
  <1>4. /\ c.command \in {"connect", "bind"}
        /\ c.creds \in {"none", "good", "refused", "unparsable"}
    BY DEF Client
  <1> QED
    BY <1>1, <1>2, <1>3, <1>4

\* What announces the credentials of a client that has some.
Announced(c) == CASE c.creds = "none"   -> {}
                  [] c.creds # "none" /\ c.proto = "socks4" -> {"id"}
                  [] c.creds # "none" /\ c.proto # "socks4" -> {"Proxy-Authorization: Basic "}

Letters(c) ==
    {"05", "04", "01", "methods", "name and password", "length", "ip", "na", "me", "NUL",
     "CONNECT", "GET", "http://", "Host: ", "user", "pass", "EOL", "body", "payload", "?",
     c.command, c.form, Path1(c)} \cup Announced(c)

\* The unit by which the protocol of a client is detected.
Opening(c) == CASE c.proto = "socks5" -> "05"
                [] c.proto = "socks4" -> "04"
                [] c.proto = "https"  -> "CONNECT"
                [] c.proto = "http"   -> "GET"
                [] c.proto = "other"  -> "?"

\* A message that begins with x.
Begins(L, s, x) == s \in Seq(L) /\ s # <<>> /\ s[1] = x

LEMMA Joins ==
    ASSUME NEW L, NEW s \in Seq(L), NEW t \in Seq(L)
    PROVE  /\ s \o t \in Seq(L)
           /\ \A x : Begins(L, s, x) => Begins(L, s \o t, x)
  <1>1. /\ s \o t \in Seq(L) /\ Len(s \o t) = Len(s) + Len(t)
        /\ \A i \in 1 .. Len(s) + Len(t) :
              (s \o t)[i] = IF i <= Len(s) THEN s[i] ELSE t[i - Len(s)]
    BY ConcatProperties
  <1>2. ASSUME s # <<>>
        PROVE  s \o t # <<>> /\ (s \o t)[1] = s[1]
    <2>1. Len(s) \in Nat /\ Len(t) \in Nat /\ Len(s) # 0
      BY <1>2, EmptySeq
    <2>2. 1 \in 1 .. Len(s) + Len(t) /\ 1 <= Len(s)
      BY <2>1
    <2>3. (s \o t)[1] = s[1]
      BY <1>1, <2>2
    <2>4. Len(s \o t) # 0 /\ Len(<<>>) = 0
      BY <1>1, <2>1
    <2> QED
      BY <2>3, <2>4
  <1> QED
    BY <1>1, <1>2 DEF Begins

\* Tuples are put together member by member.
LEMMA Tupled ==
    ASSUME NEW S, NEW a \in S, NEW b \in S, NEW d \in S
    PROVE  /\ <<a>> \o <<>> = <<a>> /\ <<a>> \o <<b>> = <<a, b>>
           /\ (<<a>> \o <<b>>) \o <<d>> = <<a, b, d>>
           /\ (<<a>> \o <<>>) \o <<b>> = <<a, b>>
  <1>1. <<a>> \in Seq(S) /\ <<a, b>> \in Seq(S)
    OBVIOUS
  <1>2. <<a>> \o <<>> = <<a>>
    BY <1>1, ConcatEmptySeq
  <1>3. <<a>> \o <<b>> = Append(<<a>>, b) /\ <<a, b>> \o <<d>> = Append(<<a, b>>, d)
    BY <1>1, AppendIsConcat
  <1>4. Append(<<a>>, b) = <<a, b>> /\ Append(<<a, b>>, d) = <<a, b, d>>
    <2> DEFINE one   == <<a>>
               two   == <<a, b>>
               three == <<a, b, d>>
    <2>1. /\ one \in Seq(S) /\ Len(one) = 1 /\ one[1] = a
          /\ two \in Seq(S) /\ Len(two) = 2 /\ two[1] = a /\ two[2] = b
          /\ three \in Seq(S) /\ Len(three) = 3
          /\ three[1] = a /\ three[2] = b /\ three[3] = d
      OBVIOUS
    <2> HIDE DEF one, two, three
    <2>2. Append(one, b) = two
      <3> DEFINE w == Append(one, b)
      <3>1. w \in Seq(S) /\ Len(w) = 2 /\ w[1] = a /\ w[2] = b
        <4>1. one \in Seq(S) /\ b \in S
          BY <2>1
        <4>2. /\ w \in Seq(S) /\ Len(w) = Len(one) + 1
              /\ \A i \in 1 .. Len(one) : w[i] = one[i]
              /\ w[Len(one) + 1] = b
          BY <4>1, AppendProperties
        <4> HIDE DEF w
        <4> QED
          BY <2>1, <4>2
      <3> HIDE DEF w
      <3>2. \A i \in 1 .. Len(two) : w[i] = two[i]
        BY <2>1, <3>1
      <3> QED
        BY <2>1, <3>1, <3>2, SeqEqual DEF w
    <2>3. Append(two, d) = three
      <3> DEFINE w == Append(two, d)
      <3>1. w \in Seq(S) /\ Len(w) = 3 /\ w[1] = a /\ w[2] = b /\ w[3] = d
        <4>1. two \in Seq(S) /\ d \in S
          BY <2>1
        <4>2. /\ w \in Seq(S) /\ Len(w) = Len(two) + 1
              /\ \A i \in 1 .. Len(two) : w[i] = two[i]
              /\ w[Len(two) + 1] = d
          BY <4>1, AppendProperties
        <4> HIDE DEF w
        <4> QED
          BY <2>1, <4>2
      <3> HIDE DEF w
      <3>2. \A i \in 1 .. Len(three) : w[i] = three[i]
        BY <2>1, <3>1
      <3> QED
        BY <2>1, <3>1, <3>2, SeqEqual DEF w
    <2> QED
      BY <2>2, <2>3 DEF one, two, three
  <1> QED
    BY <1>2, <1>3, <1>4

\* Every message of every client, and what the first begins with.
LEMMA HandshakeType ==
    ASSUME NEW c \in Client, NEW auth
    PROVE  /\ Handshake(c, auth) \in Seq(Seq(Letters(c)))
           /\ Len(Handshake(c, auth)) \in 1 .. 3
           /\ c.proto # "socks5" => Len(Handshake(c, auth)) = 1
           /\ \A k \in 1 .. Len(Handshake(c, auth)) : Handshake(c, auth)[k] # <<>>
           /\ Begins(Letters(c), Handshake(c, auth)[1], Opening(c))
  <1> DEFINE L == Letters(c)
  <1>1. /\ {"05", "04", "01", "methods", "name and password", "length", "ip", "na", "me", "NUL",
            "CONNECT", "GET", "http://", "Host: ", "user", "pass", "EOL", "body", "payload",
            "?"} \subseteq L
        /\ c.command \in L /\ c.form \in L /\ Path1(c) \in L
        /\ c.creds # "none" /\ c.proto = "socks4" => "id" \in L
        /\ c.creds # "none" /\ c.proto # "socks4" => "Proxy-Authorization: Basic " \in L
    BY DEF Letters, Announced
  <1> HIDE DEF L
  <1>2. /\ \A a \in L : <<a>> \in Seq(L) /\ Begins(L, <<a>>, a)
        /\ \A a, b \in L : <<a, b>> \in Seq(L) /\ Begins(L, <<a, b>>, a)
        /\ \A a, b, d \in L : <<a, b, d>> \in Seq(L) /\ Begins(L, <<a, b, d>>, a)
        /\ \A a, b, d, e \in L : <<a, b, d, e>> \in Seq(L)
        /\ <<>> \in Seq(L)
    BY DEF Begins
  <1>3. /\ Name \in Seq(L)
        /\ c.proto = "socks4" => UserId(c) \in Seq(L)
        /\ c.proto # "socks4" => Credentials(c) \in Seq(L)
    BY <1>1, <1>2 DEF Name, UserId, Credentials
  <1>4. CASE c.proto = "socks5"
    <2> DEFINE m1 == <<"05", "methods">>
               m2 == <<"01", "name and password">>
               p  == <<"05", c.command, c.form>>
               q  == IF c.form = "03" THEN <<"length">> \o Name ELSE <<"ip">>
               m3 == p \o q
    <2>1. Begins(L, m1, "05") /\ Begins(L, m2, "01") /\ Begins(L, p, "05")
      BY <1>1, <1>2
    <2>2. q \in Seq(L)
      BY <1>1, <1>2, <1>3, Joins
    <2>3. Handshake(c, auth) = (<<m1>> \o (IF auth THEN <<m2>> ELSE <<>>)) \o <<m3>>
      BY <1>4 DEF Handshake
    <2>4. Opening(c) = "05"
      BY <1>4 DEF Opening
    <2> HIDE DEF m1, m2, p, q
    <2>5. Begins(L, m3, "05")
      BY <2>1, <2>2, Joins DEF Begins
    <2> HIDE DEF m3
    <2>6. m1 \in Seq(L) /\ m2 \in Seq(L) /\ m3 \in Seq(L) /\ m1 # <<>> /\ m2 # <<>> /\ m3 # <<>>
      BY <2>1, <2>5 DEF Begins
    <2>7. Handshake(c, auth) = IF auth THEN <<m1, m2, m3>> ELSE <<m1, m3>>
      BY <2>3, <2>6, Tupled
    <2>8. CASE auth
      BY <1>4, <2>1, <2>4, <2>6, <2>7, <2>8 DEF L
    <2>9. CASE ~auth
      BY <1>4, <2>1, <2>4, <2>6, <2>7, <2>9 DEF L
    <2> QED
      BY <2>8, <2>9
  <1>5. ASSUME NEW m, Handshake(c, auth) = <<m>>, Begins(L, m, Opening(c)), c.proto # "socks5"
        PROVE  /\ Handshake(c, auth) \in Seq(Seq(Letters(c)))
               /\ Len(Handshake(c, auth)) \in 1 .. 3
               /\ c.proto # "socks5" => Len(Handshake(c, auth)) = 1
               /\ \A k \in 1 .. Len(Handshake(c, auth)) : Handshake(c, auth)[k] # <<>>
               /\ Begins(Letters(c), Handshake(c, auth)[1], Opening(c))
    <2>1. m \in Seq(L) /\ m # <<>>
      BY <1>5 DEF Begins
    <2>2. <<m>> \in Seq(Seq(L)) /\ Len(<<m>>) = 1 /\ <<m>>[1] = m
      BY <2>1
    <2> QED
      BY <1>5, <2>1, <2>2 DEF L
  <1>6. CASE c.proto = "socks4"
    <2> DEFINE p == <<"04", c.command, c.form>>
               q == UserId(c)
               r == <<"NUL">>
               t == IF c.form = "ip" THEN <<>> ELSE Name \o <<"NUL">>
               m == ((p \o q) \o r) \o t
    <2>1. Begins(L, p, "04") /\ q \in Seq(L) /\ r \in Seq(L) /\ t \in Seq(L)
      <3>1. p \in Seq(L) /\ Begins(L, p, "04") /\ r \in Seq(L) /\ <<>> \in Seq(L)
        BY <1>1, <1>2
      <3>2. q \in Seq(L) /\ Name \in Seq(L)
        BY <1>3, <1>6
      <3> HIDE DEF p, q
      <3>3. t \in Seq(L)
        BY <3>1, <3>2, Joins
      <3> QED
        BY <3>1, <3>2, <3>3
    <2>2. Handshake(c, auth) = <<m>> /\ Opening(c) = "04"
      BY <1>6 DEF Handshake, Opening
    <2> HIDE DEF p, q, r, t
    <2>3. Begins(L, p \o q, "04")
      BY <2>1, Joins DEF Begins
    <2>4. Begins(L, (p \o q) \o r, "04")
      BY <2>1, <2>3, Joins DEF Begins
    <2>5. Begins(L, m, "04")
      BY <2>1, <2>4, Joins DEF Begins
    <2> HIDE DEF m
    <2> QED
      BY <1>5, <1>6, <2>2, <2>5
  <1>7. CASE c.proto = "https"
    <2> DEFINE p == <<"CONNECT">>
               q == Name
               r == <<"EOL">>
               t == Credentials(c)
               m == (((p \o q) \o r) \o t) \o r
    <2>1. Begins(L, p, "CONNECT") /\ q \in Seq(L) /\ r \in Seq(L) /\ t \in Seq(L)
      <3>1. Begins(L, p, "CONNECT") /\ r \in Seq(L)
        BY <1>1, <1>2
      <3>2. q \in Seq(L) /\ t \in Seq(L)
        BY <1>3, <1>7
      <3> QED
        BY <3>1, <3>2
    <2>2. Handshake(c, auth) = <<m>> /\ Opening(c) = "CONNECT"
      BY <1>7 DEF Handshake, Opening
    <2> HIDE DEF p, q, r, t
    <2>3. Begins(L, p \o q, "CONNECT")
      BY <2>1, Joins DEF Begins
    <2>4. Begins(L, (p \o q) \o r, "CONNECT")
      BY <2>1, <2>3, Joins DEF Begins
    <2>5. Begins(L, ((p \o q) \o r) \o t, "CONNECT")
      BY <2>1, <2>4, Joins DEF Begins
    <2>6. Begins(L, m, "CONNECT")
      BY <2>1, <2>5, Joins DEF Begins
    <2> HIDE DEF m
    <2> QED
      BY <1>5, <1>7, <2>2, <2>6
  <1>8. CASE c.proto = "http"
    <2> DEFINE p == <<"GET">>
               q == IF c.form = "origin" THEN <<>> ELSE <<"http://">> \o Name
               r == <<Path1(c), "EOL", "Host: ">>
               n == Name
               e == <<"EOL">>
               t == Credentials(c)
               m == (((((p \o q) \o r) \o n) \o e) \o t) \o e
    <2>1. /\ Begins(L, p, "GET") /\ q \in Seq(L) /\ r \in Seq(L) /\ n \in Seq(L)
          /\ e \in Seq(L) /\ t \in Seq(L)
      <3>1. Begins(L, p, "GET") /\ r \in Seq(L) /\ e \in Seq(L) /\ <<>> \in Seq(L)
        BY <1>1, <1>2
      <3>2. n \in Seq(L) /\ t \in Seq(L)
        BY <1>3, <1>8
      <3>3. <<"http://">> \o Name \in Seq(L)
        BY <1>1, <1>2, <1>3, Joins
      <3> QED
        BY <3>1, <3>2, <3>3
    <2>2. Handshake(c, auth) = <<m>> /\ Opening(c) = "GET"
      BY <1>8 DEF Handshake, Opening
    <2> HIDE DEF p, q, r, n, e, t
    <2>3. Begins(L, p \o q, "GET")
      BY <2>1, Joins DEF Begins
    <2>4. Begins(L, (p \o q) \o r, "GET")
      BY <2>1, <2>3, Joins DEF Begins
    <2>5. Begins(L, ((p \o q) \o r) \o n, "GET")
      BY <2>1, <2>4, Joins DEF Begins
    <2>6. Begins(L, (((p \o q) \o r) \o n) \o e, "GET")
      BY <2>1, <2>5, Joins DEF Begins
    <2>7. Begins(L, ((((p \o q) \o r) \o n) \o e) \o t, "GET")
      BY <2>1, <2>6, Joins DEF Begins
    <2>8. Begins(L, m, "GET")
      BY <2>1, <2>7, Joins DEF Begins
    <2> HIDE DEF m
    <2> QED
      BY <1>5, <1>8, <2>2, <2>8
  <1>9. CASE c.proto = "other"
    <2>1. Handshake(c, auth) = <<<<"?">>>> /\ Opening(c) = "?"
      BY <1>9 DEF Handshake, Opening
    <2>2. Begins(L, <<"?">>, "?")
      BY <1>1, <1>2
    <2> QED
      BY <1>5, <1>9, <2>1, <2>2
  <1> QED
    BY <1>4, <1>6, <1>7, <1>8, <1>9, ClientType

LEMMA ScriptType ==
    ASSUME NEW c \in Client, NEW auth
    PROVE  /\ Script(c, auth) \in Seq(Seq(Letters(c)))
           /\ Len(Script(c, auth)) \in Nat
           /\ \A k \in 1 .. Len(Script(c, auth)) : /\ Script(c, auth)[k] \in Seq(Letters(c))
                                                   /\ Script(c, auth)[k] # <<>>
           /\ Begins(Letters(c), Script(c, auth)[1], Opening(c))
  <1> DEFINE L == Letters(c)
             H == Handshake(c, auth)
             P == <<"payload">>
             B == <<"body">>
             S == Script(c, auth)
  <1>1. P \in Seq(L) /\ B \in Seq(L) /\ P # <<>>
    <2>1. "payload" \in L /\ "body" \in L
      BY DEF Letters
    <2> HIDE DEF L
    <2> QED
      BY <2>1
  <1>2. /\ H \in Seq(Seq(L)) /\ Len(H) \in 1 .. 3
        /\ \A k \in 1 .. Len(H) : H[k] # <<>>
        /\ Begins(L, H[1], Opening(c))
    BY HandshakeType
  <1>3. S = IF c.proto = "http" THEN <<H[1] \o B>> ELSE Append(H, P)
    BY DEF Script
  <1> HIDE DEF L, H, P, B, S
  <1>4. CASE c.proto = "http"
    <2>1. Begins(L, H[1] \o B, Opening(c))
      BY <1>1, <1>2, Joins DEF Begins
    <2>2. H[1] \o B \in Seq(L) /\ H[1] \o B # <<>>
      BY <2>1 DEF Begins
    <2> DEFINE m == H[1] \o B
    <2>3. S = <<m>> /\ m \in Seq(L) /\ m # <<>> /\ Begins(L, m, Opening(c))
      BY <1>3, <1>4, <2>1, <2>2
    <2> HIDE DEF m
    <2>4. S \in Seq(Seq(L)) /\ Len(S) = 1 /\ S[1] = m
      BY <2>3
    <2> QED
      BY <2>3, <2>4 DEF L, S
  <1>5. CASE c.proto # "http"
    <2>1. /\ S \in Seq(Seq(L)) /\ Len(S) = Len(H) + 1
          /\ \A i \in 1 .. Len(H) : S[i] = H[i]
          /\ S[Len(H) + 1] = P
      BY <1>1, <1>2, <1>3, <1>5, AppendProperties
    <2>2. Len(H) \in Nat /\ 1 \in 1 .. Len(H)
      BY <1>2
    <2>3. \A k \in 1 .. Len(S) : S[k] \in Seq(L)
      BY <2>1
    <2>4. \A k \in 1 .. Len(S) : k \in 1 .. Len(H) \/ k = Len(H) + 1
      BY <2>1, <2>2
    <2>5. \A k \in 1 .. Len(S) : S[k] # <<>>
      BY <1>1, <1>2, <2>1, <2>4
    <2>6. Begins(L, S[1], Opening(c))
      BY <1>2, <2>1, <2>2
    <2> QED
      BY <2>1, <2>2, <2>3, <2>5, <2>6 DEF L, S
  <1> QED
    BY <1>4, <1>5

-------------------------------------------------------------------------------
(* What an upstream, and the target behind it, send *)

\* What the target has said when it has said n units.
Data(n) == [k \in 1 .. n |-> "data"]

\* The words in which an HTTP hop says that it has connected.
Phrases == {"200 Connection Established", "200 OK"}
Types   == {"01", "03", "04", "FF"}
Methods == {"00", "02", "FF"}

\* Everything upstreams and targets send and clients are told.
Units == {"00", "01", "02", "03", "04", "05", "5A", "FF", "length", "address",
          "HTTP/1.1", "CRLF", "data"} \cup Phrases

LEMMA DataType ==
    ASSUME NEW n \in Nat
    PROVE  Data(n) \in Seq(Units) /\ Len(Data(n)) = n
  <1> DEFINE unit == "data"
             d    == [k \in 1 .. n |-> unit]
  <1>1. unit \in Units
    BY DEF Units
  <1> HIDE DEF unit
  <1>2. d \in Seq(Units) /\ Len(d) = n
    BY <1>1
  <1> QED
    BY <1>2 DEF Data, unit

LEMMA NoData == Data(0) = <<>>
  BY DEF Data

\* Reading the units u of u \o t leaves t (every read_exact of
\* src/protocols/socks4.rs, http.rs and https.rs).
LEMMA Cut ==
    ASSUME NEW u \in Seq(Units), NEW t \in Seq(Units)
    PROVE  /\ u \o t \in Seq(Units)
           /\ Len(u \o t) = Len(u) + Len(t)
           /\ \A i \in 1 .. Len(u) : (u \o t)[i] = u[i]
           /\ SubSeq(u \o t, Len(u) + 1, Len(u \o t)) = t
  <1>1. /\ u \o t \in Seq(Units) /\ Len(u) \in Nat /\ Len(t) \in Nat
        /\ Len(u \o t) = Len(u) + Len(t)
        /\ \A i \in 1 .. Len(u) + Len(t) :
              (u \o t)[i] = IF i <= Len(u) THEN u[i] ELSE t[i - Len(u)]
    BY ConcatProperties
  <1>2. \A i \in 1 .. Len(u) : (u \o t)[i] = u[i]
    BY <1>1
  <1> DEFINE whole == u \o t
             m == Len(u) + 1
             n == Len(u) + Len(t)
             rest == SubSeq(whole, m, n)
  <1>3. rest = t
    <2>1. \A i \in m .. n : whole[i] \in Units
      BY <1>1
    <2>2. m \in Int /\ n \in Int
      BY <1>1
    <2> HIDE DEF m, n, whole
    <2>3. /\ rest \in Seq(Units)
          /\ Len(rest) = IF m <= n THEN n - m + 1 ELSE 0
          /\ \A i \in 1 .. n - m + 1 : rest[i] = whole[m + i - 1]
      BY <2>1, <2>2, SubSeqProperties
    <2> HIDE DEF rest
    <2>4. Len(rest) = Len(t)
      BY <1>1, <2>3 DEF m, n
    <2>5. \A i \in 1 .. Len(rest) : rest[i] = t[i]
      <3> SUFFICES ASSUME NEW i \in 1 .. Len(t) PROVE rest[i] = t[i]
        BY <2>4
      <3>1. i \in 1 .. n - m + 1 /\ m + i - 1 = Len(u) + i
        BY <1>1 DEF m, n
      <3>2. rest[i] = whole[Len(u) + i]
        BY <2>3, <3>1
      <3>3. /\ Len(u) + i \in 1 .. Len(u) + Len(t) /\ ~(Len(u) + i <= Len(u))
            /\ Len(u) + i - Len(u) = i
        BY <1>1
      <3> QED
        BY <1>1, <3>2, <3>3 DEF whole
    <2> QED
      BY <2>3, <2>4, <2>5, SeqEqual
  <1> QED
    BY <1>1, <1>2, <1>3

\* What the target says goes behind everything else.
LEMMA DataGrows ==
    ASSUME NEW u \in Seq(Units), NEW n \in Nat
    PROVE  Append(u \o Data(n), "data") = u \o Data(n + 1)
  <1> DEFINE unit == "data"
             one  == <<unit>>
  <1>1. unit \in Units
    BY DEF Units
  <1>2. Data(n) \in Seq(Units) /\ Data(n + 1) \in Seq(Units) /\ Len(Data(n)) = n
    BY DataType
  <1>3. Data(n + 1) = Append(Data(n), unit)
    <2>1. /\ Append(Data(n), unit) \in Seq(Units) /\ Len(Append(Data(n), unit)) = n + 1
          /\ \A i \in 1 .. n : Append(Data(n), unit)[i] = Data(n)[i]
          /\ Append(Data(n), unit)[n + 1] = unit
      BY <1>1, <1>2, AppendProperties
    <2>2. Len(Data(n + 1)) = n + 1
      BY DataType
    <2>3. \A i \in 1 .. n + 1 : Data(n + 1)[i] = unit
      BY DEF Data
    <2>4. \A i \in 1 .. n : Data(n)[i] = unit
      BY DEF Data
    <2> HIDE DEF unit
    <2>5. \A i \in 1 .. n + 1 : Data(n + 1)[i] = Append(Data(n), unit)[i]
      BY <2>1, <2>3, <2>4
    <2> QED
      BY <1>2, <2>1, <2>2, <2>5, SeqEqual
  <1> HIDE DEF unit
  <1>4. one \in Seq(Units)
    BY <1>1
  <1>5. Data(n + 1) = Data(n) \o one
    BY <1>1, <1>2, <1>3, AppendIsConcat
  <1>6. u \o Data(n) \in Seq(Units)
    BY <1>2, ConcatProperties
  <1>7. Append(u \o Data(n), unit) = (u \o Data(n)) \o one
    BY <1>1, <1>6, AppendIsConcat
  <1> HIDE DEF one
  <1>8. (u \o Data(n)) \o one = u \o (Data(n) \o one)
    BY <1>2, <1>4, ConcatAssociative
  <1> QED
    BY <1>5, <1>7, <1>8 DEF unit

\* Short sequences of units.
LEMMA Tuples ==
    /\ \A a \in Units : <<a>> \in Seq(Units) /\ Len(<<a>>) = 1
    /\ \A a, b \in Units : <<a, b>> \in Seq(Units) /\ Len(<<a, b>>) = 2
    /\ \A a, b, c \in Units : <<a, b, c>> \in Seq(Units) /\ Len(<<a, b, c>>) = 3
  OBVIOUS

LEMMA UnitsHold ==
    /\ Methods \subseteq Units /\ Types \subseteq Units /\ Phrases \subseteq Units
    /\ {"00", "01", "02", "03", "04", "05", "5A", "FF", "length", "address", "HTTP/1.1",
        "CRLF", "data"} \subseteq Units
    /\ \A type \in Types : Address(type) \in Seq(Units)
  <1>1. /\ Methods \subseteq Units /\ Types \subseteq Units /\ Phrases \subseteq Units
        /\ {"00", "01", "02", "03", "04", "05", "5A", "FF", "length", "address", "HTTP/1.1",
            "CRLF", "data"} \subseteq Units
    BY DEF Methods, Types, Phrases, Units
  <1>2. <<>> \in Seq(Units) /\ <<"address">> \in Seq(Units) /\ <<"length", "address">> \in Seq(Units)
    BY <1>1, Tuples
  <1>3. \A type \in Types : Address(type) \in Seq(Units)
    BY <1>2 DEF Types, Address
  <1> QED
    BY <1>1, <1>3

\* What is found in a read of n units is one of these units.
LEMMA Found ==
    ASSUME NEW w \in Seq(Units), NEW n \in 1 .. Len(w), NEW x \in ToSet(SubSeq(w, 1, n))
    PROVE  \E j \in 1 .. n : w[j] = x
  <1> DEFINE part == SubSeq(w, 1, n)
  <1>1. Len(w) \in Nat /\ \A i \in 1 .. Len(w) : w[i] \in Units
    BY LenProperties
  <1>2. n \in Nat /\ 1 <= n /\ \A i \in 1 .. n : w[i] \in Units
    BY <1>1
  <1>3. /\ part \in Seq(Units) /\ Len(part) = IF 1 <= n THEN n - 1 + 1 ELSE 0
        /\ \A i \in 1 .. n - 1 + 1 : part[i] = w[1 + i - 1]
    BY <1>2, SubSeqProperties
  <1>4. x \in ToSet(part)
    OBVIOUS
  <1> HIDE DEF part
  <1>5. DOMAIN part = 1 .. n
    BY <1>2, <1>3, LenProperties
  <1>6. PICK j \in 1 .. n : part[j] = x
    BY <1>4, <1>5 DEF ToSet
  <1>7. j \in 1 .. n - 1 + 1 /\ 1 + j - 1 = j
    BY <1>2
  <1> QED
    BY <1>3, <1>6, <1>7

-------------------------------------------------------------------------------
(* The invariant of a connection over one upstream *)

Names5 == {"greeting", "login", "request", "count", "host", "ip", "chain"}
Before5 == {"first", "route"} \cup Names5
Handling == {"account", "dial", "next"} \cup Replies

\* The kind of upstream that a reply is awaited from.
Speaker(reply) == CASE reply = "granted" -> "socks4"
                    [] reply = "status"  -> "http"
                    [] OTHER             -> "socks5"

\* What is still to be read of the answer of an upstream that refuses, and of one
\* that has connected, by what is awaited.
Refusals(reply) ==
    CASE reply = "method"  -> {<<"05", m>> : m \in Methods}
      [] reply = "verdict" -> {<<"01", v>> : v \in {"00", "FF"}}
      [] reply = "header"  -> {<<"05", "FF", "01">> \o <<"address">>}
      [] reply = "granted" -> {<<"00", "FF">>}
      [] reply = "status"  -> {<<"HTTP/1.1", "FF", "CRLF">>}
      [] OTHER             -> {}

Grants(reply) ==
    CASE reply = "header"  -> {<<"05", "00", type>> \o Address(type) : type \in Types}
      [] reply = "length"  -> {<<"length", "address">>}
      [] reply = "address" -> {<<"address">>}
      [] reply = "granted" -> {<<"00", "5A">>}
      [] reply = "status"  -> {<<"HTTP/1.1", code, "CRLF">> : code \in Phrases}
      [] OTHER             -> {}

\* Where the connection is, and whose it is.
Placed ==
    /\ wait \in Before5 \cup {"account", "dial"} =>
          at = Nowhere /\ request = Nobody /\ wire = <<>> /\ said = 0
    /\ wait \in (Before5 \ {"chain"}) \cup {"account", "dial"} => asked = NoName
    /\ wait \in Names5 => client.proto = "socks5"
    /\ wait \in Handling => client.proto \in {"socks4", "http", "https"}
    /\ wait \in {"first", "route", "account", "dial"} \cup Replies => told = <<>>
    /\ wait \in Replies \cup {"next"} => ~path.multi
    /\ wait \in Replies => path.hop.kind = Speaker(wait)
    /\ wait = "status" => client.proto # "http"
    /\ wait \in Replies \ {"granted"} => asked # NoName
    /\ request # Nobody =>
          /\ at = AtHop /\ request.ask \in {"greeting", "credentials", "connect"}
          /\ request.ask = "connect" => request.to = asked /\ asked # NoName
    /\ at \in {Nowhere, AtHop} => said = 0
    /\ asked \in {NoName} \cup Seq(Letters(client))

\* What the client has sent begins with what it is detected by.
Recognised ==
    /\ inbox \in Seq(Letters(client)) /\ taken \in Seq(Letters(client))
    /\ wait = "first" =>
          /\ sent = 0 /\ ~gone => inbox = <<>>
          /\ sent > 0 => inbox # <<>>
          /\ inbox # <<>> => inbox[1] = Opening(client)
    /\ wait \notin {"first", "failed"} =>
          Begins(Letters(client), taken, Opening(client)) /\ client.proto # "other"

\* Nothing is on its way to the router but the answer it waits for and, behind it,
\* what the target has said.
Talking ==
    wait \in Replies =>
       \/ at = AtHop /\ wire = <<>>
       \/ request = Nobody /\ at = AtHop /\ wire \in Refusals(wait)
       \/ request = Nobody /\ at = asked /\ \E u \in Grants(wait) : wire = u \o Data(said)

\* A client whose upstream answers in its own protocol has been told with it.
Answered ==
    wait = "next" =>
       /\ at = asked
       /\ path.hop.kind # "http" => wire = Data(said)
       /\ path.hop.kind = "http" => client.proto # "http"
       /\ IF client.proto = "socks4" /\ path.hop.kind = "socks4" THEN told = <<Granted>>
          ELSE IF client.proto = "https" /\ path.hop.kind = "http"
          THEN Len(told) = 1 /\ told[1] \o wire = Established \o Data(said)
          ELSE told = <<>>

Streams == wire \in Seq(Units) /\ told \in Seq(Seq(Units))

ServedInv ==
    /\ TypeOK /\ Placed /\ Recognised /\ Talking /\ Answered /\ Streams
    /\ wait = "open" => ReturnsTheStream

-------------------------------------------------------------------------------

LEMMA CaseType ==
    ASSUME ServedInv
    PROVE  /\ client \in Client /\ path \in Path
           /\ script \in Seq(Seq(Letters(client))) /\ Len(script) \in Nat
           /\ \A k \in 1 .. Len(script) : script[k] \in Seq(Letters(client)) /\ script[k] # <<>>
           /\ Begins(Letters(client), script[1], Opening(client))
  <1>1. PICK c \in Cases : client = c.client /\ path = c.path
    BY DEF ServedInv, TypeOK
  <1>2. c \in [client : Client, path : Path]
    BY InboundAssumption
  <1>3. client \in Client /\ path \in Path
    BY <1>1, <1>2
  <1> QED
    BY <1>3, ScriptType DEF script

\* The places where a stream may end are no names.
LEMMA NamesApart ==
    ASSUME NEW c \in Client, NEW s \in Seq(Letters(c))
    PROVE  s # Nowhere /\ s # AtHop /\ s # NoName
  <1>1. "nowhere" \notin Letters(c) /\ "hop" \notin Letters(c) /\ "no name" \notin Letters(c)
    BY ClientType DEF Letters, Announced, Path1
  <1>2. /\ Len(Nowhere) = 1 /\ Nowhere[1] = "nowhere"
        /\ Len(AtHop) = 1 /\ AtHop[1] = "hop"
        /\ Len(NoName) = 1 /\ NoName[1] = "no name"
    BY DEF Nowhere, AtHop, NoName
  <1>3. Len(s) = 1 => s[1] \in Letters(c)
    OBVIOUS
  <1> QED
    BY <1>1, <1>2, <1>3

LEMMA Distinct == Nowhere # AtHop /\ Nowhere # NoName /\ AtHop # NoName
  <1>1. /\ Nowhere[1] = "nowhere" /\ AtHop[1] = "hop" /\ NoName[1] = "no name"
    BY DEF Nowhere, AtHop, NoName
  <1> QED
    BY <1>1

\* A part of a sequence of units is one.
LEMMA PartType ==
    ASSUME NEW S, NEW s \in Seq(S), NEW m \in Nat, NEW n \in Nat, m > 0, n <= Len(s)
    PROVE  SubSeq(s, m, n) \in Seq(S)
  <1>1. \A i \in m .. n : s[i] \in S
    <2>1. Len(s) \in Nat /\ \A i \in 1 .. Len(s) : s[i] \in S
      OBVIOUS
    <2> QED
      BY <2>1
  <1> QED
    BY <1>1, SubSeqProperties

\* The first units of a sequence begin with its first.
LEMMA FirstPart ==
    ASSUME NEW S, NEW s \in Seq(S), NEW n \in 1 .. Len(s)
    PROVE  Begins(S, SubSeq(s, 1, n), s[1])
  <1>1. Len(s) \in Nat /\ n \in Nat /\ n <= Len(s) /\ n >= 1
    OBVIOUS
  <1>2. SubSeq(s, 1, n) \in Seq(S)
    BY <1>1, PartType
  <1>3. \A i \in 1 .. n : s[i] \in S
    BY <1>1
  <1> DEFINE p == SubSeq(s, 1, n)
  <1>4. /\ Len(p) = IF 1 <= n THEN n - 1 + 1 ELSE 0
        /\ \A i \in 1 .. n - 1 + 1 : p[i] = s[1 + i - 1]
    BY <1>1, <1>3, SubSeqProperties
  <1> HIDE DEF p
  <1>5. Len(p) = n /\ p[1] = s[1]
    BY <1>1, <1>4
  <1>6. p # <<>>
    BY <1>1, <1>5
  <1> QED
    BY <1>2, <1>5, <1>6 DEF p, Begins

-------------------------------------------------------------------------------
(* The client's side *)

LEMMA SameConversation ==
    ASSUME ServedInv, TypeOK', Recognised',
           UNCHANGED <<client, path, wait, request, wire, at, said, asked, told>>
    PROVE  ServedInv'
  <1>1. Placed'
    BY DEF ServedInv, Placed
  <1>2. Data(said)' = Data(said)
    BY DEF Data
  <1>3. Talking' /\ Answered' /\ Streams'
    BY <1>2 DEF ServedInv, Talking, Answered, Streams
  <1>4. wait' = "open" => ReturnsTheStream'
    BY DEF ServedInv, ReturnsTheStream, Answer
  <1> QED
    BY <1>1, <1>3, <1>4 DEF ServedInv

\* Whoever gives up, nothing is claimed but types.
LEMMA Dropping ==
    ASSUME ServedInv, wait' = "failed",
           UNCHANGED <<client, path, sent, gone, taken, user, selected, asked, request, at, said>>,
           inbox' \in Seq(Letters(client)), closed' \in BOOLEAN, Streams'
    PROVE  ServedInv'
  <1>1. TypeOK'
    BY DEF ServedInv, TypeOK, script, Outcomes
  <1>2. Placed'
    BY DEF ServedInv, Placed, Before5, Names5, Handling, Replies
  <1>3. Recognised'
    BY DEF ServedInv, Recognised
  <1>4. Talking' /\ Answered'
    BY DEF Talking, Answered, Replies
  <1> QED
    BY <1>1, <1>2, <1>3, <1>4 DEF ServedInv

LEMMA FailsKeeps ==
    ASSUME ServedInv, Fails
    PROVE  ServedInv'
  <1>1. /\ wait' = "failed"
        /\ UNCHANGED <<client, path, sent, gone, taken, user, selected, asked, request, at,
                       said, inbox, closed, wire, told>>
    BY DEF Fails, fixed, stream, verdicts, hopside
  <1>2. inbox' \in Seq(Letters(client)) /\ closed' \in BOOLEAN /\ Streams'
    BY <1>1 DEF ServedInv, Recognised, TypeOK, Streams
  <1> QED
    BY <1>1, <1>2, Dropping

\* A message, or a part of one, goes behind what has arrived.
LEMMA Arrives ==
    ASSUME ServedInv, NEW m, m \in Seq(Letters(client)), m # <<>>,
           inbox' = inbox \o m, sent' \in 0 .. Len(script), gone' \in BOOLEAN, ~gone,
           sent = 0 => m[1] = Opening(client),
           sent' = 0 => gone',
           UNCHANGED <<client, path, taken, user, selected, wait, request, wire, at, closed, said, asked, told>>
    PROVE  ServedInv'
  <1>1. TypeOK'
    BY DEF ServedInv, TypeOK, script
  <1>2. inbox \in Seq(Letters(client))
    BY DEF ServedInv, Recognised
  <1>3. inbox \o m \in Seq(Letters(client))
    BY <1>2, Joins
  <1>4. wait = "first" => inbox \o m # <<>> /\ (inbox \o m)[1] = Opening(client)
    <2>1. CASE inbox = <<>>
      <3>1. inbox \o m = m
        BY <2>1, ConcatEmptySeq
      <3>2. wait = "first" => sent = 0
        <4>1. sent \in 0 .. Len(script) /\ Len(script) \in Nat
          BY CaseType DEF ServedInv, TypeOK
        <4>2. wait = "first" => ~(sent > 0)
          BY <2>1 DEF ServedInv, Recognised
        <4> QED
          BY <4>1, <4>2
      <3> QED
        BY <3>1, <3>2
    <2>2. CASE inbox # <<>>
      <3>1. Begins(Letters(client), inbox, inbox[1])
        BY <1>2, <2>2 DEF Begins
      <3>2. Begins(Letters(client), inbox \o m, inbox[1])
        BY <1>2, <3>1, Joins
      <3>3. wait = "first" => inbox[1] = Opening(client)
        BY <2>2 DEF ServedInv, Recognised
      <3> QED
        BY <3>2, <3>3 DEF Begins
    <2> QED
      BY <2>1, <2>2
  <1>5. Letters(client)' = Letters(client) /\ Opening(client)' = Opening(client)
    BY DEF Letters, Opening, Path1
  <1>6. Recognised'
    BY <1>3, <1>4, <1>5 DEF ServedInv, Recognised
  <1> QED
    BY <1>1, <1>6, SameConversation

LEMMA SendsKeeps ==
    ASSUME ServedInv, Sends
    PROVE  ServedInv'
  <1> DEFINE m == script[sent + 1]
  <1>1. /\ sent \in Nat /\ sent < Len(script) /\ Len(script) \in Nat /\ ~gone
        /\ inbox' = inbox \o m /\ sent' = sent + 1 /\ gone' = gone
        /\ UNCHANGED <<client, path, taken, user, selected, wait, request, wire, at, closed,
                       said, asked, told>>
    <2>1. Len(script) \in Nat
      BY CaseType
    <2> QED
      BY <2>1 DEF Sends, MaySend, ServedInv, TypeOK, fixed, verdicts, hopside
  <1>2. sent + 1 \in 1 .. Len(script)
    BY <1>1
  <1>3. m \in Seq(Letters(client)) /\ m # <<>>
    BY <1>2, CaseType
  <1>4. sent = 0 => m[1] = Opening(client)
    BY CaseType DEF Begins
  <1>5. sent' \in 0 .. Len(script) /\ gone' \in BOOLEAN /\ ~(sent' = 0)
    <2>1. gone' \in BOOLEAN
      BY <1>1 DEF ServedInv, TypeOK
    <2>2. sent' \in 0 .. Len(script) /\ ~(sent' = 0)
      BY <1>1, <1>2
    <2> QED
      BY <2>1, <2>2
  <1> HIDE DEF m
  <1> QED
    BY <1>1, <1>3, <1>4, <1>5, Arrives

LEMMA LeavesKeeps ==
    ASSUME ServedInv, Leaves
    PROVE  ServedInv'
  <1>1. /\ ~gone /\ gone' = TRUE
        /\ UNCHANGED <<client, path, sent, taken, user, selected, wait, request, wire, at, closed,
                       said, asked, told>>
    BY DEF Leaves, fixed, verdicts, hopside
  <1>2. CASE inbox' = inbox
    <2>1. TypeOK'
      BY <1>1 DEF ServedInv, TypeOK, script
    <2>2. Recognised'
      BY <1>1, <1>2 DEF ServedInv, Recognised
    <2> QED
      BY <1>1, <2>1, <2>2, SameConversation
  <1>3. ASSUME MaySend, NEW n \in 1 .. Len(script[sent + 1]) - 1,
               inbox' = inbox \o SubSeq(script[sent + 1], 1, n)
        PROVE  ServedInv'
    <2> DEFINE whole == script[sent + 1]
               m == SubSeq(whole, 1, n)
    <2>1. sent \in Nat /\ sent < Len(script) /\ Len(script) \in Nat /\ sent \in 0 .. Len(script)
      <3>1. Len(script) \in Nat
        BY CaseType
      <3> QED
        BY <1>3, <3>1 DEF MaySend, ServedInv, TypeOK
    <2>2. sent + 1 \in 1 .. Len(script)
      BY <2>1
    <2>3. whole \in Seq(Letters(client))
      BY <2>2, CaseType
    <2>4. sent = 0 => whole[1] = Opening(client)
      BY CaseType DEF Begins
    <2> HIDE DEF whole
    <2>5. n \in 1 .. Len(whole)
      <3>1. Len(whole) \in Nat /\ n \in 1 .. Len(whole) - 1
        BY <1>3, <2>3 DEF whole
      <3> QED
        BY <3>1
    <2>6. Begins(Letters(client), m, whole[1])
      BY <2>3, <2>5, FirstPart
    <2>7. inbox' = inbox \o m
      BY <1>3 DEF whole
    <2> HIDE DEF m
    <2>8. m \in Seq(Letters(client)) /\ m # <<>> /\ (sent = 0 => m[1] = Opening(client))
      BY <2>4, <2>6 DEF Begins
    <2> QED
      BY <1>1, <2>1, <2>7, <2>8, Arrives
  <1> QED
    BY <1>2, <1>3 DEF Leaves

\* A step towards the handlers.
LEMMA Advances ==
    ASSUME ServedInv, wait \in {"first", "route", "account"} \cup (Names5 \ {"chain"}),
           wait' \in {"route", "account", "dial"} \cup Names5,
           UNCHANGED <<client, path, sent, gone, request, wire, at, closed, said>>,
           user' \in {"nobody", "user", "address"},
           selected' \in {"nothing", "tokens", "default"},
           asked' = asked \/ (wait' = "chain" /\ asked' \in Seq(Letters(client))),
           wait' \in Names5 => client.proto = "socks5",
           wait' \in {"account", "dial"} => client.proto \in {"socks4", "http", "https"},
           wait' \in {"route", "account", "dial"} => told' = <<>>,
           told' \in Seq(Seq(Units)), Recognised'
    PROVE  ServedInv'
  <1>1. /\ at = Nowhere /\ request = Nobody /\ wire = <<>> /\ said = 0 /\ asked = NoName
    BY DEF ServedInv, Placed, Before5, Names5
  <1>2. asked' \in {NoName} \cup Seq(Letters(client))
    BY <1>1
  <1>3. asked' = NoName \/ wait' = "chain"
    BY <1>1
  <1>4. wait' \in {"route", "account", "dial", "greeting", "login", "request", "count", "host",
                   "ip", "chain"}
    BY DEF Names5
  <1>5. TypeOK'
    BY <1>1, <1>4 DEF ServedInv, TypeOK, script
  <1>6. Placed'
    BY <1>1, <1>2, <1>3, <1>4 DEF Placed, Before5, Names5, Handling, Replies
  <1>7. Talking' /\ Answered' /\ Streams' /\ wait' # "open"
    BY <1>4 DEF Talking, Answered, Replies, Streams, ServedInv
  <1> QED
    BY <1>5, <1>6, <1>7 DEF ServedInv

LEMMA DetectedAsItIs ==
    ASSUME NEW c \in Client, NEW s, Begins(Letters(c), s, Opening(c))
    PROVE  Detected(s) = c.proto
  BY ClientType DEF Begins, Opening, Detected

\* What the first read returns is taken for the whole request
\* (src/protocols/proxy.rs:571-640).
LEMMA FirstReadKeeps ==
    ASSUME ServedInv, FirstRead
    PROVE  ServedInv'
  <1>1. PICK n \in 1 .. Len(inbox) :
           /\ Receives("first", n) /\ taken' = SubSeq(inbox, 1, n)
           /\ IF Detected(taken') = "other" THEN wait' = "failed" ELSE wait' = "route"
           /\ UNCHANGED <<told, verdicts, asked, passed>>
    BY DEF FirstRead
  <1> DEFINE L == Letters(client)
  <1>2. /\ wait = "first" /\ inbox' = SubSeq(inbox, n + 1, Len(inbox))
        /\ UNCHANGED <<client, path, sent, gone, user, selected, asked, told,
                       request, wire, at, closed, said>>
    BY <1>1 DEF Receives, fixed, verdicts, hopside
  <1>3. inbox \in Seq(L) /\ Len(inbox) \in Nat /\ n \in Nat /\ told = <<>> /\ client \in Client
    <2>1. inbox \in Seq(L) /\ told = <<>>
      BY <1>2 DEF ServedInv, Recognised, Placed
    <2>2. Len(inbox) \in Nat
      BY <2>1
    <2> QED
      BY <2>1, <2>2, CaseType
  <1>4. inbox' \in Seq(L)
    BY <1>2, <1>3, PartType
  <1>5. Begins(L, taken', Opening(client))
    <2>1. inbox # <<>>
      BY <1>3
    <2>2. inbox[1] = Opening(client)
      BY <1>2, <2>1 DEF ServedInv, Recognised
    <2> QED
      BY <1>1, <1>3, <2>2, FirstPart
  <1>6. Detected(taken') = client.proto
    BY <1>3, <1>5, DetectedAsItIs
  <1>7. L' = L /\ Opening(client)' = Opening(client)
    BY <1>2 DEF Letters, Opening, Path1
  <1>8. taken' \in Seq(L)
    BY <1>5 DEF Begins
  <1>9. CASE wait' = "failed"
    <2>1. TypeOK'
      BY <1>2, <1>9 DEF ServedInv, TypeOK, script, Outcomes
    <2>2. Placed'
      BY <1>2, <1>9 DEF ServedInv, Placed, Before5, Names5, Handling, Replies
    <2>3. Recognised'
      BY <1>4, <1>7, <1>8, <1>9 DEF Recognised
    <2>4. Talking' /\ Answered' /\ Streams'
      BY <1>2, <1>9 DEF ServedInv, Talking, Answered, Replies, Streams
    <2> QED
      BY <1>9, <2>1, <2>2, <2>3, <2>4 DEF ServedInv
  <1>10. CASE wait' # "failed"
    <2>1. wait' = "route" /\ client.proto # "other"
      BY <1>1, <1>6, <1>10
    <2>2. Recognised'
      BY <1>2, <1>4, <1>5, <1>7, <1>8, <2>1 DEF Recognised
    <2>3. /\ user' \in {"nobody", "user", "address"}
          /\ selected' \in {"nothing", "tokens", "default"}
          /\ told' \in Seq(Seq(Units))
      BY <1>2 DEF ServedInv, TypeOK, Streams
    <2> QED
      BY <1>2, <1>3, <2>1, <2>2, <2>3, Advances DEF Names5
  <1> QED
    BY <1>9, <1>10

\* What has been taken stays, and what is left of the stream is one.
LEMMA StaysRecognised ==
    ASSUME ServedInv, UNCHANGED <<client, taken>>, wait # "first", wait' # "first", wait # "failed",
           inbox' \in Seq(Letters(client))
    PROVE  Recognised'
  <1>1. Letters(client)' = Letters(client) /\ Opening(client)' = Opening(client)
    BY DEF Letters, Opening, Path1
  <1> QED
    BY <1>1 DEF ServedInv, Recognised

\* The protocol that was detected is that of the client.
LEMMA DetectedIs ==
    ASSUME ServedInv, wait \notin {"first", "failed"}
    PROVE  Detected(taken) = client.proto /\ taken \in Seq(Letters(client))
           /\ client \in Client /\ client.proto # "other"
  BY CaseType, DetectedAsItIs DEF ServedInv, Recognised

LEMMA RoutingKeeps ==
    ASSUME ServedInv, Routes \/ AuthenticateUser
    PROVE  ServedInv'
  <1>1. CASE Routes
    <2>1. /\ wait = "route" /\ selected' \in {"tokens", "default"}
          /\ wait' = IF Detected(taken) = "socks5" THEN "greeting" ELSE "account"
          /\ UNCHANGED <<client, path, sent, gone, inbox, taken, told, user, asked,
                         request, wire, at, closed, said>>
      BY <1>1 DEF Routes, SelectionFor, fixed, stream, hopside
    <2>2. Detected(taken) = client.proto /\ client \in Client /\ client.proto # "other"
      BY <2>1, DetectedIs
    <2>3. \/ wait' = "greeting" /\ client.proto = "socks5"
          \/ wait' = "account" /\ client.proto \in {"socks4", "http", "https"}
      BY <2>1, <2>2, ClientType
    <2>4. /\ told = <<>> /\ told' \in Seq(Seq(Units)) /\ user' \in {"nobody", "user", "address"}
          /\ inbox' \in Seq(Letters(client))
      BY <2>1 DEF ServedInv, Placed, Streams, TypeOK, Recognised
    <2>5. Recognised'
      BY <2>1, <2>3, <2>4, StaysRecognised
    <2> QED
      BY <2>1, <2>3, <2>4, <2>5, Advances DEF Names5
  <1>2. CASE AuthenticateUser
    <2>1. /\ wait = "account" /\ wait' = "dial" /\ user' \in {"nobody", "user", "address"}
          /\ UNCHANGED <<client, path, sent, gone, inbox, taken, told, selected, asked,
                         request, wire, at, closed, said>>
      BY <1>2 DEF AuthenticateUser, fixed, stream, hopside
    <2>2. client.proto \in {"socks4", "http", "https"}
      BY <2>1 DEF ServedInv, Placed, Handling
    <2>3. /\ told = <<>> /\ told' \in Seq(Seq(Units))
          /\ selected' \in {"nothing", "tokens", "default"}
          /\ inbox' \in Seq(Letters(client))
      BY <2>1 DEF ServedInv, Placed, Streams, TypeOK, Recognised
    <2>4. Recognised'
      BY <2>1, <2>3, StaysRecognised
    <2> QED
      BY <2>1, <2>2, <2>3, <2>4, Advances DEF Names5
  <1> QED
    BY <1>1, <1>2

\* The dialogue with a SOCKS5 client (src/protocols/proxy.rs:197-401).
LEMMA Socks5Keeps ==
    ASSUME ServedInv,
           \/ Greets \/ LogsIn \/ ReadsRequest \/ ReadsCount
           \/ ReadsName("host", 2) \/ ReadsName("ip", 1)
    PROVE  ServedInv'
  <1> DEFINE L == Letters(client)
  <1>1. /\ inbox \in Seq(L) /\ Len(inbox) \in Nat /\ told \in Seq(Seq(Units))
        /\ user \in {"nobody", "user", "address"}
        /\ selected \in {"nothing", "tokens", "default"} /\ closed \in BOOLEAN
        /\ wire \in Seq(Units)
    BY LenProperties DEF ServedInv, Recognised, Streams, TypeOK
  <1>2. \A n \in Nat : n <= Len(inbox) => SubSeq(inbox, n + 1, Len(inbox)) \in Seq(L)
    BY <1>1, PartType
  <1>3. \A n \in Nat : n <= Len(inbox) => SubSeq(inbox, 1, n) \in Seq(L)
    BY <1>1, PartType
  <1> HIDE DEF L
  <1>4. \A a, b \in Units : Append(told, <<a, b>>) \in Seq(Seq(Units))
    <2> SUFFICES ASSUME NEW a \in Units, NEW b \in Units
                 PROVE  Append(told, <<a, b>>) \in Seq(Seq(Units))
      OBVIOUS
    <2> DEFINE e == <<a, b>>
    <2>1. e \in Seq(Units)
      BY Tuples
    <2> HIDE DEF e
    <2>2. Append(told, e) \in Seq(Seq(Units))
      BY <1>1, <2>1, AppendProperties
    <2> QED
      BY <2>2 DEF e
  <1>5. ASSUME wait \in Names5 \ {"chain"}, wait' \in (Names5 \cup {"failed"}) \ {"greeting"},
               UNCHANGED <<client, path, sent, gone, taken, request, wire, at, closed, said>>,
               inbox' \in Seq(L), told' \in Seq(Seq(Units)),
               user' \in {"nobody", "user", "address"},
               selected' \in {"nothing", "tokens", "default"},
               wait' = "failed" => UNCHANGED <<user, selected>>,
               asked' = asked \/ (wait' = "chain" /\ asked' \in Seq(L))
        PROVE  ServedInv'
    <2>1. client.proto = "socks5"
      BY <1>5 DEF ServedInv, Placed
    <2>2. CASE wait' = "failed"
      BY <1>1, <1>5, <2>2, Dropping DEF L, Streams
    <2>3. CASE wait' # "failed"
      <3>1. Recognised'
        BY <1>5, StaysRecognised DEF L, Names5
      <3>2. wait' \in Names5 /\ wait' \notin {"route", "account", "dial"}
        BY <1>5, <2>3 DEF Names5
      <3> QED
        BY <1>5, <2>1, <3>1, <3>2, Advances DEF L
    <2> QED
      BY <2>2, <2>3
  <1>6. CASE Greets
    <2>1. /\ wait = "greeting" /\ wait' \in {"failed", "login", "request"}
          /\ UNCHANGED <<client, path, sent, gone, taken, request, wire, at, closed, said,
                         inbox, user, selected, asked>>
          /\ told' \in {told, Append(told, <<"05", Method>>), Append(told, <<"05", "FF">>)}
      BY <1>6 DEF Greets, fixed, stream, verdicts, hopside
    <2>2. Method \in Units /\ "05" \in Units /\ "FF" \in Units
      BY DEF Method, Units
    <2>3. told' \in Seq(Seq(Units))
      BY <1>1, <1>4, <2>1, <2>2
    <2> QED
      BY <1>1, <1>5, <2>1, <2>3 DEF Names5, L
  <1>7. CASE LogsIn
    <2>1. PICK n \in 1 .. Len(inbox) :
            /\ Receives("login", n)
            /\ \/ /\ user' = "user" /\ selected' = "tokens"
                  /\ told' = Append(told, <<"01", "00">>)
                  /\ wait' = "request"
               \/ wait' = "failed" /\ UNCHANGED <<told, verdicts>>
            /\ UNCHANGED <<taken, asked, passed>>
      BY <1>7 DEF LogsIn
    <2>2. "01" \in Units /\ "00" \in Units
      BY DEF Units
    <2>3. n \in Nat /\ n <= Len(inbox)
      BY <1>1
    <2>4. /\ wait = "login" /\ inbox' \in Seq(L)
          /\ UNCHANGED <<client, path, sent, gone, taken, request, wire, at, closed, said, asked>>
      BY <1>2, <2>1, <2>3 DEF Receives, fixed, hopside
    <2>5. told' \in Seq(Seq(Units))
      BY <1>1, <1>4, <2>1, <2>2
    <2>6. /\ user' \in {"nobody", "user", "address"}
          /\ selected' \in {"nothing", "tokens", "default"}
          /\ wait' = "failed" => UNCHANGED <<user, selected>>
          /\ wait' \in {"request", "failed"}
      BY <1>1, <2>1 DEF verdicts
    <2> QED
      BY <1>5, <2>4, <2>5, <2>6 DEF Names5
  <1>8. CASE ReadsRequest
    <2>1. /\ wait = "request" /\ wait' \in {"failed", "ip", "count"} /\ inbox' \in Seq(L)
          /\ UNCHANGED <<client, path, sent, gone, taken, request, wire, at, closed, said,
                         user, selected, asked, told>>
      BY <1>2, <1>8 DEF ReadsRequest, Receives, fixed, verdicts, hopside
    <2> QED
      BY <1>1, <1>5, <2>1 DEF Names5
  <1>9. CASE ReadsCount
    <2>1. /\ wait = "count" /\ wait' = "host" /\ inbox' \in Seq(L)
          /\ UNCHANGED <<client, path, sent, gone, taken, request, wire, at, closed, said,
                         user, selected, asked, told>>
      BY <1>2, <1>9 DEF ReadsCount, Receives, fixed, verdicts, hopside
    <2> QED
      BY <1>1, <1>5, <2>1 DEF Names5
  <1>10. ASSUME NEW phase \in {"host", "ip"}, NEW n \in {1, 2}, ReadsName(phase, n)
         PROVE  ServedInv'
    <2>1. /\ wait = phase /\ wait' = "chain" /\ inbox' \in Seq(L) /\ asked' \in Seq(L)
          /\ UNCHANGED <<client, path, sent, gone, taken, request, wire, at, closed, said,
                         user, selected, told>>
      BY <1>2, <1>3, <1>10 DEF ReadsName, Receives, fixed, verdicts, hopside
    <2> QED
      BY <1>1, <1>5, <2>1 DEF Names5
  <1> QED
    BY <1>6, <1>7, <1>8, <1>9, <1>10

-------------------------------------------------------------------------------
(* The relay starts *)

\* Whatever the parsers make of a request is a name, or none.
LEMMA TargetsType ==
    ASSUME NEW c \in Client, NEW s \in Seq(Letters(c))
    PROVE  /\ {ParseSocks4Target(s), ParseConnectTarget(s), ParseHttpTarget(s), HostHeader(s),
               Socks4Target(s), Meant(c)} \subseteq {NoName} \cup Seq(Letters(c))
           /\ \A n \in {NoName} \cup Seq(Letters(c)) : n # Nowhere /\ n # AtHop
  <1> DEFINE L == Letters(c)
  <1>1. "ip" \in L /\ "na" \in L /\ "me" \in L
    BY DEF Letters
  <1>2. \A n \in {NoName} \cup Seq(L) : n # Nowhere /\ n # AtHop
    BY NamesApart, Distinct
  <1> HIDE DEF L
  <1>3. /\ \A ends : Upto(s, ends) \in Seq(L) /\ After(s, ends) \in Seq(L)
        /\ \A t \in Seq(L) : \A ends : Upto(t, ends) \in Seq(L) /\ After(t, ends) \in Seq(L)
    BY PartsType DEF L
  <1>4. <<"ip">> \in Seq(L) /\ Name \in Seq(L) /\ (Len(s) >= 3 => <<s[3]>> \in Seq(L))
    <2>1. Len(s) >= 3 => s[3] \in L
      BY DEF L
    <2> QED
      BY <1>1, <2>1 DEF Name
  <1>5. ParseSocks4Target(s) \in {NoName} \cup Seq(L)
    BY <1>3, <1>4 DEF ParseSocks4Target
  <1>6. ParseConnectTarget(s) \in {NoName} \cup Seq(L)
    BY <1>3 DEF ParseConnectTarget
  <1>7. HostHeader(s) \in {NoName} \cup Seq(L)
    BY <1>3 DEF HostHeader
  <1>8. ParseHttpTarget(s) \in {NoName} \cup Seq(L)
    BY <1>3, <1>7 DEF ParseHttpTarget
  <1>9. Socks4Target(s) \in {NoName} \cup Seq(L)
    <2>1. Len(s) \in Nat
      BY LenProperties DEF L
    <2> QED
      BY <1>3, <1>4, <2>1 DEF Socks4Target
  <1>10. Meant(c) \in Seq(L)
    BY <1>4 DEF Meant
  <1> QED
    BY <1>2, <1>5, <1>6, <1>7, <1>8, <1>9, <1>10 DEF L

\* What a client was told last.
Heard(t) == IF t = <<>> THEN <<>> ELSE t[Len(t)]

LEMMA HeardLast ==
    ASSUME NEW t \in Seq(Seq(Units)), NEW x \in Seq(Units)
    PROVE  /\ t \o <<x>> \in Seq(Seq(Units)) /\ Heard(t \o <<x>>) = x
           /\ Append(t, x) = t \o <<x>> /\ t \o <<>> = t
           /\ Heard(t) \in Seq(Units)
           /\ t = <<>> => t \o <<x>> = <<x>>
  <1> DEFINE S == Seq(Units)
  <1>1. x \in S /\ t \in Seq(S)
    OBVIOUS
  <1> HIDE DEF S
  <1>2. Append(t, x) = t \o <<x>> /\ t \o <<>> = t /\ <<x>> \in Seq(S)
    BY <1>1, AppendIsConcat, ConcatEmptySeq
  <1>3. t = <<>> => t \o <<x>> = <<x>>
    BY <1>2, ConcatEmptySeq
  <1> DEFINE w == Append(t, x)
  <1>4. w \in Seq(S) /\ Len(w) = Len(t) + 1 /\ w[Len(t) + 1] = x /\ Len(t) \in Nat
    BY <1>1, AppendProperties, LenProperties
  <1> HIDE DEF w
  <1>5. w # <<>>
    <2>1. Len(w) # 0 /\ Len(<<>>) = 0
      BY <1>4
    <2> QED
      BY <2>1
  <1>6. Heard(w) = x
    BY <1>4, <1>5 DEF Heard
  <1>7. Heard(t) \in S
    <2>1. t # <<>> => Len(t) \in 1 .. Len(t)
      BY <1>1, EmptySeq, LenProperties
    <2>2. <<>> \in S
      BY DEF S
    <2> QED
      BY <1>1, <2>1, <2>2, LenProperties DEF Heard
  <1> QED
    BY <1>2, <1>3, <1>4, <1>6, <1>7 DEF w, S

LEMMA HeardOnce ==
    /\ <<>> \in Seq(Seq(Units)) /\ <<>> \in Seq(Units)
    /\ \A t : Len(t) = 1 => Heard(t) = t[1]
  <1>1. \A S : <<>> \in Seq(S)
    OBVIOUS
  <1>2. ASSUME NEW t, Len(t) = 1 PROVE Heard(t) = t[1]
    <2>1. Len(<<>>) = 0
      OBVIOUS
    <2>2. t # <<>>
      BY <1>2, <2>1
    <2> QED
      BY <1>2, <2>2 DEF Heard
  <1> QED
    BY <1>1, <1>2

\* What a client that is served is told ends with the answer it understands.
LEMMA AnswersType == Granted \in Seq(Units) /\ Established \in Seq(Units)
                     /\ <<"05", "00", "01", "address">> \in Seq(Units)
  BY DEF Granted, Established, Units, Phrases

LEMMA RelayStarts ==
    ASSUME ServedInv, wait \notin {"first", "failed"}, wait' = "open", request' = Nobody,
           UNCHANGED <<client, path, sent, gone, inbox, taken, user, selected, wire, closed, said>>,
           told' \in Seq(Seq(Units)),
           asked' \in {NoName} \cup Seq(Letters(client)),
           at' \in {Nowhere, AtHop} => said = 0,
           asked' = NoName => at' = AtHop,
           ReturnsTheStream'
    PROVE  ServedInv'
  <1>1. TypeOK'
    BY DEF ServedInv, TypeOK, script, Outcomes
  <1>2. Placed'
    BY DEF ServedInv, Placed, Before5, Names5, Handling, Replies
  <1>3. Recognised'
    BY StaysRecognised DEF ServedInv, Recognised
  <1>4. Talking' /\ Answered' /\ Streams'
    BY DEF ServedInv, Talking, Answered, Replies, Streams
  <1> QED
    BY <1>1, <1>2, <1>3, <1>4 DEF ServedInv

LEMMA NothingSaid ==
    ASSUME NEW x \in Seq(Units)
    PROVE  x \o <<>> = x \o Data(0)
  BY NoData

\* connect_chain has returned a stream from which nothing has been read.
LEMMA TunnelsKeeps ==
    ASSUME ServedInv, wait \in {"chain", "dial"}, NEW name, NEW words, NEW units,
           Tunnels(name, words, units), name \in {NoName} \cup Seq(Letters(client)),
           \/ client.proto = "http" /\ words = <<>> /\ wait = "dial"
           \/ words = <<Answer>> /\ Answer \in Seq(Units)
    PROVE  ServedInv'
  <1>1. /\ wait' = "open" /\ name # NoName /\ asked' = name /\ at' = name /\ told' = told \o words
        /\ UNCHANGED <<client, path, sent, gone, inbox, taken, user, selected, request, wire,
                       closed, said>>
    BY DEF Tunnels, fixed, stream, verdicts
  <1>2. request = Nobody /\ wire = <<>> /\ said = 0 /\ told \in Seq(Seq(Units))
    BY DEF ServedInv, Placed, Before5, Names5, Streams
  <1>3. told' \in Seq(Seq(Units)) /\ Heard(told') = Answer
    <2>1. CASE client.proto = "http" /\ words = <<>> /\ wait = "dial"
      <3>1. told = <<>>
        BY <2>1 DEF ServedInv, Placed
      <3>2. told' = told
        BY <1>1, <1>2, <2>1, ConcatEmptySeq
      <3> QED
        BY <1>2, <2>1, <3>1, <3>2 DEF Heard, Answer
    <2>2. CASE words = <<Answer>> /\ Answer \in Seq(Units)
      BY <1>1, <1>2, <2>2, HeardLast
    <2> QED
      BY <2>1, <2>2
  <1>4. Answer \in Seq(Units)
    <2>1. client.proto = "http" => Answer = <<>>
      BY DEF Answer
    <2>2. <<>> \in Seq(Units)
      OBVIOUS
    <2> QED
      BY <2>1, <2>2
  <1>5. ReturnsTheStream'
    <2>1. Answer' = Answer /\ Data(said)' = Data(0)
      BY <1>1, <1>2 DEF Answer, Data
    <2>2. Heard(told') \o wire' = Answer' \o Data(said)'
      BY <1>1, <1>2, <1>3, <1>4, <2>1, NothingSaid
    <2> QED
      BY <2>2 DEF ReturnsTheStream, Heard, Data
  <1> QED
    BY <1>1, <1>2, <1>3, <1>5, RelayStarts

LEMMA ChainsKeep ==
    ASSUME ServedInv, Socks5Chain \/ HandleSocks4Chain \/ HandleHttpsChain \/ HandleHttpChain
    PROVE  ServedInv'
  <1>1. wait \in {"chain", "dial"}
    BY DEF Socks5Chain, HandleSocks4Chain, HandleHttpsChain, HandleHttpChain, Dialling
  <1>2. /\ Detected(taken) = client.proto /\ taken \in Seq(Letters(client)) /\ client \in Client
    BY <1>1, DetectedIs
  <1>3. {ParseSocks4Target(taken), ParseConnectTarget(taken), ParseHttpTarget(taken)}
           \subseteq {NoName} \cup Seq(Letters(client))
    BY <1>2, TargetsType
  <1>4. CASE Socks5Chain
    <2> DEFINE words == <<<<"05", "00", "01", "address">>>>
    <2>1. wait = "chain" /\ Tunnels(asked, words, <<>>)
      BY <1>4 DEF Socks5Chain
    <2>2. client.proto = "socks5"
      BY <2>1 DEF ServedInv, Placed, Names5
    <2>3. words = <<Answer>> /\ Answer \in Seq(Units)
      BY <2>2, AnswersType DEF Answer
    <2> HIDE DEF words
    <2> QED
      <3>1. asked \in {NoName} \cup Seq(Letters(client))
        BY DEF ServedInv, Placed
      <3> QED
        BY <1>1, <2>1, <2>3, <3>1, TunnelsKeeps
  <1>5. CASE HandleSocks4Chain
    <2>1. /\ Tunnels(ParseSocks4Target(taken), <<Granted>>, <<>>)
          /\ client.proto = "socks4"
      BY <1>2, <1>5 DEF HandleSocks4Chain, Dialling
    <2>2. Answer = Granted /\ Answer \in Seq(Units)
      BY <2>1, AnswersType DEF Answer
    <2> QED
      BY <1>1, <1>3, <2>1, <2>2, TunnelsKeeps
  <1>6. CASE HandleHttpsChain
    <2>1. /\ Tunnels(ParseConnectTarget(taken), <<Established>>, <<>>)
          /\ client.proto = "https"
      BY <1>2, <1>6 DEF HandleHttpsChain, Dialling
    <2>2. Answer = Established /\ Answer \in Seq(Units)
      BY <2>1, AnswersType DEF Answer
    <2> QED
      BY <1>1, <1>3, <2>1, <2>2, TunnelsKeeps
  <1>7. CASE HandleHttpChain
    <2>1. /\ Tunnels(ParseHttpTarget(taken), <<>>, ToOriginForm(taken))
          /\ client.proto = "http" /\ wait = "dial"
      BY <1>2, <1>7 DEF HandleHttpChain, Dialling
    <2> DEFINE words == <<>>
               units == ToOriginForm(taken)
               name  == ParseHttpTarget(taken)
    <2> HIDE DEF words, units, name
    <2>2. Tunnels(name, words, units) /\ name \in {NoName} \cup Seq(Letters(client)) /\ words = <<>>
      BY <1>3, <2>1 DEF words, units, name
    <2> QED
      BY <1>1, <2>1, <2>2, TunnelsKeeps
  <1> QED
    BY <1>4, <1>5, <1>6, <1>7

-------------------------------------------------------------------------------
(* One upstream is connected, and asked *)

LEMMA Dialled ==
    ASSUME ServedInv, wait = "dial", ~path.multi, at' = AtHop,
           UNCHANGED <<client, path, sent, gone, inbox, taken, told, user, selected, wire, closed, said>>,
           asked' \in {NoName} \cup Seq(Letters(client)),
           \/ wait' = "failed" /\ request' = Nobody
           \/ /\ wait' \in {"method", "granted", "status"} /\ path.hop.kind = Speaker(wait')
              /\ wait' = "status" => client.proto # "http"
              /\ wait' # "granted" => asked' # NoName
              /\ \/ request' = Nobody
                 \/ request' = Greeting /\ wait' = "method"
                 \/ request' = Connect(asked') /\ wait' # "method" /\ asked' # NoName
    PROVE  ServedInv'
  <1>1. /\ Greeting.ask = "greeting" /\ Connect(asked').ask = "connect"
        /\ Connect(asked').to = asked'
    BY DEF Greeting, Connect
  <1>2. /\ request' # Nobody => /\ request'.ask \in {"greeting", "connect"}
                                /\ wait' \in Awaited(request'.ask)
                                /\ request'.ask = "connect" => request'.to = asked' /\ asked' # NoName
    BY <1>1 DEF Awaited
  <1>3. /\ wire = <<>> /\ said = 0 /\ told = <<>>
        /\ client.proto \in {"socks4", "http", "https"}
    BY DEF ServedInv, Placed, Handling
  <1>4. wait' \in {"failed", "method", "granted", "status"}
    OBVIOUS
  <1>5. TypeOK'
    BY <1>2, <1>4 DEF ServedInv, TypeOK, script, Outcomes, Replies
  <1>6. Placed'
    <2>1. wait' \notin Before5 \cup {"account", "dial"} /\ wait' \notin Names5
      BY <1>4 DEF Before5, Names5
    <2> QED
      BY <1>2, <1>3, <1>4, <2>1 DEF Placed, Replies
  <1>7. Recognised'
    <2>1. inbox' \in Seq(Letters(client))
      BY DEF ServedInv, Recognised
    <2> QED
      BY <1>4, <2>1, StaysRecognised
  <1>8. Talking' /\ Answered' /\ Streams' /\ wait' # "open"
    BY <1>3, <1>4 DEF ServedInv, Talking, Answered, Streams
  <1> QED
    BY <1>5, <1>6, <1>7, <1>8 DEF ServedInv

LEMMA OpensKeeps ==
    ASSUME ServedInv, NEW proto, NEW kind \in {"socks5", "socks4", "http"}, NEW name,
           Opens(proto, kind, name), name \in {NoName} \cup Seq(Letters(client)),
           proto = "http" => kind # "http"
    PROVE  ServedInv'
  <1>1. /\ wait = "dial" /\ ~path.multi /\ Detected(taken) = proto /\ path.hop.kind = kind
        /\ at' = AtHop /\ asked' = name
        /\ IF name = NoName THEN Goes("failed", Nobody) ELSE Asks(path.hop, name)
        /\ UNCHANGED <<client, path, sent, gone, inbox, taken, told, user, selected, wire,
                       closed, said>>
    BY DEF Opens, Single, fixed, stream, verdicts
  <1>2. proto = client.proto
    BY <1>1, DetectedIs
  <1>3. CASE name = NoName
    <2>1. wait' = "failed" /\ request' = Nobody
      BY <1>1, <1>3 DEF Goes
    <2> QED
      BY <1>1, <2>1, Dialled
  <1>4. CASE name # NoName
    <2>1. \/ kind = "socks5" /\ wait' = "method" /\ request' = Greeting
          \/ kind = "socks4" /\ wait' = "granted" /\ request' = Connect(asked')
          \/ kind = "http" /\ wait' = "status" /\ request' = Connect(asked')
      BY <1>1, <1>4 DEF Asks, Goes
    <2>2. kind = Speaker(wait')
      BY <2>1 DEF Speaker
    <2>3. asked' # NoName /\ (kind = "http" => client.proto # "http")
      BY <1>1, <1>2, <1>4
    <2> QED
      BY <1>1, <2>1, <2>2, <2>3, Dialled
  <1> QED
    BY <1>3, <1>4

LEMMA HandlersOpenKeep ==
    ASSUME ServedInv,
           \/ Socks4ToHttp \/ Socks4ToSocks4 \/ Socks4ToSocks5
           \/ HttpToHttp \/ HttpToSocks4 \/ HttpToSocks5
           \/ HttpsToHttp \/ HttpsToSocks4 \/ HttpsToSocks5
    PROVE  ServedInv'
  <1>1. wait = "dial" /\ ~path.multi
    BY DEF Socks4ToHttp, Socks4ToSocks4, Socks4ToSocks5, Socks4Opens, HttpToHttp, HttpToSocks4,
           HttpToSocks5, HttpsToHttp, HttpsToSocks4, HttpsToSocks5, Opens, Single
  <1>2. Detected(taken) = client.proto /\ taken \in Seq(Letters(client)) /\ client \in Client
    BY <1>1, DetectedIs
  <1>3. {ParseConnectTarget(taken), HostHeader(taken), Socks4Target(taken), Meant(client)}
           \subseteq {NoName} \cup Seq(Letters(client))
    BY <1>2, TargetsType
  <1>4. CASE Socks4ToHttp \/ Socks4ToSocks5
    <2>1. \E kind \in {"http", "socks5"} : Opens("socks4", kind, Socks4Target(taken))
      BY <1>4 DEF Socks4ToHttp, Socks4ToSocks5, Socks4Opens
    <2> QED
      BY <1>3, <2>1, OpensKeeps
  <1>5. CASE HttpToSocks4 \/ HttpToSocks5
    <2>1. \E kind \in {"socks4", "socks5"} : Opens("http", kind, HostHeader(taken))
      BY <1>5 DEF HttpToSocks4, HttpToSocks5
    <2> QED
      BY <1>3, <2>1, OpensKeeps
  <1>6. CASE HttpsToHttp \/ HttpsToSocks4 \/ HttpsToSocks5
    <2>1. \E kind \in {"http", "socks4", "socks5"} : Opens("https", kind, ParseConnectTarget(taken))
      BY <1>6 DEF HttpsToHttp, HttpsToSocks4, HttpsToSocks5
    <2> QED
      BY <1>3, <2>1, OpensKeeps
  <1>7. CASE Socks4ToSocks4
    <2>1. /\ path.hop.kind = "socks4" /\ at' = AtHop
          /\ UNCHANGED <<client, path, sent, gone, inbox, taken, told, user, selected, wire,
                         closed, said>>
          /\ wait' = "granted"
          /\ \/ asked' = Meant(client) /\ request' = Connect(asked')
             \/ asked' = asked /\ request' = Nobody
      BY <1>7 DEF Socks4ToSocks4, Goes, fixed, stream, verdicts
    <2>2. Meant(client) # NoName
      <3>1. <<"ip">>[1] = "ip" /\ Name[1] = "na" /\ NoName[1] = "no name"
        BY DEF Name, NoName
      <3>2. <<"ip">> # NoName /\ Name # NoName
        BY <3>1
      <3> QED
        BY <3>2 DEF Meant
    <2>3. asked \in {NoName} \cup Seq(Letters(client)) /\ Speaker("granted") = "socks4"
      BY DEF ServedInv, Placed, Speaker
    <2> QED
      BY <1>1, <1>3, <2>1, <2>2, <2>3, Dialled
  <1>8. CASE HttpToHttp
    <2>1. /\ at' = AtHop /\ wait' = "open"
          /\ UNCHANGED <<client, path, sent, gone, inbox, taken, user, selected, request, wire,
                         closed, said, told, asked>>
      BY <1>8 DEF HttpToHttp, fixed, stream, verdicts
    <2>2. request = Nobody /\ said = 0 /\ asked = NoName /\ told \in Seq(Seq(Units))
      BY <1>1 DEF ServedInv, Placed, Streams
    <2>3. ReturnsTheStream'
      BY <2>1, <2>2, Distinct DEF ReturnsTheStream
    <2> QED
      BY <1>1, <2>1, <2>2, <2>3, RelayStarts
  <1> QED
    BY <1>4, <1>5, <1>6, <1>7, <1>8

\* No name and no path a client sends is taken for a CONNECT, but the one with
\* CONNECT in it.
LEMMA NotATunnel ==
    ASSUME NEW c \in Client, NEW s \in Seq(Letters(c)), NEW ends, Has(Upto(s, ends), "/CONNECT")
    PROVE  c.form = "mentions CONNECT"
  <1>1. Upto(s, ends) \in Seq(Letters(c))
    BY PartsType
  <1>2. "/CONNECT" \in Letters(c)
    BY <1>1 DEF Has, ToSet
  <1> QED
    BY <1>2, ClientType DEF Letters, Announced, Path1

\* The client is told, and the relay starts (src/protocols/socks4.rs:127-143,
\* src/protocols/http.rs:104-114, src/protocols/https.rs:68-76).
LEMMA HandsOverKeeps ==
    ASSUME ServedInv, Socks4Answers \/ HttpAnswers \/ HttpsAnswers
    PROVE  ServedInv'
  <1>1. wait = "next" /\ ~path.multi
    BY DEF Socks4Answers, HttpAnswers, HttpsAnswers, Single
  <1>2. Detected(taken) = client.proto /\ taken \in Seq(Letters(client)) /\ client \in Client
    BY <1>1, DetectedIs
  <1>3. /\ at = asked /\ request = Nobody /\ asked \in {NoName} \cup Seq(Letters(client))
        /\ told \in Seq(Seq(Units)) /\ wire \in Seq(Units) /\ said \in Nat
        /\ at \in {Nowhere, AtHop} => said = 0
        /\ path.hop.kind # "http" => wire = Data(said)
        /\ asked = NoName => at = AtHop
    <2>1. request # Nobody => wait \in {"method", "verdict", "header", "granted", "status", "failed"}
      BY DEF ServedInv, TypeOK, Placed, Awaited
    <2>2. said \in Nat
      BY InboundAssumption DEF ServedInv, TypeOK
    <2>3. asked # NoName
      BY <1>1, Distinct DEF ServedInv, TypeOK, Answered
    <2> QED
      BY <1>1, <2>1, <2>2, <2>3 DEF ServedInv, Placed, Answered, Streams
  <1>4. PICK words \in {<<>>, <<Granted>>, <<Established>>} :
           /\ \E units : HandsOver(words, units)
           /\ \/ /\ client.proto = "socks4"
                 /\ words = IF path.hop.kind = "socks4" THEN <<>> ELSE <<Granted>>
              \/ /\ client.proto = "http"
                 /\ ~Has(Upto(taken, {"EOL"}), "/CONNECT") => words = <<>>
              \/ /\ client.proto = "https"
                 /\ words = IF path.hop.kind = "http" THEN <<>> ELSE <<Established>>
    <2>1. CASE Socks4Answers
      BY <1>2, <2>1 DEF Socks4Answers, Single
    <2>2. CASE HttpAnswers
      BY <1>2, <2>2 DEF HttpAnswers, Single
    <2>3. CASE HttpsAnswers
      BY <1>2, <2>3 DEF HttpsAnswers, Single
    <2> QED
      BY <2>1, <2>2, <2>3
  <1>5. /\ told' = told \o words /\ wait' = "open"
        /\ UNCHANGED <<client, path, sent, gone, inbox, taken, user, selected, asked,
                       request, wire, at, closed, said>>
    BY <1>4 DEF HandsOver, fixed, stream, verdicts, hopside
  <1>6. /\ told' \in Seq(Seq(Units))
        /\ words = <<>> => told' = told
        /\ \A x \in Seq(Units) : words = <<x>> => Heard(told') = x
    BY <1>3, <1>4, <1>5, AnswersType, HeardLast
  <1>7. Data(said)' = Data(said) /\ Answer' = Answer
    BY <1>5 DEF Data, Answer
  <1> SUFFICES ASSUME client.form # "mentions CONNECT",
                      ~(client.proto = "socks4" /\ path.hop.kind = "http")
               PROVE  Heard(told') \o wire = Answer \o Data(said)
    <2>1. ReturnsTheStream'
      BY <1>1, <1>5, <1>7 DEF ReturnsTheStream, Heard, Data
    <2> QED
      BY <1>1, <1>3, <1>5, <1>6, <2>1, RelayStarts
  <1>8. /\ Answered /\ Data(said) \in Seq(Units) /\ Granted \in Seq(Units)
        /\ Established \in Seq(Units)
        /\ path.hop.kind \in {"socks5", "socks4", "http"}
    <2>1. path \in Path
      BY CaseType
    <2>2. path.hop.kind \in {"socks5", "socks4", "http"}
      BY <2>1 DEF Path, Hop
    <2> QED
      BY <1>3, <2>2, DataType, AnswersType DEF ServedInv
  <1>9. CASE client.proto = "socks4"
    <2>1. Answer = Granted /\ wire = Data(said)
      BY <1>3, <1>9 DEF Answer
    <2>2. CASE path.hop.kind = "socks4"
      <3>1. told' = <<Granted>>
        BY <1>1, <1>4, <1>6, <1>8, <1>9, <2>2 DEF Answered
      <3>2. <<Granted>> = <<>> \o <<Granted>> /\ Heard(<<>> \o <<Granted>>) = Granted
        <4> DEFINE none == <<>>
        <4>2. none \in Seq(Seq(Units)) /\ none = <<>>
          BY HeardOnce
        <4> HIDE DEF none
        <4>3. none \o <<Granted>> = <<Granted>> /\ Heard(none \o <<Granted>>) = Granted
          BY <1>8, <4>2, HeardLast
        <4> QED
          BY <4>2, <4>3
      <3> QED
        BY <2>1, <3>1, <3>2
    <2>3. CASE path.hop.kind # "socks4"
      <3>1. words = <<Granted>>
        BY <1>4, <1>9, <2>3
      <3> QED
        BY <1>6, <1>8, <2>1, <3>1
    <2> QED
      BY <2>2, <2>3
  <1>10. CASE client.proto = "http"
    <2>1. ~Has(Upto(taken, {"EOL"}), "/CONNECT")
      BY <1>2, NotATunnel
    <2>2. words = <<>>
      BY <1>4, <1>10, <2>1
    <2>3. path.hop.kind # "http" /\ wire = Data(said) /\ told = <<>>
      BY <1>1, <1>8, <1>10 DEF Answered
    <2>4. Heard(told') = <<>> /\ Answer = <<>>
      BY <1>6, <1>10, <2>2, <2>3 DEF Heard, Answer
    <2> QED
      BY <2>3, <2>4
  <1>11. CASE client.proto = "https"
    <2>1. Answer = Established
      BY <1>11 DEF Answer
    <2>2. CASE path.hop.kind = "http"
      <3>1. words = <<>>
        BY <1>4, <1>11, <2>2
      <3>2. Len(told) = 1 /\ told[1] \o wire = Established \o Data(said)
        BY <1>1, <1>8, <1>11, <2>2 DEF Answered
      <3>4. Heard(told) = told[1]
        BY <3>2, HeardOnce
      <3> QED
        BY <1>6, <2>1, <3>1, <3>2, <3>4
    <2>3. CASE path.hop.kind # "http"
      <3>1. words = <<Established>> /\ wire = Data(said)
        BY <1>3, <1>4, <1>11, <2>3
      <3> QED
        BY <1>6, <1>8, <2>1, <3>1
    <2> QED
      BY <2>2, <2>3
  <1> QED
    BY <1>4, <1>9, <1>10, <1>11

-------------------------------------------------------------------------------
(* The conversation with the upstream *)

\* A part of an answer, or all of it, has been read.
LEMMA Proceeds ==
    ASSUME ServedInv, wait \in Replies, wait' \in (Replies \ {"granted", "status"}) \cup {"next"},
           UNCHANGED <<client, path, sent, gone, inbox, taken, user, selected, asked, at, closed, said>>,
           told' = told \/ wait' = "next", Streams',
           wait' \in Replies => Speaker(wait') = Speaker(wait),
           asked # NoName,
           \/ request' = Nobody
           \/ request' = Login /\ wait' = "verdict" /\ at = AtHop
           \/ request' = Connect(asked) /\ wait' = "header" /\ at = AtHop,
           Talking', Answered'
    PROVE  ServedInv'
  <1>1. /\ Login.ask = "credentials" /\ Connect(asked).ask = "connect"
        /\ Connect(asked).to = asked
    BY DEF Login, Connect
  <1>2. request' # Nobody => /\ request'.ask \in {"credentials", "connect"}
                             /\ wait' \in Awaited(request'.ask) /\ at = AtHop
                             /\ request'.ask = "connect" => request'.to = asked
    BY <1>1 DEF Awaited
  <1>3. wait' \in {"method", "verdict", "header", "length", "address", "next"}
    BY DEF Replies
  <1>4. TypeOK'
    BY <1>2, <1>3 DEF ServedInv, TypeOK, script, Outcomes, Replies
  <1>5. Placed'
    <2>1. /\ told = <<>> /\ client.proto \in {"socks4", "http", "https"} /\ ~path.multi
          /\ path.hop.kind = Speaker(wait)
      BY DEF ServedInv, Placed, Handling
    <2>2. wait' \notin Before5 \cup {"account", "dial"} /\ wait' \notin Names5
      BY <1>3 DEF Before5, Names5
    <2>3. /\ wait' \in {"first", "route", "account", "dial"} \cup Replies => told' = <<>>
          /\ wait' \in Replies => path.hop.kind = Speaker(wait')
          /\ wait' # "status"
      BY <1>3, <2>1 DEF Replies
    <2>4. /\ at \in {Nowhere, AtHop} => said = 0
          /\ asked \in {NoName} \cup Seq(Letters(client))
      BY DEF ServedInv, Placed
    <2>5. UNCHANGED <<client, path, at, said, asked>>
      OBVIOUS
    <2>6. Letters(client)' = Letters(client)
      BY DEF Letters, Path1
    <2> QED
      BY <1>2, <2>1, <2>2, <2>3, <2>4, <2>5, <2>6 DEF Placed
  <1>6. Recognised'
    <2>1. inbox' \in Seq(Letters(client))
      BY DEF ServedInv, Recognised
    <2> QED
      BY <1>3, <2>1, StaysRecognised DEF Replies
  <1>7. wait' # "open"
    BY <1>3
  <1> QED
    BY <1>4, <1>5, <1>6, <1>7 DEF ServedInv

\* What a read leaves on the wire is a sequence of units.
LEMMA LeftOver ==
    ASSUME wire \in Seq(Units), NEW n \in Nat
    PROVE  SubSeq(wire, n + 1, Len(wire)) \in Seq(Units)
  <1>1. \A i \in n + 1 .. Len(wire) : wire[i] \in Units
    BY LenProperties
  <1>2. n + 1 \in Int /\ Len(wire) \in Int
    BY LenProperties
  <1> QED
    BY <1>1, <1>2, SubSeqProperties

\* What is known before every read of an answer.
LEMMA BeforeARead ==
    ASSUME ServedInv, wait \in Replies
    PROVE  /\ wire \in Seq(Units) /\ Len(wire) \in Nat /\ said \in Nat /\ Data(said) \in Seq(Units)
           /\ told = <<>> /\ told \in Seq(Seq(Units))
           /\ path.hop.kind = Speaker(wait)
           /\ client.proto \in {"socks4", "http", "https"}
           /\ wait # "granted" => asked # NoName
           /\ wait = "status" => client.proto # "http"
           /\ Detected(taken) = client.proto
           /\ inbox \in Seq(Letters(client)) /\ closed \in BOOLEAN
           /\ at \in {AtHop, asked}
           /\ wire # <<>> =>
                \/ at = AtHop /\ request = Nobody /\ wire \in Refusals(wait)
                \/ at = asked /\ request = Nobody /\ \E u \in Grants(wait) : wire = u \o Data(said)
  <1>1. wire \in Seq(Units) /\ Len(wire) \in Nat
    BY LenProperties DEF ServedInv, Streams
  <1>2. said \in Nat /\ Data(said) \in Seq(Units)
    <2>1. said \in Nat
      BY InboundAssumption DEF ServedInv, TypeOK
    <2> QED
      BY <2>1, DataType
  <1>3. wait \notin {"first", "failed"} /\ wait \in Handling
    BY DEF Replies, Handling
  <1> QED
    BY <1>1, <1>2, <1>3, DetectedIs
    DEF ServedInv, Placed, Talking, Streams, Recognised, TypeOK

LEMMA ReadFails ==
    ASSUME ServedInv, wait \in Replies, wait' = "failed", request' = request,
           UNCHANGED <<client, path, sent, gone, inbox, taken, user, selected, asked, at, closed, said>>,
           wire' \in Seq(Units), told' = told
    PROVE  ServedInv'
  BY BeforeARead, Dropping DEF Streams

LEMMA ReadMethodKeeps ==
    ASSUME ServedInv, NEW h, ReadMethod(h, asked), Untold
    PROVE  ServedInv'
  <1>1. /\ wait = "method" /\ Len(wire) >= 2 /\ wait \in Replies
        /\ UNCHANGED <<client, path, sent, gone, inbox, taken, told, user, selected, asked,
                       at, closed, said>>
        /\ wire' = SubSeq(wire, 2 + 1, Len(wire))
    BY DEF ReadMethod, Takes, Untold, fixed, stream, verdicts, Replies
  <1>2. wire' \in Seq(Units)
    BY <1>1, BeforeARead, LeftOver
  <1>3. \/ wait' = "verdict" /\ request' = Login
        \/ wait' = "header" /\ request' = Connect(asked)
        \/ wait' = "failed" /\ request' = request
    BY DEF ReadMethod, Goes
  <1>4. CASE wait' = "failed"
    BY <1>1, <1>2, <1>3, <1>4, ReadFails DEF Login, Connect
  <1>5. CASE wait' # "failed"
    <2>1. wire # <<>> /\ Refusals(wait) = {<<"05", m>> : m \in Methods} /\ Grants(wait) = {}
      <3>1. Len(<<>>) = 0
        OBVIOUS
      <3> QED
        BY <1>1, <3>1 DEF Refusals, Grants
    <2>2. PICK m \in Methods : at = AtHop /\ wire = <<"05", m>>
      BY <1>1, <2>1, BeforeARead
    <2>3. wire' = <<>>
      <3>1. Len(<<"05", m>>) = 2
        OBVIOUS
      <3> QED
        BY <1>1, <2>2, <3>1, SubSeqEmpty
    <2>4. Talking' /\ Answered' /\ Streams'
      BY <1>1, <1>2, <1>3, <1>5, <2>2, <2>3, BeforeARead DEF Talking, Answered, Streams
    <2>5. Speaker("verdict") = Speaker("method") /\ Speaker("header") = Speaker("method")
      BY DEF Speaker
    <2> QED
      BY <1>1, <1>3, <1>5, <2>2, <2>4, <2>5, BeforeARead, Proceeds DEF Replies
  <1> QED
    BY <1>4, <1>5

LEMMA ReadVerdictKeeps ==
    ASSUME ServedInv, ReadVerdict(asked), Untold
    PROVE  ServedInv'
  <1>1. /\ wait = "verdict" /\ Len(wire) >= 2 /\ wait \in Replies
        /\ UNCHANGED <<client, path, sent, gone, inbox, taken, told, user, selected, asked,
                       at, closed, said>>
        /\ wire' = SubSeq(wire, 2 + 1, Len(wire))
    BY DEF ReadVerdict, Takes, Untold, fixed, stream, verdicts, Replies
  <1>2. wire' \in Seq(Units)
    BY <1>1, BeforeARead, LeftOver
  <1>3. \/ wait' = "header" /\ request' = Connect(asked)
        \/ wait' = "failed" /\ request' = request
    BY DEF ReadVerdict, Goes
  <1>4. CASE wait' = "failed"
    BY <1>1, <1>2, <1>3, <1>4, ReadFails DEF Connect
  <1>5. CASE wait' # "failed"
    <2>1. wire # <<>> /\ Refusals(wait) = {<<"01", v>> : v \in {"00", "FF"}} /\ Grants(wait) = {}
      <3>1. Len(<<>>) = 0
        OBVIOUS
      <3> QED
        BY <1>1, <3>1 DEF Refusals, Grants
    <2>2. PICK v \in {"00", "FF"} : at = AtHop /\ wire = <<"01", v>>
      BY <1>1, <2>1, BeforeARead
    <2>3. wire' = <<>>
      <3>1. Len(<<"01", v>>) = 2
        OBVIOUS
      <3> QED
        BY <1>1, <2>2, <3>1, SubSeqEmpty
    <2>4. Talking' /\ Answered' /\ Streams'
      BY <1>1, <1>2, <1>3, <1>5, <2>2, <2>3, BeforeARead DEF Talking, Answered, Streams
    <2>5. Speaker("header") = Speaker("verdict")
      BY DEF Speaker
    <2> QED
      BY <1>1, <1>3, <1>5, <2>2, <2>4, <2>5, BeforeARead, Proceeds DEF Replies
  <1> QED
    BY <1>4, <1>5

LEMMA UnitsAssociate ==
    \A u, v, w \in Seq(Units) : (u \o v) \o w = u \o (v \o w)
  <1> SUFFICES ASSUME NEW u \in Seq(Units), NEW v \in Seq(Units), NEW w \in Seq(Units)
               PROVE  (u \o v) \o w = u \o (v \o w)
    BY Zenon
  <1> QED
    BY ConcatAssociative

\* Behind the first units of the answer come the address and what the target says.
LEMMA HeaderRead ==
    ASSUME NEW type \in Types, NEW n \in Nat, NEW w,
           w = (<<"05", "00", type>> \o Address(type)) \o Data(n)
    PROVE  w[3] = type /\ SubSeq(w, 3 + 1, Len(w)) = Address(type) \o Data(n)
  <1> DEFINE u == <<"05", "00", type>>
             a == Address(type)
             d == Data(n)
             t == a \o d
  <1>1. u \in Seq(Units) /\ Len(u) = 3 /\ u[3] = type
    BY UnitsHold, Tuples
  <1>2. a \in Seq(Units) /\ d \in Seq(Units) /\ w = (u \o a) \o d
    BY UnitsHold, DataType
  <1> HIDE DEF u, a, d
  <1>3. w = u \o t
    <2>1. u \in Seq(Units) /\ a \in Seq(Units) /\ d \in Seq(Units)
      BY <1>1, <1>2
    <2>2. (u \o a) \o d = u \o (a \o d)
      BY <2>1, UnitsAssociate, Zenon
    <2> QED
      BY <1>2, <2>2
  <1>4. t \in Seq(Units)
    BY <1>2, ConcatProperties
  <1> HIDE DEF t
  <1>5. /\ \A i \in 1 .. Len(u) : (u \o t)[i] = u[i]
        /\ SubSeq(u \o t, Len(u) + 1, Len(u \o t)) = t
    BY <1>1, <1>4, Cut
  <1>6. w[3] = type /\ SubSeq(w, 3 + 1, Len(w)) = t
    <2>1. (u \o t)[3] = u[3]
      <3>1. 3 \in 1 .. Len(u)
        BY <1>1
      <3> QED
        BY <1>5, <3>1
    <2>2. SubSeq(u \o t, 3 + 1, Len(u \o t)) = t
      BY <1>1, <1>5
    <2> QED
      BY <1>1, <1>3, <2>1, <2>2
  <1> QED
    BY <1>6 DEF t, a, d

\* An upstream that refuses says so in the second unit.
LEMMA HeaderRefused ==
    ASSUME NEW w, w = <<"05", "FF", "01">> \o <<"address">>
    PROVE  w[2] # "00"
  <1> DEFINE u == <<"05", "FF", "01">>
             t == <<"address">>
  <1>1. /\ u \in Seq(Units) /\ t \in Seq(Units) /\ Len(u) = 3 /\ u[2] = "FF"
    BY UnitsHold, Tuples
  <1> HIDE DEF u, t
  <1>2. \A i \in 1 .. Len(u) : (u \o t)[i] = u[i]
    BY <1>1, Cut
  <1>3. w = u \o t
    BY DEF u, t
  <1> QED
    BY <1>1, <1>2, <1>3

LEMMA ReadHeaderKeeps ==
    ASSUME ServedInv, ReadHeader, Untold
    PROVE  ServedInv'
  <1>1. /\ wait = "header" /\ Len(wire) >= 3 /\ wait \in Replies /\ request' = request
        /\ UNCHANGED <<client, path, sent, gone, inbox, taken, told, user, selected, asked,
                       at, closed, said>>
        /\ wire' = SubSeq(wire, 3 + 1, Len(wire))
    BY DEF ReadHeader, Takes, Goes, Untold, fixed, stream, verdicts, Replies
  <1>2. wire' \in Seq(Units)
    BY <1>1, BeforeARead, LeftOver
  <1>3. \/ wait' = "failed"
        \/ wait' = "length" /\ wire[2] = "00" /\ wire[3] = "03"
        \/ wait' = "address" /\ wire[2] = "00" /\ wire[3] \in {"01", "04"}
    BY DEF ReadHeader, Goes
  <1>4. CASE wait' = "failed"
    BY <1>1, <1>2, <1>4, ReadFails
  <1>5. CASE wait' # "failed"
    <2>1. /\ wire # <<>> /\ Refusals(wait) = {<<"05", "FF", "01">> \o <<"address">>}
          /\ Grants(wait) = {<<"05", "00", type>> \o Address(type) : type \in Types}
      <3>1. Len(<<>>) = 0
        OBVIOUS
      <3> QED
        BY <1>1, <3>1 DEF Refusals, Grants
    <2>2. PICK type \in Types :
             /\ at = asked /\ request = Nobody
             /\ wire = (<<"05", "00", type>> \o Address(type)) \o Data(said)
      BY <1>1, <1>3, <1>5, <2>1, BeforeARead, HeaderRefused
    <2>3. said \in Nat
      BY <1>1, BeforeARead
    <2>4. wire[3] = type /\ wire' = Address(type) \o Data(said)
      BY <1>1, <2>2, <2>3, HeaderRead
    <2>5. Address(type) \in Grants(wait') /\ wait' \in {"length", "address"}
      BY <1>3, <1>5, <2>4 DEF Grants, Address
    <2>6. Talking'
      <3>1. Grants(wait)' = Grants(wait') /\ Data(said)' = Data(said)
        BY <1>1 DEF Grants, Address, Types, Phrases, Data
      <3> QED
        BY <1>1, <2>2, <2>4, <2>5, <3>1 DEF Talking
    <2>7. Answered' /\ Streams'
      BY <1>1, <1>2, <2>5, BeforeARead DEF Answered, Streams
    <2>8. Speaker("length") = Speaker("header") /\ Speaker("address") = Speaker("header")
      BY DEF Speaker
    <2> QED
      BY <1>1, <2>2, <2>5, <2>6, <2>7, <2>8, BeforeARead, Proceeds DEF Replies
  <1> QED
    BY <1>4, <1>5

LEMMA ReadLengthKeeps ==
    ASSUME ServedInv, ReadLength, Untold
    PROVE  ServedInv'
  <1>1. /\ wait = "length" /\ Len(wire) >= 1 /\ wait \in Replies /\ request' = request
        /\ wait' = "address"
        /\ UNCHANGED <<client, path, sent, gone, inbox, taken, told, user, selected, asked,
                       at, closed, said>>
        /\ wire' = SubSeq(wire, 1 + 1, Len(wire))
    BY DEF ReadLength, Takes, Goes, Untold, fixed, stream, verdicts, Replies
  <1>2. wire' \in Seq(Units)
    BY <1>1, BeforeARead, LeftOver
  <1>3. /\ wire # <<>> /\ Refusals(wait) = {} /\ Grants(wait) = {<<"length", "address">>}
    <2>1. Len(<<>>) = 0
      OBVIOUS
    <2> QED
      BY <1>1, <2>1 DEF Refusals, Grants
  <1>4. at = asked /\ request = Nobody /\ wire = <<"length", "address">> \o Data(said)
    BY <1>1, <1>3, BeforeARead
  <1>5. wire' = <<"address">> \o Data(said)
    <2> DEFINE u == <<"length">>
               a == <<"address">>
               d == Data(said)
               t == a \o d
    <2>1. /\ u \in Seq(Units) /\ a \in Seq(Units) /\ d \in Seq(Units) /\ Len(u) = 1
          /\ u \o a = <<"length", "address">>
      <3>1. "length" \in Units /\ "address" \in Units
        BY UnitsHold
      <3> QED
        BY <1>1, <3>1, Tuples, Tupled, BeforeARead
    <2> HIDE DEF u, a, d
    <2>2. wire = u \o t /\ t \in Seq(Units)
      <3>1. (u \o a) \o d = u \o (a \o d)
        <4>1. u \in Seq(Units) /\ a \in Seq(Units) /\ d \in Seq(Units)
          BY <2>1
        <4> QED
          BY <4>1, ConcatAssociative
      <3>2. a \o d \in Seq(Units)
        BY <2>1, ConcatProperties
      <3>3. wire = (u \o a) \o d
        BY <1>4, <2>1 DEF d
      <3> QED
        BY <3>1, <3>2, <3>3
    <2> HIDE DEF t
    <2>3. SubSeq(u \o t, Len(u) + 1, Len(u \o t)) = t
      BY <2>1, <2>2, Cut
    <2> QED
      BY <1>1, <2>1, <2>2, <2>3 DEF t, a, d
  <1>6. Talking'
    <2>1. Grants(wait)' = {<<"address">>} /\ Data(said)' = Data(said)
      BY <1>1 DEF Grants, Data
    <2> QED
      BY <1>1, <1>4, <1>5, <2>1 DEF Talking
  <1>7. Answered' /\ Streams'
    BY <1>1, <1>2, BeforeARead DEF Answered, Streams
  <1>8. Speaker("address") = Speaker("length")
    BY DEF Speaker
  <1> QED
    BY <1>1, <1>4, <1>6, <1>7, <1>8, BeforeARead, Proceeds DEF Replies

LEMMA ReadAddressKeeps ==
    ASSUME ServedInv, ReadAddress, Untold
    PROVE  ServedInv'
  <1>1. /\ wait = "address" /\ Len(wire) >= 1 /\ wait \in Replies /\ request' = request
        /\ wait' = "next"
        /\ UNCHANGED <<client, path, sent, gone, inbox, taken, told, user, selected, asked,
                       at, closed, said>>
        /\ wire' = SubSeq(wire, 1 + 1, Len(wire))
    BY DEF ReadAddress, Takes, Goes, Untold, fixed, stream, verdicts, Replies
  <1>2. wire' \in Seq(Units)
    BY <1>1, BeforeARead, LeftOver
  <1>3. /\ wire # <<>> /\ Refusals(wait) = {} /\ Grants(wait) = {<<"address">>}
    <2>1. Len(<<>>) = 0
      OBVIOUS
    <2> QED
      BY <1>1, <2>1 DEF Refusals, Grants
  <1>4. at = asked /\ request = Nobody /\ wire = <<"address">> \o Data(said)
    BY <1>1, <1>3, BeforeARead
  <1>5. wire' = Data(said)
    <2> DEFINE u == <<"address">>
               d == Data(said)
    <2>1. u \in Seq(Units) /\ d \in Seq(Units) /\ Len(u) = 1
      BY <1>1, UnitsHold, Tuples, BeforeARead
    <2> HIDE DEF u, d
    <2>2. SubSeq(u \o d, Len(u) + 1, Len(u \o d)) = d
      BY <2>1, Cut
    <2> QED
      BY <1>1, <1>4, <2>1, <2>2 DEF u, d
  <1>6. Answered'
    <2>1. path.hop.kind = "socks5" /\ told = <<>>
      BY <1>1, BeforeARead DEF Speaker
    <2>2. Data(said)' = Data(said)
      BY <1>1 DEF Data
    <2> QED
      BY <1>1, <1>4, <1>5, <2>1, <2>2 DEF Answered
  <1>7. Talking' /\ Streams'
    BY <1>1, <1>2, BeforeARead DEF Talking, Streams, Replies
  <1> QED
    BY <1>1, <1>4, <1>6, <1>7, BeforeARead, Proceeds DEF Replies

\* The eight bytes of an upstream that has connected, and nothing behind them, have
\* been read.
LEMMA GrantedRead ==
    ASSUME ServedInv, ReadGranted, wait' # "failed"
    PROVE  /\ at = asked /\ asked # NoName /\ request = Nobody /\ wait' = "next"
           /\ wire' = Data(said) /\ SubSeq(wire, 1, 2) = Granted
  <1>1. /\ wait = "granted" /\ wait \in Replies /\ Len(wire) >= 2
        /\ wire' = SubSeq(wire, 2 + 1, Len(wire)) /\ wait' = "next" /\ wire[2] = "5A"
    BY DEF ReadGranted, Takes, Goes, Replies
  <1>2. /\ wire # <<>> /\ Refusals(wait) = {<<"00", "FF">>} /\ Grants(wait) = {<<"00", "5A">>}
    <2>1. Len(<<>>) = 0
      OBVIOUS
    <2> QED
      BY <1>1, <2>1 DEF Refusals, Grants
  <1>3. wire # <<"00", "FF">>
    <2>1. <<"00", "FF">>[2] = "FF"
      OBVIOUS
    <2> QED
      BY <1>1, <2>1
  <1>4. at = asked /\ request = Nobody /\ wire = <<"00", "5A">> \o Data(said)
    BY <1>1, <1>2, <1>3, BeforeARead
  <1>5. wire' = Data(said) /\ SubSeq(wire, 1, 2) = <<"00", "5A">>
    <2> DEFINE u == <<"00", "5A">>
               d == Data(said)
    <2>1. u \in Seq(Units) /\ d \in Seq(Units) /\ Len(u) = 2
      BY <1>1, UnitsHold, Tuples, BeforeARead
    <2> HIDE DEF u, d
    <2>2. SubSeq(u \o d, Len(u) + 1, Len(u \o d)) = d
      BY <2>1, Cut
    <2>3. SubSeq(u \o d, 1, Len(u)) = u
      <3>1. 1 \in 1 .. Len(u) /\ Len(u) \in 1 .. Len(u)
        BY <2>1
      <3>2. SubSeq(u \o d, 1, Len(u)) = SubSeq(u, 1, Len(u))
        BY <2>1, <3>1, SubSeqOfConcat1
      <3>3. SubSeq(u, 1, Len(u)) = u
        BY <2>1, SubSeqFull
      <3> QED
        BY <3>2, <3>3
    <2> QED
      BY <1>1, <1>4, <2>1, <2>2, <2>3 DEF u, d
  <1>6. asked # NoName
    BY <1>4, Distinct DEF ServedInv, TypeOK
  <1> QED
    BY <1>1, <1>4, <1>5, <1>6 DEF Granted

LEMMA ReadGrantedKeeps ==
    ASSUME ServedInv, ReadGranted, UNCHANGED <<fixed, stream, taken, verdicts, asked, passed>>,
           \/ client.proto # "socks4" /\ told' = told
           \/ client.proto = "socks4" /\ told' = Append(told, SubSeq(wire, 1, 2))
    PROVE  ServedInv'
  <1>1. /\ wait = "granted" /\ wait \in Replies /\ Len(wire) >= 2 /\ request' = request
        /\ UNCHANGED <<client, path, sent, gone, inbox, taken, user, selected, asked,
                       at, closed, said>>
        /\ wire' = SubSeq(wire, 2 + 1, Len(wire))
    BY DEF ReadGranted, Takes, Goes, fixed, stream, verdicts, Replies
  <1>2. wire' \in Seq(Units)
    BY <1>1, BeforeARead, LeftOver
  <1>3. told' \in Seq(Seq(Units))
    <2>1. SubSeq(wire, 1, 2) \in Seq(Units)
      BY <1>1, BeforeARead, PartType
    <2>2. told \in Seq(Seq(Units))
      BY <1>1, BeforeARead
    <2>3. Append(told, SubSeq(wire, 1, 2)) \in Seq(Seq(Units))
      BY <2>1, <2>2, HeardLast
    <2> QED
      BY <2>2, <2>3
  <1>4. CASE wait' = "failed"
    BY <1>1, <1>2, <1>3, <1>4, BeforeARead, Dropping DEF Streams
  <1>5. CASE wait' # "failed"
    <2>1. /\ at = asked /\ asked # NoName /\ request = Nobody /\ wait' = "next"
          /\ wire' = Data(said) /\ SubSeq(wire, 1, 2) = Granted
      BY <1>5, GrantedRead
    <2>2. path.hop.kind = "socks4" /\ told = <<>> /\ Data(said)' = Data(said)
      BY <1>1, BeforeARead DEF Speaker, Data
    <2>3. IF client.proto = "socks4" THEN told' = <<Granted>> ELSE told' = <<>>
      <3>1. <<>> \o <<Granted>> = <<Granted>> /\ Append(<<>>, Granted) = <<>> \o <<Granted>>
        <4> DEFINE none == <<>>
        <4>1. none \in Seq(Seq(Units)) /\ none = <<>>
          BY HeardOnce
        <4> HIDE DEF none
        <4> QED
          BY <4>1, AnswersType, HeardLast
      <3> QED
        BY <2>1, <2>2, <3>1
    <2>4. Answered'
      BY <1>1, <2>1, <2>2, <2>3 DEF Answered
    <2>5. Talking' /\ Streams'
      BY <1>2, <1>3, <2>1 DEF Talking, Streams, Replies
    <2> QED
      BY <1>1, <2>1, <2>4, <2>5, Proceeds DEF Replies
  <1> QED
    BY <1>4, <1>5

\* What is found in a line, and is neither its frame nor what follows, is its middle.
LEMMA InTheMiddle ==
    ASSUME NEW u \in Seq(Units), NEW d \in Seq(Units), NEW x, Len(u) = 3, u[1] # x, u[3] # x,
           \A i \in 1 .. Len(d) : d[i] # x,
           NEW j \in 1 .. Len(u \o d), (u \o d)[j] = x
    PROVE  u[2] = x
  <1>1. /\ Len(u \o d) = Len(u) + Len(d)
        /\ \A i \in 1 .. Len(u) + Len(d) :
              (u \o d)[i] = IF i <= Len(u) THEN u[i] ELSE d[i - Len(u)]
    BY ConcatProperties
  <1>2. Len(d) \in Nat /\ j \in 1 .. 3 + Len(d) /\ x = IF j <= 3 THEN u[j] ELSE d[j - 3]
    BY <1>1
  <1>3. CASE j <= 3
    <2>1. j = 1 \/ j = 2 \/ j = 3
      BY <1>2, <1>3
    <2> QED
      BY <1>2, <1>3, <2>1
  <1>4. CASE ~(j <= 3)
    <2>1. j - 3 \in 1 .. Len(d)
      BY <1>2, <1>4
    <2> QED
      BY <1>2, <1>4, <2>1
  <1> QED
    BY <1>3, <1>4

\* What is searched for, and what an HTTP upstream sends.
Phrase == "200 Connection Established"
StatusLine(code) == <<"HTTP/1.1", code, "CRLF">>

LEMMA StatusLineType ==
    /\ \A code \in Units : /\ StatusLine(code) \in Seq(Units) /\ Len(StatusLine(code)) = 3
                           /\ StatusLine(code)[1] # Phrase /\ StatusLine(code)[2] = code
                           /\ StatusLine(code)[3] # Phrase
    /\ Phrase # "FF" /\ Established = StatusLine(Phrase)
    /\ \A n : \A i \in 1 .. n : Data(n)[i] # Phrase
  BY UnitsHold, Tuples DEF StatusLine, Phrase, Established, Data

\* The phrase is found in the line of an upstream that has connected, in no other,
\* and not in what the target says.
LEMMA OnlyEstablished ==
    ASSUME NEW code \in Units, NEW n \in Nat, NEW w, w = StatusLine(code) \o Data(n),
           NEW j \in 1 .. Len(w), w[j] = Phrase
    PROVE  code = Phrase
  <1> DEFINE u == StatusLine(code)
             d == Data(n)
             x == Phrase
  <1>1. u \in Seq(Units) /\ Len(u) = 3 /\ u[2] = code
    BY StatusLineType
  <1>2. u[1] # x /\ u[3] # x
    BY StatusLineType
  <1>3. \A i \in 1 .. n : d[i] # x
    BY StatusLineType
  <1>4. d \in Seq(Units) /\ Len(d) = n
    BY DataType
  <1>5. j \in 1 .. Len(u \o d) /\ (u \o d)[j] = x
    OBVIOUS
  <1> HIDE DEF u, d, x
  <1>6. \A i \in 1 .. Len(d) : d[i] # x
    BY <1>3, <1>4
  <1>7. u[2] = x
    <2>1. u \in Seq(Units) /\ d \in Seq(Units) /\ Len(u) = 3
      BY <1>1, <1>4
    <2> QED
      BY <1>2, <1>5, <1>6, <2>1, InTheMiddle
  <1> QED
    BY <1>1, <1>7 DEF x

LEMMA StatusRead ==
    ASSUME ServedInv, wait = "status", NEW j \in 1 .. Len(wire), wire[j] = Phrase
    PROVE  at = asked /\ request = Nobody /\ wire = Established \o Data(said)
  <1>1. wait \in Replies /\ said \in Nat
    BY BeforeARead DEF Replies
  <1>2. wire # <<>>
    <2>1. Len(<<>>) = 0
      OBVIOUS
    <2> QED
      BY <2>1
  <1>3. /\ Refusals(wait) = {StatusLine("FF")}
        /\ Grants(wait) = {StatusLine(code) : code \in Phrases}
    BY DEF Refusals, Grants, StatusLine
  <1>4. wire # StatusLine("FF")
    <2> SUFFICES ASSUME wire = StatusLine("FF") PROVE FALSE
      OBVIOUS
    <2>1. "FF" \in Units /\ StatusLine("FF") \in Seq(Units) /\ Phrase # "FF"
      BY UnitsHold, StatusLineType
    <2>2. StatusLine("FF") = StatusLine("FF") \o Data(0)
      BY <2>1, NoData, ConcatEmptySeq
    <2>3. "FF" = Phrase
      BY <2>1, <2>2, OnlyEstablished
    <2> QED
      BY <2>1, <2>3
  <1>5. PICK code \in Phrases :
           at = asked /\ request = Nobody /\ wire = StatusLine(code) \o Data(said)
    BY <1>1, <1>2, <1>3, <1>4, BeforeARead
  <1>6. code = Phrase
    BY <1>1, <1>5, UnitsHold, OnlyEstablished
  <1> QED
    BY <1>5, <1>6, StatusLineType

LEMMA ReadStatusKeeps ==
    ASSUME ServedInv, ReadStatus, UNCHANGED <<fixed, stream, taken, verdicts, asked, passed>>,
           \/ client.proto # "https" /\ told' = told
           \/ /\ client.proto = "https"
              /\ told' = IF wait' = "next"
                         THEN Append(told, SubSeq(wire, 1, Len(wire) - Len(wire')))
                         ELSE told
    PROVE  ServedInv'
  <1>1. PICK n \in 1 .. Len(wire) :
           /\ Takes("status", n)
           /\ IF "200 Connection Established" \in ToSet(SubSeq(wire, 1, n))
              THEN Goes("next", request) ELSE Goes("failed", request)
    BY DEF ReadStatus
  <1>2. /\ wait = "status" /\ wait \in Replies /\ request' = request
        /\ UNCHANGED <<client, path, sent, gone, inbox, taken, user, selected, asked,
                       at, closed, said>>
        /\ wire' = SubSeq(wire, n + 1, Len(wire))
    BY <1>1 DEF Takes, Goes, fixed, stream, verdicts, Replies
  <1>3. wire \in Seq(Units) /\ Len(wire) \in Nat /\ n \in Nat /\ n <= Len(wire) /\ 1 <= n
    <2>1. wire \in Seq(Units) /\ Len(wire) \in Nat
      BY <1>2, BeforeARead
    <2> QED
      BY <2>1
  <1>4. wire' \in Seq(Units)
    BY <1>2, <1>3, LeftOver
  <1>5. CASE wait' = "failed"
    <2>1. told' = told
      BY <1>5
    <2> QED
      BY <1>2, <1>4, <1>5, <2>1, ReadFails
  <1>6. CASE wait' # "failed"
    <2>1. wait' = "next" /\ "200 Connection Established" \in ToSet(SubSeq(wire, 1, n))
      BY <1>1, <1>6 DEF Goes
    <2>2. at = asked /\ request = Nobody /\ wire = Established \o Data(said)
      <3>1. \E j \in 1 .. n : wire[j] = Phrase
        BY <1>3, <2>1, Found DEF Phrase
      <3>2. \A j \in 1 .. n : j \in 1 .. Len(wire)
        BY <1>3
      <3> QED
        BY <1>2, <3>1, <3>2, StatusRead
    <2>3. /\ path.hop.kind = "http" /\ told = <<>> /\ asked # NoName
          /\ client.proto \in {"socks4", "https"} /\ Data(said)' = Data(said)
      BY <1>2, BeforeARead DEF Speaker, Data
    <2> DEFINE head == SubSeq(wire, 1, n)
    <2>4. head \in Seq(Units) /\ head \o wire' = wire
      <3>1. head \in Seq(Units)
        BY <1>3, PartType
      <3>2. 1 \in 1 .. Len(wire) + 1 /\ n \in 1 - 1 .. Len(wire) /\ Len(wire) \in n .. Len(wire)
        BY <1>3
      <3>3. head \o SubSeq(wire, n + 1, Len(wire)) = SubSeq(wire, 1, Len(wire))
        BY <1>3, <3>2, ConcatAdjacentSubSeq
      <3>4. SubSeq(wire, 1, Len(wire)) = wire
        BY <1>3, SubSeqFull
      <3> QED
        BY <1>2, <3>1, <3>3, <3>4
    <2>5. Len(wire) - Len(wire') = n
      <3>1. Len(wire') = IF n + 1 <= Len(wire) THEN Len(wire) - (n + 1) + 1 ELSE 0
        <4>1. \A i \in n + 1 .. Len(wire) : wire[i] \in Units
          BY <1>3
        <4>2. n + 1 \in Int /\ Len(wire) \in Int
          BY <1>3
        <4> QED
          BY <1>2, <4>1, <4>2, SubSeqProperties
      <3> QED
        BY <1>3, <3>1
    <2>6. client.proto = "https" => told' = Append(told, head)
      BY <2>1, <2>5
    <2> HIDE DEF head
    <2>7. told' \in Seq(Seq(Units))
      <3>1. told \in Seq(Seq(Units))
        BY <1>2, BeforeARead
      <3>2. Append(told, head) \in Seq(Seq(Units))
        BY <2>4, <3>1, HeardLast
      <3> QED
        BY <2>3, <2>6, <3>1, <3>2
    <2>8. IF client.proto = "https" THEN told' = <<head>> ELSE told' = <<>>
      <3>1. Append(<<>>, head) = <<>> \o <<head>> /\ <<>> \o <<head>> = <<head>>
        <4> DEFINE none == <<>>
        <4>1. none \in Seq(Seq(Units)) /\ none = <<>>
          BY HeardOnce
        <4> HIDE DEF none
        <4> QED
          BY <2>4, <4>1, HeardLast
      <3> QED
        BY <2>3, <2>6, <3>1
    <2>9. Len(<<head>>) = 1 /\ <<head>>[1] = head
      OBVIOUS
    <2>10. Answered'
      <3>1. client' = client /\ path' = path /\ at' = at /\ asked' = asked
        BY <1>2
      <3> QED
        BY <2>2, <2>3, <2>4, <2>8, <2>9, <3>1 DEF Answered
    <2>11. Talking' /\ Streams'
      BY <1>4, <2>1, <2>7 DEF Talking, Streams, Replies
    <2> QED
      BY <1>2, <2>1, <2>2, <2>3, <2>10, <2>11, Proceeds DEF Replies
  <1> QED
    BY <1>5, <1>6

\* The handlers read what upstreams of each kind answer (src/protocols/socks4.rs,
\* http.rs, https.rs).
LEMMA ReadsSocks5Keeps ==
    ASSUME ServedInv, ReadsSocks5(path.hop, asked), Untold
    PROVE  ServedInv'
  BY ReadMethodKeeps, ReadVerdictKeeps, ReadHeaderKeeps, ReadLengthKeeps, ReadAddressKeeps
  DEF ReadsSocks5

LEMMA ConversesKeeps ==
    ASSUME ServedInv,
           \/ Socks4Converses \/ HttpConverses \/ HttpsConverses
           \/ Socks4Forwards \/ HttpsForwards \/ UpstreamBreaks
    PROVE  ServedInv'
  <1>1. wait \in Replies
    BY DEF Socks4Converses, HttpConverses, HttpsConverses, Socks4Forwards, HttpsForwards,
           UpstreamBreaks, Single, ReadsSocks5, ReadMethod, ReadVerdict, ReadHeader, ReadLength,
           ReadAddress, ReadGranted, ReadStatus, Takes, Breaks, Replies
  <1>2. Detected(taken) = client.proto
    BY <1>1, BeforeARead
  <1>3. Untold => /\ UNCHANGED <<fixed, stream, taken, verdicts, asked, passed>>
                  /\ told' = told
    BY DEF Untold
  <1>4. CASE Socks4Converses
    <2>1. Untold /\ client.proto = "socks4" /\ (ReadsSocks5(path.hop, asked) \/ ReadStatus)
      BY <1>2, <1>4 DEF Socks4Converses, Conversing
    <2>2. CASE ReadStatus
      BY <1>3, <2>1, <2>2, ReadStatusKeeps
    <2> QED
      BY <2>1, <2>2, ReadsSocks5Keeps
  <1>5. CASE HttpConverses \/ HttpsConverses
    <2>1. /\ Untold /\ client.proto \in {"http", "https"}
          /\ ReadsSocks5(path.hop, asked) \/ ReadGranted
      BY <1>2, <1>5 DEF HttpConverses, HttpsConverses, Conversing
    <2>2. CASE ReadGranted
      BY <1>3, <2>1, <2>2, ReadGrantedKeeps
    <2> QED
      BY <2>1, <2>2, ReadsSocks5Keeps
  <1>6. CASE Socks4Forwards
    BY <1>2, <1>6, ReadGrantedKeeps DEF Socks4Forwards, Single
  <1>7. CASE HttpsForwards
    BY <1>2, <1>7, ReadStatusKeeps DEF HttpsForwards, Single
  <1>8. CASE UpstreamBreaks
    <2>1. /\ wait' = "failed" /\ request' = request /\ wire' = wire /\ told' = told
          /\ UNCHANGED <<client, path, sent, gone, inbox, taken, user, selected, asked,
                         at, closed, said>>
      BY <1>8 DEF UpstreamBreaks, Breaks, Untold, fixed, stream, verdicts
    <2> QED
      BY <1>1, <2>1, BeforeARead, ReadFails
  <1> QED
    BY <1>4, <1>5, <1>6, <1>7, <1>8

-------------------------------------------------------------------------------
(* The upstream answers, and the target speaks *)

\* Nothing is on its way while a request has not been answered.
LEMMA BeforeAnAnswer ==
    ASSUME ServedInv, request # Nobody
    PROVE  /\ at = AtHop /\ said = 0
           /\ wait = "failed" \/ wait \in Awaited(request.ask)
           /\ wait \in Replies => wire = <<>> /\ path.hop.kind = Speaker(wait)
           /\ request.ask \in {"greeting", "credentials", "connect"}
           /\ request.ask = "connect" => request.to = asked /\ asked # NoName
           /\ path.hop.kind \in {"socks5", "socks4", "http"}
  <1>1. path.hop.kind \in {"socks5", "socks4", "http"}
    <2>1. path \in Path
      BY CaseType
    <2> QED
      BY <2>1 DEF Path, Hop
  <1> QED
    BY <1>1 DEF ServedInv, TypeOK, Placed, Talking

LEMMA AnswerKeeps ==
    ASSUME ServedInv, request # Nobody, NEW units \in Seq(Units), Answers(units), Untold,
           \/ wait = "failed" /\ at' = AtHop
           \/ wait = "failed" /\ at' = asked /\ asked # NoName
           \/ wait \in Replies /\ at' = AtHop /\ units \in Refusals(wait)
           \/ wait \in Replies /\ at' = asked /\ asked # NoName /\ units \in Grants(wait)
    PROVE  ServedInv'
  <1>1. /\ UNCHANGED <<client, path, sent, gone, inbox, taken, told, user, selected, asked,
                       wait, closed, said>>
        /\ request' = Nobody /\ wire' = wire \o units
    BY DEF Untold, Answers, fixed, stream, verdicts
  <1>2. at = AtHop /\ said = 0 /\ wire \in Seq(Units) /\ (wait \in Replies => wire = <<>>)
    BY BeforeAnAnswer DEF ServedInv, Streams
  <1>3. wait \in Replies \cup {"failed"} /\ wait \notin {"first", "next", "open"}
    BY DEF Replies
  <1>4. wire' \in Seq(Units)
    BY <1>1, <1>2, ConcatProperties
  <1>5. TypeOK'
    BY <1>1, <1>3 DEF ServedInv, TypeOK, script, Outcomes
  <1>6. Placed'
    <2>1. wait' \notin Before5 \cup {"account", "dial"} /\ wait' \notin Names5
      BY <1>1, <1>3 DEF Before5, Names5, Replies
    <2>2. Letters(client)' = Letters(client)
      BY <1>1 DEF Letters, Path1
    <2> QED
      BY <1>1, <1>2, <2>1, <2>2 DEF ServedInv, Placed
  <1>7. Recognised'
    <2>1. Letters(client)' = Letters(client) /\ Opening(client)' = Opening(client)
      BY <1>1 DEF Letters, Opening, Path1
    <2> QED
      BY <1>1, <2>1 DEF ServedInv, Recognised
  <1>8. Talking'
    <2> SUFFICES ASSUME wait \in Replies PROVE Talking'
      BY <1>1 DEF Talking
    <2>1. wait # "failed"
      BY DEF Replies
    <2>2. wire' = units
      BY <1>1, <1>2, ConcatEmptySeq
    <2>3. units = units \o Data(said)' /\ said' = 0
      BY <1>1, <1>2, NoData, ConcatEmptySeq DEF Data
    <2>4. Refusals(wait)' = Refusals(wait) /\ Grants(wait)' = Grants(wait)
      BY <1>1 DEF Refusals, Grants, Methods, Types, Phrases, Address
    <2> QED
      BY <1>1, <2>1, <2>2, <2>3, <2>4 DEF Talking
  <1>9. Answered' /\ Streams' /\ wait' # "open"
    BY <1>1, <1>3, <1>4 DEF Answered, Streams, ServedInv
  <1> QED
    BY <1>5, <1>6, <1>7, <1>8, <1>9 DEF ServedInv

LEMMA FarEndKeeps ==
    ASSUME ServedInv, FarEnd(path.hop), Untold
    PROVE  ServedInv'
  <1> DEFINE kind == path.hop.kind
  <1>1. ASSUME NEW m \in Methods, ChoosesMethod(m)
        PROVE  ServedInv'
    <2>1. request # Nobody /\ request.ask = "greeting" /\ Answers(<<"05", m>>) /\ at' = at
      BY <1>1 DEF ChoosesMethod, Asked
    <2>2. at = AtHop /\ (wait = "failed" \/ wait = "method")
      BY <2>1, BeforeAnAnswer DEF Awaited
    <2>3. <<"05", m>> \in Seq(Units)
      BY UnitsHold, Tuples
    <2>4. wait = "method" => wait \in Replies /\ <<"05", m>> \in Refusals(wait)
      BY DEF Refusals, Replies
    <2> QED
      BY <2>1, <2>2, <2>3, <2>4, AnswerKeeps
  <1>2. ASSUME NEW v \in {"00", "FF"}, JudgesCredentials(v)
        PROVE  ServedInv'
    <2>1. request # Nobody /\ request.ask = "credentials" /\ Answers(<<"01", v>>) /\ at' = at
      BY <1>2 DEF JudgesCredentials, Asked
    <2>2. at = AtHop /\ (wait = "failed" \/ wait = "verdict")
      BY <2>1, BeforeAnAnswer DEF Awaited
    <2>3. <<"01", v>> \in Seq(Units)
      BY UnitsHold, Tuples
    <2>4. wait = "verdict" => wait \in Replies /\ <<"01", v>> \in Refusals(wait)
      BY DEF Refusals, Replies
    <2> QED
      BY <2>1, <2>2, <2>3, <2>4, AnswerKeeps
  <1>3. ASSUME NEW units, request # Nobody, request.ask = "connect", Answers(units),
               \/ at' = at /\ units = Reply(kind, "FF", "01")
               \/ /\ at' = request.to
                  /\ \E type \in Types, code \in Units :
                        /\ units = Reply(kind, code, type)
                        /\ kind = "http" => code \in Phrases
                        /\ kind # "http" => code = Success(kind)
        PROVE  ServedInv'
    <2>1. /\ at = AtHop /\ request.to = asked /\ asked # NoName
          /\ \/ wait = "failed" /\ kind \in {"socks5", "socks4", "http"}
             \/ wait = "header" /\ kind = "socks5"
             \/ wait = "granted" /\ kind = "socks4"
             \/ wait = "status" /\ kind = "http"
      BY <1>3, BeforeAnAnswer DEF Awaited, Replies, Speaker
    <2>2. CASE at' = at /\ units = Reply(kind, "FF", "01")
      <3>1. \/ kind = "socks5" /\ units = <<"05", "FF", "01">> \o <<"address">>
            \/ kind = "socks4" /\ units = <<"00", "FF">>
            \/ kind = "http" /\ units = <<"HTTP/1.1", "FF", "CRLF">>
        BY <2>1, <2>2 DEF Reply, Address
      <3>2. units \in Seq(Units)
        <4>1. /\ <<"05", "FF", "01">> \in Seq(Units) /\ <<"address">> \in Seq(Units)
              /\ <<"00", "FF">> \in Seq(Units) /\ <<"HTTP/1.1", "FF", "CRLF">> \in Seq(Units)
          BY UnitsHold, Tuples
        <4>2. <<"05", "FF", "01">> \o <<"address">> \in Seq(Units)
          BY <4>1, ConcatProperties
        <4> QED
          BY <3>1, <4>1, <4>2
      <3>3. wait # "failed" => wait \in Replies /\ units \in Refusals(wait)
        BY <2>1, <3>1 DEF Refusals, Replies
      <3> QED
        BY <1>3, <2>1, <2>2, <3>2, <3>3, AnswerKeeps
    <2>3. ASSUME NEW type \in Types, NEW code \in Units, at' = request.to,
                 units = Reply(kind, code, type),
                 kind = "http" => code \in Phrases,
                 kind # "http" => code = Success(kind)
          PROVE  ServedInv'
      <3>1. \/ kind = "socks5" /\ units = <<"05", "00", type>> \o Address(type)
            \/ kind = "socks4" /\ units = <<"00", "5A">>
            \/ kind = "http" /\ code \in Phrases /\ units = <<"HTTP/1.1", code, "CRLF">>
        BY <2>1, <2>3 DEF Reply, Success
      <3>2. units \in Seq(Units)
        <4>1. /\ <<"05", "00", type>> \in Seq(Units) /\ Address(type) \in Seq(Units)
              /\ <<"00", "5A">> \in Seq(Units) /\ <<"HTTP/1.1", code, "CRLF">> \in Seq(Units)
          BY UnitsHold, Tuples
        <4>2. <<"05", "00", type>> \o Address(type) \in Seq(Units)
          BY <4>1, ConcatProperties
        <4> QED
          BY <3>1, <4>1, <4>2
      <3>3. wait # "failed" => wait \in Replies /\ units \in Grants(wait)
        BY <2>1, <3>1 DEF Grants, Replies
      <3> QED
        BY <1>3, <2>1, <2>3, <3>2, <3>3, AnswerKeeps
    <2> QED
      BY <1>3, <2>2, <2>3
  <1>4. ASSUME Refuses(path.hop) PROVE ServedInv'
    BY <1>3, <1>4 DEF Refuses, Asked
  <1>5. ASSUME NEW type \in Types, NEW worded \in BOOLEAN, Connects(path.hop, type, worded)
        PROVE  ServedInv'
    <2> DEFINE code == IF worded THEN Success(kind) ELSE "200 OK"
               units == Reply(kind, code, type)
    <2>1. /\ request # Nobody /\ request.ask = "connect" /\ Answers(units)
          /\ at' = request.to /\ (kind # "http" => code = Success(kind))
      BY <1>5 DEF Connects, Asked
    <2>2. kind \in {"socks5", "socks4", "http"}
      BY <2>1, BeforeAnAnswer
    <2>3. code \in Units /\ (kind = "http" => code \in Phrases)
      BY <2>2, UnitsHold DEF Success, Phrases
    <2> HIDE DEF code
    <2> QED
      BY <1>3, <2>1, <2>3
  <1> QED
    BY <1>1, <1>2, <1>4, <1>5 DEF FarEnd, Methods, Types

\* What is said goes behind the last of what was sent.
LEMMA SaidBehind ==
    \A t, w \in Seq(Units) : Append(t \o w, "data") = t \o Append(w, "data")
  <1> DEFINE x == "data"
  <1>1. x \in Units
    BY UnitsHold
  <1> HIDE DEF x
  <1> SUFFICES ASSUME NEW t \in Seq(Units), NEW w \in Seq(Units)
               PROVE  Append(t \o w, x) = t \o Append(w, x)
    BY Zenon DEF x
  <1>2. t \o w \in Seq(Units) /\ <<x>> \in Seq(Units)
    BY <1>1, ConcatProperties
  <1>3. Append(w, x) = w \o <<x>>
    BY <1>1, AppendIsConcat
  <1>4. Append(t \o w, x) = (t \o w) \o <<x>>
    BY <1>1, <1>2, AppendIsConcat
  <1>5. (t \o w) \o <<x>> = t \o (w \o <<x>>)
    BY <1>2, ConcatAssociative
  <1> QED
    BY <1>3, <1>4, <1>5, Zenon

\* What the target says goes behind everything else.
LEMMA EstablishedGrows ==
    ASSUME NEW t \in Seq(Units), NEW w \in Seq(Units), NEW n \in Nat,
           t \o w = Established \o Data(n)
    PROVE  t \o Append(w, "data") = Established \o Data(n + 1)
  <1>1. Established \in Seq(Units)
    BY AnswersType
  <1>2. Append(Established \o Data(n), "data") = Established \o Data(n + 1)
    BY <1>1, DataGrows
  <1>3. Append(t \o w, "data") = t \o Append(w, "data")
    BY SaidBehind, Zenon
  <1> QED
    BY <1>2, <1>3

LEMMA DataAlone ==
    ASSUME NEW n \in Nat
    PROVE  Append(Data(n), "data") = Data(n + 1) /\ Append(Data(n), "data") \in Seq(Units)
  <1> DEFINE none == <<>>
  <1>1. none \in Seq(Units) /\ Data(n) \in Seq(Units) /\ Data(n + 1) \in Seq(Units)
    BY DataType
  <1>2. none \o Data(n) = Data(n) /\ none \o Data(n + 1) = Data(n + 1)
    BY <1>1, ConcatEmptySeq
  <1> HIDE DEF none
  <1>3. Append(none \o Data(n), "data") = none \o Data(n + 1)
    BY <1>1, DataGrows
  <1> QED
    BY <1>1, <1>2, <1>3

LEMMA SpeaksKeeps ==
    ASSUME ServedInv, Speaks(asked), Untold
    PROVE  ServedInv'
  <1>1. /\ UNCHANGED <<client, path, sent, gone, inbox, taken, told, user, selected, asked,
                       wait, request, at, closed>>
        /\ at = asked /\ said < MaxSaid /\ wire' = Append(wire, "data") /\ said' = said + 1
    BY DEF Speaks, Untold, fixed, stream, verdicts
  <1>2. /\ said \in Nat /\ said + 1 \in 0 .. MaxSaid /\ wire \in Seq(Units)
        /\ told \in Seq(Seq(Units)) /\ client \in Client
    <2>1. said \in 0 .. MaxSaid /\ MaxSaid \in Nat
      BY InboundAssumption DEF ServedInv, TypeOK
    <2>2. said \in Nat /\ said + 1 \in 0 .. MaxSaid
      BY <1>1, <2>1
    <2> QED
      BY <2>2, CaseType DEF ServedInv, Streams
  <1>3. at # Nowhere /\ at # AtHop
    <2>1. asked # NoName
      BY <1>1, Distinct DEF ServedInv, TypeOK
    <2>2. asked \in Seq(Letters(client))
      BY <2>1 DEF ServedInv, Placed
    <2> QED
      BY <1>1, <1>2, <2>2, NamesApart
  <1>4. /\ request = Nobody /\ wait \notin Before5 \cup {"account", "dial"}
        /\ wait \notin {"first", "route", "account", "dial"}
    BY <1>3 DEF ServedInv, Placed, Before5
  <1>5. Data(said)' = Data(said + 1)
    BY <1>1 DEF Data
  <1>6. wire' \in Seq(Units)
    BY <1>1, <1>2, UnitsHold, AppendProperties
  <1>7. TypeOK'
    BY <1>1, <1>2, <1>4 DEF ServedInv, TypeOK, script
  <1>8. Placed'
    <2>1. Letters(client)' = Letters(client)
      BY <1>1 DEF Letters, Path1
    <2> QED
      BY <1>1, <1>3, <1>4, <2>1 DEF ServedInv, Placed
  <1>9. Recognised'
    <2>1. Letters(client)' = Letters(client) /\ Opening(client)' = Opening(client)
      BY <1>1 DEF Letters, Opening, Path1
    <2> QED
      BY <1>1, <2>1 DEF ServedInv, Recognised
  <1>10. Talking'
    <2> SUFFICES ASSUME wait \in Replies PROVE Talking'
      BY <1>1 DEF Talking
    <2>1. PICK u \in Grants(wait) : wire = u \o Data(said)
      BY <1>3 DEF ServedInv, Talking
    <2>2. u \in Seq(Units)
      <3>1. \A code \in Phrases : <<"HTTP/1.1", code, "CRLF">> \in Seq(Units)
        BY UnitsHold, Tuples
      <3>2. \A type \in Types : <<"05", "00", type>> \in Seq(Units) /\ Address(type) \in Seq(Units)
        BY UnitsHold, Tuples
      <3>3. \A type \in Types : <<"05", "00", type>> \o Address(type) \in Seq(Units)
        BY <3>2, ConcatProperties
      <3>4. /\ <<"length", "address">> \in Seq(Units) /\ <<"address">> \in Seq(Units)
            /\ <<"00", "5A">> \in Seq(Units)
        BY UnitsHold, Tuples
      <3> QED
        BY <3>1, <3>3, <3>4 DEF Grants
    <2>3. wire' = u \o Data(said + 1)
      BY <1>1, <1>2, <2>1, <2>2, DataGrows
    <2>4. Grants(wait)' = Grants(wait)
      BY <1>1 DEF Grants, Types, Phrases, Address
    <2> QED
      BY <1>1, <1>4, <1>5, <2>3, <2>4 DEF Talking
  <1>11. Answered'
    <2> SUFFICES ASSUME wait = "next" PROVE Answered'
      BY <1>1 DEF Answered
    <2>1. wire = Data(said) => wire' = Data(said + 1)
      BY <1>1, <1>2, DataAlone
    <2>2. ASSUME Len(told) = 1, told[1] \o wire = Established \o Data(said)
          PROVE  told[1] \o wire' = Established \o Data(said + 1)
      <3>1. Heard(told) = told[1] /\ Heard(told) \in Seq(Units)
        BY <1>2, <2>2, HeardLast, HeardOnce, AnswersType
      <3>2. Heard(told) \o wire = Established \o Data(said)
        BY <2>2, <3>1
      <3>3. Heard(told) \o Append(wire, "data") = Established \o Data(said + 1)
        BY <1>2, <3>1, <3>2, EstablishedGrows
      <3> QED
        BY <1>1, <3>1, <3>3
    <2>3. Answered
      BY DEF ServedInv
    <2> QED
      BY <1>1, <1>5, <2>1, <2>2, <2>3 DEF Answered
  <1>12. wait' = "open" => ReturnsTheStream'
    <2> SUFFICES ASSUME wait = "open", client.form # "mentions CONNECT",
                        ~(client.proto = "socks4" /\ ~path.multi /\ path.hop.kind = "http")
                 PROVE  Heard(told) \o wire' = Answer \o Data(said + 1)
      BY <1>1, <1>5 DEF ReturnsTheStream, Heard, Data, Answer
    <2>1. Heard(told) \o wire = Answer \o Data(said)
      BY <1>1 DEF ServedInv, ReturnsTheStream, Heard, Data
    <2>2. Heard(told) \in Seq(Units)
      BY <1>2, AnswersType, HeardLast
    <2>3. Answer \in Seq(Units)
      <3>1. client.proto \in {"socks5", "socks4", "https", "http"}
        BY <1>2, CaseType, ClientType DEF ServedInv, Recognised
      <3> QED
        BY <3>1, HeardOnce, AnswersType DEF Answer
    <2>4. Append(Answer \o Data(said), "data") = Answer \o Data(said + 1)
      BY <1>2, <2>3, DataGrows
    <2>5. Append(Heard(told) \o wire, "data") = Heard(told) \o Append(wire, "data")
      BY <1>2, <2>2, SaidBehind, Zenon
    <2> QED
      BY <1>1, <2>1, <2>4, <2>5
  <1> QED
    BY <1>6, <1>1, <1>2, <1>7, <1>8, <1>9, <1>10, <1>11, <1>12 DEF ServedInv, Streams

LEMMA UpstreamKeeps ==
    ASSUME ServedInv, Upstream
    PROVE  ServedInv'
  <1>1. Untold
    BY DEF Upstream
  <1>2. CASE Closes
    <2>1. /\ UNCHANGED <<client, path, sent, gone, inbox, taken, told, user, selected, asked,
                         wait, request, wire, at, said>>
          /\ closed' = TRUE
      BY <1>1, <1>2 DEF Closes, Untold, fixed, stream, verdicts
    <2>2. TypeOK'
      BY <2>1 DEF ServedInv, TypeOK, script
    <2>3. Recognised'
      BY <2>1 DEF ServedInv, Recognised
    <2> QED
      BY <2>1, <2>2, <2>3, SameConversation
  <1> QED
    BY <1>1, <1>2, FarEndKeeps, SpeaksKeeps DEF Upstream

-------------------------------------------------------------------------------

LEMMA ServedAtFirst ==
    ASSUME Init
    PROVE  ServedInv
  <1>1. PICK c \in Cases : client = c.client /\ path = c.path
    BY DEF Init
  <1>2. client \in Client
    BY <1>1, InboundAssumption
  <1>3. Len(script) \in Nat
    BY <1>2, ScriptType DEF script
  <1>4. /\ sent = 0 /\ gone = FALSE /\ inbox = <<>> /\ taken = <<>> /\ told = <<>>
        /\ user = "nobody" /\ selected = "nothing" /\ asked = NoName
        /\ wait = "first" /\ request = Nobody /\ wire = <<>> /\ at = Nowhere
        /\ closed = FALSE /\ said = 0
    BY DEF Init
  <1>5. TypeOK
    <2>1. sent \in 0 .. Len(script) /\ said \in 0 .. MaxSaid
      BY <1>3, <1>4, InboundAssumption
    <2> QED
      BY <1>1, <1>4, <2>1 DEF TypeOK
  <1>6. Placed
    BY <1>4 DEF Placed, Before5, Names5, Handling, Replies
  <1>7. Recognised
    BY <1>4 DEF Recognised
  <1>8. Talking /\ Answered /\ Streams
    BY <1>4 DEF Talking, Answered, Streams, Replies
  <1> QED
    BY <1>4, <1>5, <1>6, <1>7, <1>8 DEF ServedInv

LEMMA ServedStep ==
    ASSUME ServedInv, [Next]_vars
    PROVE  ServedInv'
  <1>1. CASE UNCHANGED vars
    <2>1. TypeOK' /\ Recognised'
      BY <1>1 DEF vars, ServedInv, TypeOK, Recognised, script
    <2> QED
      BY <1>1, <2>1, SameConversation DEF vars
  <1>2. CASE \/ ClientIsGone \/ RequestIsCut \/ NothingMatches \/ IsRefused \/ ChainFails
             \/ FirstReadTimesOut \/ UpstreamIsDown \/ Socks4Rejects
    <2>1. Fails
      BY <1>2 DEF ClientIsGone, RequestIsCut, NothingMatches, IsRefused, ChainFails,
                  FirstReadTimesOut, UpstreamIsDown, Socks4Rejects
    <2> QED
      BY <2>1, FailsKeeps
  <1>3. CASE Sends \/ Leaves \/ Upstream
    BY <1>3, SendsKeeps, LeavesKeeps, UpstreamKeeps
  <1>4. CASE FirstRead \/ Routes \/ AuthenticateUser
    BY <1>4, FirstReadKeeps, RoutingKeeps
  <1>5. CASE \/ Greets \/ LogsIn \/ ReadsRequest \/ ReadsCount
             \/ ReadsName("host", 2) \/ ReadsName("ip", 1)
    BY <1>5, Socks5Keeps
  <1>6. CASE Socks5Chain \/ HandleSocks4Chain \/ HandleHttpsChain \/ HandleHttpChain
    BY <1>6, ChainsKeep
  <1>7. CASE \/ Socks4ToHttp \/ Socks4ToSocks4 \/ Socks4ToSocks5
             \/ HttpToHttp \/ HttpToSocks4 \/ HttpToSocks5
             \/ HttpsToHttp \/ HttpsToSocks4 \/ HttpsToSocks5
    BY <1>7, HandlersOpenKeep
  <1>8. CASE \/ Socks4Converses \/ HttpConverses \/ HttpsConverses
             \/ Socks4Forwards \/ HttpsForwards \/ UpstreamBreaks
    BY <1>8, ConversesKeeps
  <1>9. CASE Socks4Answers \/ HttpAnswers \/ HttpsAnswers
    BY <1>9, HandsOverKeeps
  <1> QED
    BY <1>1, <1>2, <1>3, <1>4, <1>5, <1>6, <1>7, <1>8, <1>9 DEF Next, Router, ClientSide

\* A connection never has two conversations at once: no request is outstanding but
\* the one whose answer is awaited, nothing is asked or read before there is a
\* stream, and nothing is said by a target that is not connected
\* (src/protocols/socks4.rs, http.rs, https.rs, src/protocols/proxy.rs:197-401).
THEOREM InboundTypeOK == Spec => []TypeOK
  <1>1. ServedInv => TypeOK
    BY DEF ServedInv
  <1> QED
    BY <1>1, ServedAtFirst, ServedStep, PTL DEF Spec

\* For every client, every path, every way in which the answers of upstreams are cut
\* and every moment at which the target begins to speak: a client that is served has
\* last been told so in its own protocol and reads what the target says from its first
\* byte (src/protocols/https.rs:68-76, src/protocols/socks4.rs:127-143).
THEOREM InboundReturnsTheStream == Spec => []ReturnsTheStream
  <1>1. ServedInv => ReturnsTheStream
    BY DEF ServedInv, ReturnsTheStream
  <1> QED
    BY <1>1, ServedAtFirst, ServedStep, PTL DEF Spec

-------------------------------------------------------------------------------
(* Cutting strings, and putting them together *)

\* A part of a sequence, unit by unit.
LEMMA Piece ==
    ASSUME NEW S, NEW s \in Seq(S), NEW m \in Nat, NEW n \in Nat, 1 <= m, m <= n + 1, n <= Len(s)
    PROVE  /\ SubSeq(s, m, n) \in Seq(S)
           /\ Len(SubSeq(s, m, n)) = n - m + 1
           /\ \A i \in 1 .. n - m + 1 : SubSeq(s, m, n)[i] = s[m + i - 1]
  <1>1. \A i \in m .. n : s[i] \in S
    <2>1. Len(s) \in Nat /\ \A i \in 1 .. Len(s) : s[i] \in S
      BY LenProperties
    <2> QED
      BY <2>1
  <1>2. /\ SubSeq(s, m, n) \in Seq(S)
        /\ Len(SubSeq(s, m, n)) = IF m <= n THEN n - m + 1 ELSE 0
        /\ \A i \in 1 .. n - m + 1 : SubSeq(s, m, n)[i] = s[m + i - 1]
    BY <1>1, SubSeqProperties
  <1> QED
    BY <1>2

\* A string is cut at the first of the units looked for.
LEMMA CutAt ==
    ASSUME NEW S, NEW s \in Seq(S), NEW ends, NEW k \in 1 .. Len(s), s[k] \in ends,
           \A j \in 1 .. k - 1 : s[j] \notin ends
    PROVE  Upto(s, ends) = SubSeq(s, 1, k - 1) /\ After(s, ends) = SubSeq(s, k + 1, Len(s))
  <1> DEFINE i == Index(s, ends)
  <1>1. \/ i = 0 /\ \A j \in 1 .. Len(s) : s[j] \notin ends
        \/ i \in 1 .. Len(s) /\ s[i] \in ends /\ \A j \in 1 .. i - 1 : s[j] \notin ends
    BY FirstOfThem
  <1>2. Len(s) \in Nat
    BY LenProperties
  <1>3. /\ Upto(s, ends) = IF i = 0 THEN s ELSE SubSeq(s, 1, i - 1)
        /\ After(s, ends) = IF i = 0 THEN <<>> ELSE SubSeq(s, i + 1, Len(s))
    BY DEF Upto, After, Index
  <1> HIDE DEF i
  <1>4. i = k
    <2>1. i \in 1 .. Len(s) /\ s[i] \in ends /\ \A j \in 1 .. i - 1 : s[j] \notin ends
      BY <1>1
    <2>2. ~(i < k)
      BY <1>2, <2>1
    <2>3. ~(k < i)
      BY <1>2, <2>1
    <2> QED
      BY <1>2, <2>1, <2>2, <2>3
  <1>5. i # 0
    BY <1>2, <1>4
  <1> QED
    BY <1>3, <1>4, <1>5

\* A string without any of the units is not cut.
LEMMA NotCut ==
    ASSUME NEW S, NEW s \in Seq(S), NEW ends, \A j \in 1 .. Len(s) : s[j] \notin ends
    PROVE  Upto(s, ends) = s /\ After(s, ends) = <<>>
  <1> DEFINE i == Index(s, ends)
  <1>1. \/ i = 0 /\ \A j \in 1 .. Len(s) : s[j] \notin ends
        \/ i \in 1 .. Len(s) /\ s[i] \in ends /\ \A j \in 1 .. i - 1 : s[j] \notin ends
    BY FirstOfThem
  <1>3. /\ Upto(s, ends) = IF i = 0 THEN s ELSE SubSeq(s, 1, i - 1)
        /\ After(s, ends) = IF i = 0 THEN <<>> ELSE SubSeq(s, i + 1, Len(s))
    BY DEF Upto, After, Index
  <1> HIDE DEF i
  <1> QED
    BY <1>1, <1>3

\* A unit at some place is in the string.
LEMMA HasIt ==
    ASSUME NEW S, NEW s \in Seq(S), NEW x
    PROVE  Has(s, x) <=> \E i \in 1 .. Len(s) : s[i] = x
  <1>1. DOMAIN s = 1 .. Len(s)
    BY LenProperties
  <1> QED
    BY <1>1 DEF Has, ToSet

\* What is spelled like the name is the name.
LEMMA NameIs ==
    ASSUME NEW S, NEW s \in Seq(S), Len(s) = 2, s[1] = "na", s[2] = "me"
    PROVE  s = Name
  BY DEF Name

\* In the string s the name stands behind place h, and a unit of ends behind it.
NamedAt(s, h) == s[h + 1] = "na" /\ s[h + 2] = "me"

\* A name that ends with another unit is cut there.
LEMMA NameCut ==
    ASSUME NEW S, NEW s \in Seq(S), NEW h \in Nat, h + 3 <= Len(s), NamedAt(s, h),
           NEW ends, s[h + 3] \in ends, "na" \notin ends, "me" \notin ends
    PROVE  Upto(SubSeq(s, h + 1, Len(s)), ends) = Name
  <1> DEFINE t == SubSeq(s, h + 1, Len(s))
  <1>1. Len(s) \in Nat
    BY LenProperties
  <1>2. t \in Seq(S) /\ Len(t) = Len(s) - (h + 1) + 1
        /\ \A i \in 1 .. Len(s) - (h + 1) + 1 : t[i] = s[h + 1 + i - 1]
    BY <1>1, Piece
  <1> HIDE DEF t
  <1>3. Len(t) >= 3 /\ t[1] = "na" /\ t[2] = "me" /\ t[3] \in ends
    BY <1>1, <1>2 DEF NamedAt
  <1>4. Upto(t, ends) = SubSeq(t, 1, 3 - 1)
    <2>1. 3 \in 1 .. Len(t) /\ \A j \in 1 .. 3 - 1 : t[j] \notin ends
      <3>1. \A j \in 1 .. 3 - 1 : j = 1 \/ j = 2
        OBVIOUS
      <3> QED
        BY <1>1, <1>2, <1>3, <3>1
    <2> QED
      BY <1>2, <1>3, <2>1, CutAt
  <1> DEFINE u == SubSeq(t, 1, 2)
  <1>5. u \in Seq(S) /\ Len(u) = 2 - 1 + 1 /\ \A i \in 1 .. 2 - 1 + 1 : u[i] = t[1 + i - 1]
    BY <1>1, <1>2, <1>3, Piece
  <1> HIDE DEF u
  <1>6. u = Name
    BY <1>3, <1>5, NameIs
  <1> QED
    BY <1>4, <1>6 DEF t, u

PA == "Proxy-Authorization: Basic "

\* In the string s the header with the credentials is at place h, the first of its kind.
CredentialsAt(s, h) ==
    /\ h \in 1 .. Len(s) /\ h + 3 <= Len(s)
    /\ s[h] = PA /\ \A j \in 1 .. h - 1 : s[j] # PA
    /\ s[h + 1] = "user" /\ s[h + 2] = "pass" /\ s[h + 3] = "EOL"

\* The credentials of a request are found in it.
LEMMA BasicFound ==
    ASSUME NEW S, NEW s \in Seq(S), NEW h, CredentialsAt(s, h)
    PROVE  Has(s, PA) /\ Has(BasicHeader(s), "user") /\ Has(BasicHeader(s), "pass")
  <1> DEFINE t == SubSeq(s, h + 1, Len(s))
             u == SubSeq(t, 1, 2)
  <1>1. Len(s) \in Nat /\ h \in Nat /\ 1 <= h /\ h + 3 <= Len(s)
    BY LenProperties DEF CredentialsAt
  <1>2. t \in Seq(S) /\ Len(t) = Len(s) - (h + 1) + 1
        /\ \A i \in 1 .. Len(s) - (h + 1) + 1 : t[i] = s[h + 1 + i - 1]
    BY <1>1, Piece
  <1>3. After(s, {PA}) = t
    <2>1. h \in 1 .. Len(s) /\ s[h] \in {PA} /\ \A j \in 1 .. h - 1 : s[j] \notin {PA}
      BY DEF CredentialsAt
    <2> QED
      BY <2>1, CutAt
  <1> HIDE DEF t
  <1>4. Len(t) >= 3 /\ t[1] = "user" /\ t[2] = "pass" /\ t[3] = "EOL"
    <2>1. s[h + 1] = "user" /\ s[h + 2] = "pass" /\ s[h + 3] = "EOL"
      BY Zenon DEF CredentialsAt
    <2>2. \A i \in 1 .. 3 : i \in 1 .. Len(s) - (h + 1) + 1 /\ h + 1 + i - 1 = h + i
      BY <1>1
    <2>3. Len(t) >= 3
      BY <1>1, <1>2
    <2>4. \A i \in 1 .. 3 : t[i] = s[h + i]
      BY <1>2, <2>2
    <2>5. t[1] = s[h + 1] /\ t[2] = s[h + 2] /\ t[3] = s[h + 3]
      BY <2>4
    <2> QED
      BY <2>1, <2>3, <2>5
  <1>5. Upto(t, {"EOL"}) = u
    <2>1. 3 \in 1 .. Len(t) /\ \A j \in 1 .. 3 - 1 : t[j] \notin {"EOL"}
      <3>1. \A j \in 1 .. 3 - 1 : j = 1 \/ j = 2
        OBVIOUS
      <3> QED
        BY <1>1, <1>2, <1>4, <3>1
    <2>2. t[3] \in {"EOL"}
      BY <1>4
    <2>3. Upto(t, {"EOL"}) = SubSeq(t, 1, 3 - 1)
      BY <1>2, <2>1, <2>2, CutAt
    <2> QED
      BY <2>3
  <1>6. u \in Seq(S) /\ Len(u) = 2 - 1 + 1 /\ \A i \in 1 .. 2 - 1 + 1 : u[i] = t[1 + i - 1]
    BY <1>1, <1>2, <1>4, Piece
  <1>7. BasicHeader(s) = u
    <2>1. BasicHeader(s) = Upto(After(s, {PA}), {"EOL"})
      BY DEF BasicHeader, PA
    <2> HIDE DEF u
    <2> QED
      BY <1>3, <1>5, <2>1
  <1> HIDE DEF u
  <1>8. u[1] = "user" /\ u[2] = "pass" /\ 1 \in 1 .. Len(u) /\ 2 \in 1 .. Len(u)
    BY <1>4, <1>6
  <1>9. Has(u, "user") /\ Has(u, "pass")
    BY <1>6, <1>8, HasIt
  <1>10. Has(s, PA)
    <2>1. h \in 1 .. Len(s) /\ s[h] = PA
      BY DEF CredentialsAt
    <2> QED
      BY <2>1, HasIt
  <1> QED
    BY <1>7, <1>9, <1>10

\* Without the header there are no credentials.
LEMMA NoBasic ==
    ASSUME NEW S, NEW s \in Seq(S), PA \notin S
    PROVE  ~Has(s, PA) /\ ~Has(BasicHeader(s), "user")
  <1>1. \A j \in 1 .. Len(s) : s[j] \in S
    BY LenProperties
  <1>2. \A j \in 1 .. Len(s) : s[j] \notin {PA}
    BY <1>1
  <1>3. After(s, {PA}) = <<>>
    BY <1>2, NotCut
  <1> DEFINE none == <<>>
  <1>4. none \in Seq(S) /\ Len(none) = 0
    OBVIOUS
  <1> HIDE DEF none
  <1>5. Upto(none, {"EOL"}) = none
    <2>1. \A j \in 1 .. Len(none) : none[j] \notin {"EOL"}
      BY <1>4
    <2> QED
      BY <1>4, <2>1, NotCut
  <1>6. ~Has(none, "user")
    <2>1. ~ \E j \in 1 .. Len(none) : none[j] = "user"
      BY <1>4
    <2> QED
      BY <1>4, <2>1, HasIt
  <1>7. BasicHeader(s) = none
    BY <1>3, <1>5 DEF BasicHeader, PA, none
  <1>8. ~Has(s, PA)
    BY <1>2, HasIt
  <1> QED
    BY <1>6, <1>7, <1>8

\* CONNECT, its target and the end of the line.
LEMMA ConnectParsed ==
    ASSUME NEW S, NEW s \in Seq(S), Len(s) >= 4, s[1] = "CONNECT", NamedAt(s, 1), s[4] = "EOL"
    PROVE  ParseConnectTarget(s) = Name
  <1> DEFINE t == SubSeq(s, 1, 3)
             u == SubSeq(t, 2, 3)
  <1>1. Len(s) \in Nat
    BY LenProperties
  <1>2. s[2] = "na" /\ s[3] = "me"
    BY DEF NamedAt
  <1>3. Upto(s, {"EOL"}) = t
    <2>1. 4 \in 1 .. Len(s) /\ s[4] \in {"EOL"} /\ \A j \in 1 .. 4 - 1 : s[j] \notin {"EOL"}
      <3>1. \A j \in 1 .. 4 - 1 : j = 1 \/ j = 2 \/ j = 3
        OBVIOUS
      <3> QED
        BY <1>1, <1>2, <3>1
    <2>2. Upto(s, {"EOL"}) = SubSeq(s, 1, 4 - 1)
      BY <2>1, CutAt
    <2> QED
      BY <2>2
  <1>4. t \in Seq(S) /\ Len(t) = 3 - 1 + 1 /\ \A i \in 1 .. 3 - 1 + 1 : t[i] = s[1 + i - 1]
    BY <1>1, Piece
  <1> HIDE DEF t
  <1>5. Len(t) = 3 /\ t[1] = "CONNECT" /\ t[2] = "na" /\ t[3] = "me"
    BY <1>2, <1>4
  <1>6. After(t, {"CONNECT"}) = u
    <2>1. 1 \in 1 .. Len(t) /\ t[1] \in {"CONNECT"} /\ \A j \in 1 .. 1 - 1 : t[j] \notin {"CONNECT"}
      BY <1>5
    <2>2. After(t, {"CONNECT"}) = SubSeq(t, 1 + 1, Len(t))
      BY <1>4, <2>1, CutAt
    <2> QED
      BY <1>5, <2>2
  <1>7. u \in Seq(S) /\ Len(u) = 3 - 2 + 1 /\ \A i \in 1 .. 3 - 2 + 1 : u[i] = t[2 + i - 1]
    BY <1>4, <1>5, Piece
  <1> HIDE DEF u
  <1>8. u = Name
    BY <1>5, <1>7, NameIs
  <1>9. After(Upto(s, {"EOL"}), {"CONNECT"}) = u
    BY <1>3, <1>6, Zenon
  <1>10. Name # <<>>
    BY DEF Name
  <1> QED
    BY <1>8, <1>9, <1>10 DEF ParseConnectTarget

\* In the string s the name of the host is behind place h.
HostAt(s, h) ==
    /\ h \in 1 .. Len(s) /\ h + 3 <= Len(s)
    /\ s[h] = "Host: " /\ \A j \in 1 .. h - 1 : s[j] # "Host: "
    /\ NamedAt(s, h) /\ s[h + 3] = "EOL"

\* The name behind Host: is found.
LEMMA HostFound ==
    ASSUME NEW S, NEW s \in Seq(S), NEW h, HostAt(s, h)
    PROVE  HostHeader(s) = Name
  <1>1. Len(s) \in Nat /\ h \in Nat /\ h \in 1 .. Len(s) /\ h + 3 <= Len(s)
    <2>1. Len(s) \in Nat
      BY LenProperties
    <2>2. h \in 1 .. Len(s) /\ h + 3 <= Len(s)
      BY Zenon DEF HostAt
    <2> QED
      BY <2>1, <2>2
  <1>2. Has(s, "Host: ")
    <2>1. s[h] = "Host: "
      BY DEF HostAt
    <2> QED
      BY <1>1, <2>1, HasIt
  <1>3. After(s, {"Host: "}) = SubSeq(s, h + 1, Len(s))
    <2>1. s[h] \in {"Host: "} /\ \A j \in 1 .. h - 1 : s[j] \notin {"Host: "}
      BY DEF HostAt
    <2> QED
      BY <1>1, <2>1, CutAt
  <1>4. Upto(SubSeq(s, h + 1, Len(s)), {"EOL"}) = Name
    <2>1. s[h + 3] \in {"EOL"} /\ "na" \notin {"EOL"} /\ "me" \notin {"EOL"} /\ NamedAt(s, h)
      BY DEF HostAt
    <2> QED
      BY <1>1, <2>1, NameCut
  <1> QED
    BY <1>2, <1>3, <1>4 DEF HostHeader

Paths == {"/", "/CONNECT"}

\* Nothing is in nothing.
LEMMA Nothing ==
    ASSUME NEW ends
    PROVE  Upto(<<>>, ends) = <<>> /\ After(<<>>, ends) = <<>>
  <1> DEFINE none == <<>>
  <1>1. none \in Seq({}) /\ Len(none) = 0
    OBVIOUS
  <1> HIDE DEF none
  <1>2. \A j \in 1 .. Len(none) : none[j] \notin ends
    BY <1>1
  <1>3. Upto(none, ends) = none /\ After(none, ends) = <<>>
    BY <1>1, <1>2, NotCut
  <1> QED
    BY <1>3 DEF none

\* A request line in origin form, and the host behind it.
OriginAt(s) == Len(s) >= 4 /\ s[1] = "GET" /\ s[2] \in Paths /\ s[3] = "EOL"

\* A request line in origin form, and what is in it.
LEMMA OriginLine ==
    ASSUME NEW S, NEW s \in Seq(S), OriginAt(s)
    PROVE  LET line == Upto(s, {"EOL"})
           IN  /\ line = SubSeq(s, 1, 2) /\ line \in Seq(S) /\ Len(line) = 2
               /\ line[1] = "GET" /\ line[2] = s[2]
               /\ ~Has(line, "http://") /\ After(line, {"http://"}) = <<>>
               /\ Has(line, "/CONNECT") <=> s[2] = "/CONNECT"
  <1>1. Len(s) \in Nat /\ Len(s) >= 4
    BY LenProperties DEF OriginAt
  <1>2. s[1] = "GET" /\ s[2] \in Paths /\ s[3] = "EOL"
    BY Zenon DEF OriginAt
  <1> DEFINE t == SubSeq(s, 1, 2)
  <1>3. Upto(s, {"EOL"}) = t
    <2>1. 3 \in 1 .. Len(s)
      BY <1>1
    <2>2. s[3] \in {"EOL"} /\ \A j \in 1 .. 3 - 1 : s[j] \notin {"EOL"}
      <3>1. \A j \in 1 .. 3 - 1 : j = 1 \/ j = 2
        OBVIOUS
      <3>2. s[1] # "EOL" /\ s[2] # "EOL"
        BY <1>2 DEF Paths
      <3> QED
        BY <1>2, <3>1, <3>2
    <2>3. Upto(s, {"EOL"}) = SubSeq(s, 1, 3 - 1)
      BY <2>1, <2>2, CutAt
    <2> QED
      BY <2>3
  <1>4. t \in Seq(S) /\ Len(t) = 2 - 1 + 1 /\ \A i \in 1 .. 2 - 1 + 1 : t[i] = s[1 + i - 1]
    BY <1>1, Piece
  <1> HIDE DEF t
  <1>5. Len(t) = 2 /\ t[1] = "GET" /\ t[2] = s[2] /\ t[2] \in Paths
    BY <1>2, <1>4
  <1>6. \A j \in 1 .. Len(t) : j = 1 \/ j = 2
    BY <1>5
  <1>7. 1 \in 1 .. Len(t) /\ 2 \in 1 .. Len(t)
    BY <1>5
  <1>8. \A j \in 1 .. Len(t) : t[j] \notin {"http://"}
    <2>1. t[1] # "http://" /\ t[2] # "http://"
      BY <1>5 DEF Paths
    <2> QED
      BY <1>6, <2>1
  <1>9. After(t, {"http://"}) = <<>>
    BY <1>4, <1>8, NotCut
  <1>10. ~Has(t, "http://")
    BY <1>4, <1>8, HasIt
  <1>11. Has(t, "/CONNECT") <=> t[2] = "/CONNECT"
    <2>1. t[1] # "/CONNECT"
      BY <1>5
    <2>2. Has(t, "/CONNECT") <=> \E j \in 1 .. Len(t) : t[j] = "/CONNECT"
      BY <1>4, HasIt
    <2> QED
      BY <1>6, <1>7, <2>1, <2>2
  <1> QED
    BY <1>3, <1>4, <1>5, <1>9, <1>10, <1>11, Zenon DEF t

\* The target of such a request is the one of its Host header.
LEMMA OriginParsed ==
    ASSUME NEW S, NEW s \in Seq(S), OriginAt(s), HostAt(s, 4)
    PROVE  ParseHttpTarget(s) = Name
  <1>1. After(Upto(s, {"EOL"}), {"http://"}) = <<>>
    BY OriginLine
  <1>2. Upto(After(Upto(s, {"EOL"}), {"http://"}), {"/", "/CONNECT"}) = <<>>
    BY <1>1, Nothing
  <1>3. HostHeader(s) = Name
    BY HostFound
  <1> QED
    BY <1>2, <1>3 DEF ParseHttpTarget

\* A request line in absolute form.
AbsoluteAt(s) ==
    /\ Len(s) >= 6 /\ s[1] = "GET" /\ s[2] = "http://" /\ s[3] = "na" /\ s[4] = "me"
    /\ s[5] \in Paths /\ s[6] = "EOL"

\* A request line with the authority, and what is in it.
LEMMA AbsoluteLine ==
    ASSUME NEW S, NEW s \in Seq(S), AbsoluteAt(s)
    PROVE  LET line == Upto(s, {"EOL"})
           IN  /\ line = SubSeq(s, 1, 5) /\ line \in Seq(S) /\ Len(line) = 5
               /\ line[1] = "GET" /\ line[5] = s[5]
               /\ Has(line, "http://")
               /\ Upto(After(line, {"http://"}), Paths) = Name
               /\ Has(line, "/CONNECT") <=> s[5] = "/CONNECT"
  <1>1. Len(s) \in Nat /\ Len(s) >= 6
    BY LenProperties DEF AbsoluteAt
  <1>2. /\ s[1] = "GET" /\ s[2] = "http://" /\ s[3] = "na" /\ s[4] = "me"
        /\ s[5] \in Paths /\ s[6] = "EOL"
    BY Zenon DEF AbsoluteAt
  <1> DEFINE t == SubSeq(s, 1, 5)
  <1>3. Upto(s, {"EOL"}) = t
    <2>1. 6 \in 1 .. Len(s)
      BY <1>1
    <2>2. s[6] \in {"EOL"} /\ \A j \in 1 .. 6 - 1 : s[j] \notin {"EOL"}
      <3>1. \A j \in 1 .. 6 - 1 : j = 1 \/ j = 2 \/ j = 3 \/ j = 4 \/ j = 5
        OBVIOUS
      <3>2. s[1] # "EOL" /\ s[2] # "EOL" /\ s[3] # "EOL" /\ s[4] # "EOL" /\ s[5] # "EOL"
        BY <1>2 DEF Paths
      <3> QED
        BY <1>2, <3>1, <3>2
    <2>3. Upto(s, {"EOL"}) = SubSeq(s, 1, 6 - 1)
      BY <2>1, <2>2, CutAt
    <2> QED
      BY <2>3
  <1>4. t \in Seq(S) /\ Len(t) = 5 - 1 + 1 /\ \A i \in 1 .. 5 - 1 + 1 : t[i] = s[1 + i - 1]
    BY <1>1, Piece
  <1> HIDE DEF t
  <1>5. /\ Len(t) = 5 /\ t[1] = s[1] /\ t[2] = s[2] /\ t[3] = s[3] /\ t[4] = s[4]
        /\ t[5] = s[5]
    BY <1>4
  <1>6. \A j \in 1 .. Len(t) : j = 1 \/ j = 2 \/ j = 3 \/ j = 4 \/ j = 5
    BY <1>5
  <1>7. 1 \in 1 .. Len(t) /\ 2 \in 1 .. Len(t) /\ 5 \in 1 .. Len(t)
    BY <1>5
  <1>8. Has(t, "http://")
    BY <1>2, <1>4, <1>5, <1>7, HasIt
  <1>9. Has(t, "/CONNECT") <=> t[5] = "/CONNECT"
    <2>1. t[1] # "/CONNECT" /\ t[2] # "/CONNECT" /\ t[3] # "/CONNECT" /\ t[4] # "/CONNECT"
      BY <1>2, <1>5
    <2>2. Has(t, "/CONNECT") <=> \E j \in 1 .. Len(t) : t[j] = "/CONNECT"
      BY <1>4, HasIt
    <2> QED
      BY <1>6, <1>7, <2>1, <2>2
  <1>10. Upto(After(t, {"http://"}), Paths) = Name
    <2>1. After(t, {"http://"}) = SubSeq(t, 2 + 1, Len(t))
      <3>1. t[2] \in {"http://"} /\ \A j \in 1 .. 2 - 1 : t[j] \notin {"http://"}
        <4>1. \A j \in 1 .. 2 - 1 : j = 1
          OBVIOUS
        <4> QED
          BY <1>2, <1>5, <4>1
      <3> QED
        BY <1>4, <1>7, <3>1, CutAt
    <2>2. Upto(SubSeq(t, 2 + 1, Len(t)), Paths) = Name
      <3>1. NamedAt(t, 2)
        BY <1>2, <1>5 DEF NamedAt
      <3>2. t[2 + 3] \in Paths
        BY <1>2, <1>5
      <3>3. "na" \notin Paths /\ "me" \notin Paths
        BY DEF Paths
      <3>4. 2 \in Nat /\ 2 + 3 <= Len(t)
        BY <1>5
      <3> QED
        BY <1>4, <3>1, <3>2, <3>3, <3>4, NameCut
    <2> QED
      BY <2>1, <2>2
  <1> QED
    BY <1>2, <1>3, <1>4, <1>5, <1>8, <1>9, <1>10, Zenon DEF t

\* The target of such a request is the authority.
LEMMA AbsoluteParsed ==
    ASSUME NEW S, NEW s \in Seq(S), AbsoluteAt(s)
    PROVE  ParseHttpTarget(s) = Name
  <1>1. Upto(After(Upto(s, {"EOL"}), {"http://"}), {"/", "/CONNECT"}) = Name
    BY AbsoluteLine DEF Paths
  <1>2. Name # <<>>
    BY DEF Name
  <1> QED
    BY <1>1, <1>2 DEF ParseHttpTarget

\* The user id, if any, of a SOCKS4 request ends at place k.
UserIdEnds(s, k) ==
    /\ k \in 4 .. Len(s) /\ s[1] = "04" /\ s[k] = "NUL"
    /\ \A j \in 1 .. k - 1 : s[j] # "NUL"

\* A SOCKS4 user id ends at the first NUL,
LEMMA UserIdCut ==
    ASSUME NEW S, NEW s \in Seq(S), NEW k, UserIdEnds(s, k)
    PROVE  /\ Len(s) \in Nat /\ k \in Nat /\ k \in 1 .. Len(s) /\ Len(s) >= 4 /\ k >= 4
           /\ Has(s, "NUL") /\ After(s, {"NUL"}) = SubSeq(s, k + 1, Len(s))
  <1>1. Len(s) \in Nat
    BY LenProperties
  <1>2. k \in 4 .. Len(s) /\ s[k] = "NUL" /\ \A j \in 1 .. k - 1 : s[j] # "NUL"
    BY Zenon DEF UserIdEnds
  <1>3. k \in Nat /\ k \in 1 .. Len(s) /\ Len(s) >= 4 /\ k >= 4
    <2>1. k \in 4 .. Len(s)
      BY <1>2
    <2> QED
      BY <1>1, <2>1
  <1>4. Has(s, "NUL")
    BY <1>2, <1>3, HasIt
  <1>5. After(s, {"NUL"}) = SubSeq(s, k + 1, Len(s))
    <2>1. s[k] \in {"NUL"} /\ \A j \in 1 .. k - 1 : s[j] \notin {"NUL"}
      BY <1>2
    <2> QED
      BY <1>3, <2>1, CutAt
  <1> QED
    BY <1>1, <1>3, <1>4, <1>5

\* and the name behind it at the second.
LEMMA DomainCut ==
    ASSUME NEW S, NEW s \in Seq(S), NEW k, UserIdEnds(s, k), k + 3 <= Len(s), NamedAt(s, k),
           s[k + 3] = "NUL"
    PROVE  Upto(After(s, {"NUL"}), {"NUL"}) = Name
  <1>1. k \in Nat /\ After(s, {"NUL"}) = SubSeq(s, k + 1, Len(s))
    BY UserIdCut
  <1>2. s[k + 3] \in {"NUL"} /\ "na" \notin {"NUL"} /\ "me" \notin {"NUL"}
    OBVIOUS
  <1>3. Upto(SubSeq(s, k + 1, Len(s)), {"NUL"}) = Name
    BY <1>1, <1>2, NameCut
  <1> QED
    BY <1>1, <1>3

\* A name follows the user id where the form of the request announces one.
DomainAt(s, k) == s[3] # "ip" => k + 3 <= Len(s) /\ NamedAt(s, k) /\ s[k + 3] = "NUL"

\* The target that the chain connector is given,
LEMMA Socks4ChainParsed ==
    ASSUME NEW S, NEW s \in Seq(S), NEW k, UserIdEnds(s, k), DomainAt(s, k)
    PROVE  ParseSocks4Target(s) = IF s[3] = "ip" THEN <<"ip">> ELSE Name
  <1>1. Len(s) \in Nat /\ Len(s) >= 4 /\ Has(s, "NUL")
    BY UserIdCut
  <1>2. ~(Len(s) < 4)
    BY <1>1
  <1>3. s[3] # "ip" => Upto(After(s, {"NUL"}), {"NUL"}) = Name
    BY DomainCut DEF DomainAt
  <1> QED
    BY <1>1, <1>2, <1>3, Zenon DEF ParseSocks4Target

\* and the one that a single upstream is.
LEMMA Socks4Parsed ==
    ASSUME NEW S, NEW s \in Seq(S), NEW k, UserIdEnds(s, k), DomainAt(s, k),
           Socks4Target(s) # NoName
    PROVE  /\ s[3] = "ip" => Socks4Target(s) = <<"ip">>
           /\ s[3] = "0.0.0.1" => Socks4Target(s) = Name
  <1>1. Len(s) \in Nat /\ Len(s) >= 4
    BY UserIdCut
  <1>2. ~(Len(s) < 3)
    BY <1>1
  <1>3. s[2] = "connect"
    BY DEF Socks4Target
  <1>4. s[3] = "0.0.0.1" => Upto(After(s, {"NUL"}), {"NUL"}) = Name
    BY DomainCut DEF DomainAt
  <1>5. Name # <<>>
    BY DEF Name
  <1>6. s[3] = "ip" => Socks4Target(s) = <<"ip">>
    BY <1>2, <1>3, Zenon DEF Socks4Target
  <1>7. s[3] = "0.0.0.1" => Socks4Target(s) = Name
    BY <1>2, <1>3, <1>4, <1>5, Zenon DEF Socks4Target
  <1> QED
    BY <1>6, <1>7

\* The user id is found where it is, and nowhere else.
LEMMA UserIdFound ==
    ASSUME NEW S, NEW s \in Seq(S), Len(s) >= 5, s[1] = "04", s[2] # "id", s[3] # "id",
           s[4] = "id", s[5] = "NUL"
    PROVE  Socks4Userid(s)
  <1> DEFINE t == SubSeq(s, 5, Len(s))
  <1>1. Len(s) \in Nat
    BY LenProperties
  <1>2. 4 \in 1 .. Len(s)
    BY <1>1
  <1>3. s[4] \in {"id"} /\ \A j \in 1 .. 4 - 1 : s[j] \notin {"id"}
    <2>1. \A j \in 1 .. 4 - 1 : j = 1 \/ j = 2 \/ j = 3
      OBVIOUS
    <2> QED
      BY <2>1
  <1>4. After(s, {"id"}) = t
    <2>1. After(s, {"id"}) = SubSeq(s, 4 + 1, Len(s))
      BY <1>2, <1>3, CutAt
    <2> QED
      BY <2>1
  <1>5. t \in Seq(S) /\ Len(t) = Len(s) - 5 + 1
        /\ \A i \in 1 .. Len(s) - 5 + 1 : t[i] = s[5 + i - 1]
    BY <1>1, Piece
  <1> HIDE DEF t
  <1>6. 1 \in 1 .. Len(t) /\ t[1] = "NUL"
    BY <1>1, <1>5
  <1>7. Has(t, "NUL")
    BY <1>5, <1>6, HasIt
  <1>8. Has(s, "id")
    BY <1>2, HasIt
  <1> QED
    BY <1>4, <1>7, <1>8 DEF Socks4Userid

\* A request without a user id has none found in it.
LEMMA NoUserId ==
    ASSUME NEW S, NEW s \in Seq(S), "id" \notin S
    PROVE  ~Socks4Userid(s)
  <1>1. \A j \in 1 .. Len(s) : s[j] \in S
    BY LenProperties
  <1>2. ~Has(s, "id")
    BY <1>1, HasIt
  <1> QED
    BY <1>2 DEF Socks4Userid

-------------------------------------------------------------------------------
(* Requests, as they are spelled *)

\* Two strings in a row, unit by unit.
LEMMA Joined ==
    ASSUME NEW S, NEW u \in Seq(S), NEW v \in Seq(S)
    PROVE  /\ u \o v \in Seq(S) /\ Len(u \o v) = Len(u) + Len(v)
           /\ \A i \in 1 .. Len(u) : (u \o v)[i] = u[i]
           /\ \A i \in 1 .. Len(v) : (u \o v)[Len(u) + i] = v[i]
  <1>1. /\ u \o v \in Seq(S) /\ Len(u \o v) = Len(u) + Len(v)
        /\ \A i \in 1 .. Len(u) + Len(v) :
              (u \o v)[i] = IF i <= Len(u) THEN u[i] ELSE v[i - Len(u)]
    BY ConcatProperties
  <1>2. Len(u) \in Nat /\ Len(v) \in Nat
    BY LenProperties
  <1>3. \A i \in 1 .. Len(u) : (u \o v)[i] = u[i]
    BY <1>1, <1>2
  <1>4. ASSUME NEW i \in 1 .. Len(v) PROVE (u \o v)[Len(u) + i] = v[i]
    <2>1. /\ Len(u) + i \in 1 .. Len(u) + Len(v) /\ ~(Len(u) + i <= Len(u))
          /\ Len(u) + i - Len(u) = i
      BY <1>2
    <2> QED
      BY <1>1, <2>1
  <1> QED
    BY <1>1, <1>3, <1>4

\* How long the credentials in a request are.
Logins(c) == IF c.creds = "none" THEN 0 ELSE 4

\* The requests, unit by unit.
LoginAt(c, w, k) ==
    /\ c.creds # "none" => w[k] = PA /\ w[k + 1] = "user" /\ w[k + 2] = "pass" /\ w[k + 3] = "EOL"
    /\ w[k + Logins(c)] = "EOL"

ConnectUnits(c, w) ==
    /\ w[1] = "CONNECT" /\ w[2] = "na" /\ w[3] = "me" /\ w[4] = "EOL"
    /\ LoginAt(c, w, 5)

ConnectWord(c, w) == Len(w) = 5 + Logins(c) /\ ConnectUnits(c, w)

Origin(c) == IF c.form = "origin" THEN 1 ELSE 4

GetUnits(c, w) ==
    LET o == Origin(c)
    IN  /\ w[1] = "GET"
        /\ c.form # "origin" => w[2] = "http://" /\ w[3] = "na" /\ w[4] = "me"
        /\ w[o + 1] = Path1(c) /\ w[o + 2] = "EOL" /\ w[o + 3] = "Host: "
        /\ w[o + 4] = "na" /\ w[o + 5] = "me" /\ w[o + 6] = "EOL"
        /\ LoginAt(c, w, o + 7)

GetWord(c, w) == Len(w) = Origin(c) + 7 + Logins(c) /\ GetUnits(c, w)

Ended(c) == IF c.creds = "none" THEN 4 ELSE 5

Socks4Units(c, w) ==
    LET k == Ended(c)
    IN  /\ w[1] = "04" /\ w[2] = c.command /\ w[3] = c.form
        /\ c.creds # "none" => w[4] = "id"
        /\ w[k] = "NUL"
        /\ c.form # "ip" => w[k + 1] = "na" /\ w[k + 2] = "me" /\ w[k + 3] = "NUL"

Socks4Word(c, w) ==
    Len(w) = (IF c.form = "ip" THEN Ended(c) ELSE Ended(c) + 3) /\ Socks4Units(c, w)

Alphabet(c) == Letters(c) \cup {PA, "id"}

\* A line's end, credentials, and an empty line behind a string.
LEMMA LoginSpelled ==
    ASSUME NEW c \in Client, NEW b \in Seq(Alphabet(c))
    PROVE  LET w == (b \o Credentials(c)) \o <<"EOL">>
           IN  /\ w \in Seq(Alphabet(c)) /\ Len(w) = Len(b) + 1 + Logins(c)
               /\ \A i \in 1 .. Len(b) : w[i] = b[i]
               /\ LoginAt(c, w, Len(b) + 1)
  <1> DEFINE S == Alphabet(c)
             r == Credentials(c)
             e == <<"EOL">>
             d == b \o r
             w == d \o e
  <1>1. "EOL" \in S /\ PA \in S /\ "user" \in S /\ "pass" \in S
    BY DEF Alphabet, Letters
  <1>2. e \in Seq(S) /\ Len(e) = 1 /\ e[1] = "EOL"
    BY <1>1
  <1>3. /\ r \in Seq(S) /\ Len(r) = Logins(c)
        /\ c.creds # "none" => r[1] = PA /\ r[2] = "user" /\ r[3] = "pass" /\ r[4] = "EOL"
    <2>1. CASE c.creds = "none"
      <3>1. r = <<>> /\ Logins(c) = 0
        BY <2>1 DEF Credentials, Logins
      <3> HIDE DEF r
      <3> QED
        BY <2>1, <3>1
    <2>2. CASE c.creds # "none"
      <3>1. r = <<PA, "user", "pass", "EOL">> /\ Logins(c) = 4
        BY <2>2 DEF Credentials, Logins, PA
      <3> HIDE DEF r
      <3> QED
        BY <1>1, <3>1
    <2> QED
      BY <2>1, <2>2
  <1>4. Len(b) \in Nat /\ b \in Seq(S)
    BY LenProperties
  <1>5. Logins(c) \in Nat /\ (c.creds # "none" => Logins(c) = 4)
    BY DEF Logins
  <1> HIDE DEF S, r, e
  <1>6. /\ d \in Seq(S) /\ Len(d) = Len(b) + Len(r)
        /\ \A i \in 1 .. Len(b) : d[i] = b[i]
        /\ \A i \in 1 .. Len(r) : d[Len(b) + i] = r[i]
    <2>1. r \in Seq(S)
      BY <1>3
    <2>2. b \in Seq(S)
      BY <1>4
    <2> QED
      BY <2>1, <2>2, Joined
  <1> HIDE DEF d
  <1>7. /\ w \in Seq(S) /\ Len(w) = Len(d) + Len(e)
        /\ \A i \in 1 .. Len(d) : w[i] = d[i]
        /\ \A i \in 1 .. Len(e) : w[Len(d) + i] = e[i]
    <2>1. e \in Seq(S)
      BY <1>2
    <2>2. d \in Seq(S)
      BY <1>6
    <2> QED
      BY <2>1, <2>2, Joined
  <1> HIDE DEF w
  <1>8. Len(d) = Len(b) + Logins(c) /\ Len(w) = Len(b) + 1 + Logins(c)
    BY <1>2, <1>3, <1>4, <1>5, <1>6, <1>7
  <1>9. \A i \in 1 .. Len(b) : w[i] = b[i]
    BY <1>4, <1>5, <1>6, <1>7, <1>8
  <1>10. w[Len(b) + 1 + Logins(c)] = "EOL"
    <2>1. w[Len(d) + 1] = e[1]
      BY <1>2, <1>7
    <2>2. Len(d) + 1 = Len(b) + 1 + Logins(c)
      BY <1>4, <1>5, <1>8
    <2> QED
      BY <1>2, <2>1, <2>2
  <1>11. ASSUME c.creds # "none", NEW i \in 1 .. 4 PROVE w[Len(b) + i] = r[i]
    <2>1. i \in 1 .. Len(r) /\ Len(b) + i \in 1 .. Len(d)
      BY <1>3, <1>4, <1>5, <1>8, <1>11
    <2> QED
      BY <1>6, <1>7, <2>1
  <1>12. c.creds # "none" => /\ w[Len(b) + 1] = PA /\ w[Len(b) + 2] = "user"
                             /\ w[Len(b) + 3] = "pass" /\ w[Len(b) + 4] = "EOL"
    BY <1>3, <1>11
  <1>13. Len(b) + 1 + 1 = Len(b) + 2 /\ Len(b) + 1 + 2 = Len(b) + 3 /\ Len(b) + 1 + 3 = Len(b) + 4
    BY <1>4
  <1> QED
    BY <1>7, <1>8, <1>9, <1>10, <1>12, <1>13, Zenon DEF LoginAt, S, r, e, d, w

\* A CONNECT request, unit by unit.
LEMMA ConnectSpelled ==
    ASSUME NEW c \in Client, NEW auth, c.proto = "https"
    PROVE  /\ Handshake(c, auth)[1] \in Seq(Alphabet(c))
           /\ ConnectWord(c, Handshake(c, auth)[1])
  <1> DEFINE S == Alphabet(c)
             a == <<"CONNECT">>
             e == <<"EOL">>
             p == a \o Name
             b == p \o e
             w == (b \o Credentials(c)) \o e
  <1>1. Handshake(c, auth)[1] = w
    BY DEF Handshake
  <1>2. "CONNECT" \in S /\ "EOL" \in S /\ "na" \in S /\ "me" \in S
    BY DEF Alphabet, Letters
  <1>3. /\ a \in Seq(S) /\ Len(a) = 1 /\ a[1] = "CONNECT"
        /\ e \in Seq(S) /\ Len(e) = 1 /\ e[1] = "EOL"
        /\ Name \in Seq(S) /\ Len(Name) = 2 /\ Name[1] = "na" /\ Name[2] = "me"
    BY <1>2 DEF Name
  <1> HIDE DEF S, a
  <1>4. /\ p \in Seq(S) /\ Len(p) = Len(a) + Len(Name)
        /\ \A i \in 1 .. Len(a) : p[i] = a[i]
        /\ \A i \in 1 .. Len(Name) : p[Len(a) + i] = Name[i]
    <2>1. a \in Seq(S) /\ Name \in Seq(S)
      BY <1>3
    <2> QED
      BY <2>1, Joined
  <1> HIDE DEF p
  <1>5. Len(p) = 3 /\ p[1] = "CONNECT" /\ p[2] = "na" /\ p[3] = "me"
    BY <1>3, <1>4
  <1>6. /\ b \in Seq(S) /\ Len(b) = Len(p) + Len(e)
        /\ \A i \in 1 .. Len(p) : b[i] = p[i]
        /\ \A i \in 1 .. Len(e) : b[Len(p) + i] = e[i]
    <2>1. e \in Seq(S)
      BY <1>3
    <2>2. p \in Seq(S)
      BY <1>4
    <2> HIDE DEF e
    <2> QED
      BY <2>1, <2>2, Joined
  <1> HIDE DEF b
  <1>7. Len(b) = 4 /\ b[1] = "CONNECT" /\ b[2] = "na" /\ b[3] = "me" /\ b[4] = "EOL"
    BY <1>3, <1>5, <1>6
  <1>8. /\ w \in Seq(S) /\ Len(w) = Len(b) + 1 + Logins(c)
        /\ \A i \in 1 .. Len(b) : w[i] = b[i]
        /\ LoginAt(c, w, Len(b) + 1)
    BY <1>6, LoginSpelled DEF S
  <1> HIDE DEF w
  <1>9. Logins(c) \in Nat
    BY DEF Logins
  <1>10. Len(w) = 5 + Logins(c) /\ w[1] = "CONNECT" /\ w[2] = "na" /\ w[3] = "me" /\ w[4] = "EOL"
    BY <1>7, <1>8, <1>9
  <1>11. LoginAt(c, w, 5)
    <2>1. Len(b) + 1 = 5
      BY <1>7
    <2> QED
      BY <1>8, <2>1
  <1> QED
    BY <1>1, <1>8, <1>10, <1>11, Zenon DEF ConnectWord, ConnectUnits, S

\* A plain request, unit by unit.
LEMMA GetSpelled ==
    ASSUME NEW c \in Client, NEW auth, c.proto = "http"
    PROVE  /\ Handshake(c, auth)[1] \in Seq(Alphabet(c))
           /\ GetWord(c, Handshake(c, auth)[1])
  <1> DEFINE S == Alphabet(c)
             o == Origin(c)
             a == <<"GET">>
             h == <<"http://">>
             m == h \o Name
             n == IF c.form = "origin" THEN <<>> ELSE m
             l == <<Path1(c), "EOL", "Host: ">>
             e == <<"EOL">>
             p == a \o n
             q == p \o l
             r == q \o Name
             b == r \o e
             w == (b \o Credentials(c)) \o e
  <1>1. Handshake(c, auth)[1] = w
    BY DEF Handshake
  <1>2. /\ "GET" \in S /\ "http://" \in S /\ "EOL" \in S /\ "Host: " \in S
        /\ "na" \in S /\ "me" \in S /\ Path1(c) \in S
    BY DEF Alphabet, Letters
  <1>30. \A x \in S : <<x>> \in Seq(S) /\ Len(<<x>>) = 1 /\ <<x>>[1] = x
    <2> HIDE DEF S
    <2> QED
      OBVIOUS
  <1>31. a \in Seq(S) /\ Len(a) = 1 /\ a[1] = "GET"
    BY <1>2, <1>30, Zenon
  <1>32. h \in Seq(S) /\ Len(h) = 1 /\ h[1] = "http://"
    BY <1>2, <1>30, Zenon
  <1>33. e \in Seq(S) /\ Len(e) = 1 /\ e[1] = "EOL"
    BY <1>2, <1>30, Zenon
  <1>34. l \in Seq(S) /\ Len(l) = 3 /\ l[1] = Path1(c) /\ l[2] = "EOL" /\ l[3] = "Host: "
    <2>1. \A x, y, z \in S : /\ <<x, y, z>> \in Seq(S) /\ Len(<<x, y, z>>) = 3
                             /\ <<x, y, z>>[1] = x /\ <<x, y, z>>[2] = y /\ <<x, y, z>>[3] = z
      <3> HIDE DEF S
      <3> QED
        OBVIOUS
    <2> QED
      BY <1>2, <2>1, Zenon
  <1>35. Name \in Seq(S) /\ Len(Name) = 2 /\ Name[1] = "na" /\ Name[2] = "me"
    <2>1. \A x, y \in S : /\ <<x, y>> \in Seq(S) /\ Len(<<x, y>>) = 2
                          /\ <<x, y>>[1] = x /\ <<x, y>>[2] = y
      <3> HIDE DEF S
      <3> QED
        OBVIOUS
    <2> QED
      BY <1>2, <2>1, Zenon DEF Name
  <1>4. a \in Seq(S) /\ h \in Seq(S) /\ e \in Seq(S) /\ l \in Seq(S) /\ Name \in Seq(S)
    BY <1>31, <1>32, <1>33, <1>34, <1>35, Zenon
  <1>5. o \in {1, 4} /\ (c.form = "origin" => o = 1) /\ (c.form # "origin" => o = 4)
    BY DEF Origin
  <1> HIDE DEF S, a, h, e, l, o
  <1>6. /\ m \in Seq(S) /\ Len(m) = Len(h) + Len(Name)
        /\ \A i \in 1 .. Len(h) : m[i] = h[i]
        /\ \A i \in 1 .. Len(Name) : m[Len(h) + i] = Name[i]
    BY <1>4, Joined
  <1> HIDE DEF m
  <1>7. Len(m) = 3 /\ m[1] = "http://" /\ m[2] = "na" /\ m[3] = "me"
    <2>1. Len(h) = 1 /\ Len(Name) = 2
      BY <1>32, <1>35
    <2>2. Len(m) = 3 /\ m[1] = h[1] /\ m[2] = Name[1] /\ m[3] = Name[2]
      BY <1>6, <2>1
    <2> QED
      BY <1>32, <1>35, <2>2, Zenon
  <1>8. n \in Seq(S) /\ Len(n) = o - 1
    <2>1. CASE c.form = "origin"
      <3>1. n = <<>> /\ o = 1
        BY <1>5, <2>1
      <3> HIDE DEF n
      <3> QED
        BY <3>1
    <2>2. CASE c.form # "origin"
      <3>1. m \in Seq(S) /\ Len(m) = 3
        BY <1>6, <1>7
      <3>2. n = m /\ o = 4
        BY <1>5, <2>2
      <3> HIDE DEF n
      <3> QED
        BY <3>1, <3>2
    <2> QED
      BY <2>1, <2>2
  <1>9. c.form # "origin" => n[1] = "http://" /\ n[2] = "na" /\ n[3] = "me"
    <2>1. c.form # "origin" => n = m
      OBVIOUS
    <2> HIDE DEF n
    <2> QED
      BY <1>7, <2>1, Zenon
  <1> HIDE DEF n
  <1>10. /\ p \in Seq(S) /\ Len(p) = Len(a) + Len(n)
         /\ \A i \in 1 .. Len(a) : p[i] = a[i]
         /\ \A i \in 1 .. Len(n) : p[Len(a) + i] = n[i]
    <2>1. n \in Seq(S)
      BY <1>8
    <2> QED
      BY <1>4, <2>1, Joined
  <1> HIDE DEF p
  <1>11. /\ p \in Seq(S) /\ Len(p) = o /\ p[1] = "GET"
         /\ c.form # "origin" => p[2] = "http://" /\ p[3] = "na" /\ p[4] = "me"
    <2>1. Len(a) = 1 /\ Len(n) = o - 1 /\ o \in {1, 4}
      BY <1>5, <1>8, <1>31
    <2>3. Len(p) = o /\ p[1] = a[1]
      BY <1>10, <2>1
    <2>4. p \in Seq(S) /\ p[1] = "GET"
      BY <1>10, <1>31, <2>3, Zenon
    <2>2. ASSUME c.form # "origin" PROVE p[2] = "http://" /\ p[3] = "na" /\ p[4] = "me"
      <3>1. Len(n) = 3 /\ Len(a) = 1
        BY <1>5, <2>1, <2>2
      <3>2. p[2] = n[1] /\ p[3] = n[2] /\ p[4] = n[3]
        BY <1>10, <3>1
      <3> QED
        BY <1>9, <2>2, <3>2, Zenon
    <2> QED
      BY <2>2, <2>3, <2>4, Zenon
  <1>12. /\ q \in Seq(S) /\ Len(q) = Len(p) + Len(l)
         /\ \A i \in 1 .. Len(p) : q[i] = p[i]
         /\ \A i \in 1 .. Len(l) : q[Len(p) + i] = l[i]
    <2>1. p \in Seq(S)
      BY <1>11
    <2> QED
      BY <1>4, <2>1, Joined
  <1> HIDE DEF q
  <1>13. /\ Len(q) = o + 3 /\ \A i \in 1 .. o : q[i] = p[i]
         /\ q[o + 1] = Path1(c) /\ q[o + 2] = "EOL" /\ q[o + 3] = "Host: "
    <2>1. Len(l) = 3 /\ Len(p) = o /\ o \in {1, 4}
      BY <1>5, <1>11, <1>34
    <2>2. Len(q) = o + 3 /\ q[o + 1] = l[1] /\ q[o + 2] = l[2] /\ q[o + 3] = l[3]
      BY <1>12, <2>1
    <2>3. \A i \in 1 .. o : q[i] = p[i]
      BY <1>12, <2>1
    <2> QED
      BY <1>34, <2>2, <2>3, Zenon
  <1>14. /\ r \in Seq(S) /\ Len(r) = Len(q) + Len(Name)
         /\ \A i \in 1 .. Len(q) : r[i] = q[i]
         /\ \A i \in 1 .. Len(Name) : r[Len(q) + i] = Name[i]
    <2>1. q \in Seq(S)
      BY <1>12
    <2> QED
      BY <1>4, <2>1, Joined
  <1> HIDE DEF r
  <1>15. /\ Len(r) = o + 5 /\ \A i \in 1 .. o + 3 : r[i] = q[i]
         /\ r[o + 4] = "na" /\ r[o + 5] = "me"
    <2>1. Len(Name) = 2 /\ Len(q) = o + 3 /\ o \in {1, 4}
      BY <1>5, <1>13, <1>35
    <2>2. Len(r) = o + 5 /\ r[o + 4] = Name[1] /\ r[o + 5] = Name[2]
      BY <1>14, <2>1
    <2>3. \A i \in 1 .. o + 3 : r[i] = q[i]
      BY <1>14, <2>1
    <2> QED
      BY <1>35, <2>2, <2>3, Zenon
  <1>16. /\ b \in Seq(S) /\ Len(b) = Len(r) + Len(e)
         /\ \A i \in 1 .. Len(r) : b[i] = r[i]
         /\ \A i \in 1 .. Len(e) : b[Len(r) + i] = e[i]
    <2>1. r \in Seq(S)
      BY <1>14
    <2> QED
      BY <1>4, <2>1, Joined
  <1> HIDE DEF b
  <1>17. /\ Len(b) = o + 6 /\ \A i \in 1 .. o + 5 : b[i] = r[i]
         /\ b[o + 6] = "EOL"
    <2>1. Len(e) = 1 /\ Len(r) = o + 5 /\ o \in {1, 4}
      BY <1>5, <1>15, <1>33
    <2>2. Len(b) = o + 6 /\ b[o + 6] = e[1]
      BY <1>16, <2>1
    <2>3. \A i \in 1 .. o + 5 : b[i] = r[i]
      BY <1>16, <2>1
    <2> QED
      BY <1>33, <2>2, <2>3, Zenon
  <1>18. /\ w \in Seq(S) /\ Len(w) = Len(b) + 1 + Logins(c)
         /\ \A i \in 1 .. Len(b) : w[i] = b[i]
         /\ LoginAt(c, w, Len(b) + 1)
    BY <1>16, LoginSpelled DEF S, e
  <1> HIDE DEF w
  <1>19. Logins(c) \in Nat
    BY DEF Logins
  <1>20. Len(w) = o + 7 + Logins(c)
    <2>1. Len(b) = o + 6 /\ Len(w) = Len(b) + 1 + Logins(c) /\ o \in {1, 4}
      BY <1>5, <1>17, <1>18
    <2> QED
      BY <1>19, <2>1
  <1>21. o \in {1, 4}
    BY <1>5
  <1>22. /\ \A i \in 1 .. o + 6 : w[i] = b[i]
         /\ \A i \in 1 .. o + 5 : w[i] = r[i]
         /\ \A i \in 1 .. o + 3 : w[i] = q[i]
         /\ \A i \in 1 .. o : w[i] = p[i]
    <2>1. Len(b) = o + 6 /\ \A i \in 1 .. Len(b) : w[i] = b[i]
      BY <1>17, <1>18
    <2>2. \A i \in 1 .. o + 6 : w[i] = b[i]
      BY <2>1
    <2>3. \A i \in 1 .. o + 5 : b[i] = r[i]
      BY <1>17
    <2>4. \A i \in 1 .. o + 5 : w[i] = r[i]
      BY <1>21, <2>2, <2>3
    <2>5. \A i \in 1 .. o + 3 : r[i] = q[i]
      BY <1>15
    <2>6. \A i \in 1 .. o + 3 : w[i] = q[i]
      BY <1>21, <2>4, <2>5
    <2>7. \A i \in 1 .. o : q[i] = p[i]
      BY <1>13
    <2>8. \A i \in 1 .. o : w[i] = p[i]
      BY <1>21, <2>6, <2>7
    <2> QED
      BY <2>2, <2>4, <2>6, <2>8
  <1>23. /\ w[o + 1] = Path1(c) /\ w[o + 2] = "EOL" /\ w[o + 3] = "Host: "
         /\ w[o + 4] = "na" /\ w[o + 5] = "me" /\ w[o + 6] = "EOL"
    <2>1. /\ w[o + 1] = q[o + 1] /\ w[o + 2] = q[o + 2] /\ w[o + 3] = q[o + 3]
          /\ w[o + 4] = r[o + 4] /\ w[o + 5] = r[o + 5] /\ w[o + 6] = b[o + 6]
      BY <1>21, <1>22
    <2> QED
      BY <1>13, <1>15, <1>17, <2>1, Zenon
  <1>24. w[1] = "GET" /\ (c.form # "origin" => w[2] = "http://" /\ w[3] = "na" /\ w[4] = "me")
    <2>1. w[1] = p[1]
      BY <1>21, <1>22
    <2>2. c.form # "origin" => w[2] = p[2] /\ w[3] = p[3] /\ w[4] = p[4]
      BY <1>5, <1>22
    <2> QED
      BY <1>11, <2>1, <2>2, Zenon
  <1>25. LoginAt(c, w, o + 7)
    <2>1. Len(b) + 1 = o + 7
      BY <1>17, <1>21
    <2> QED
      BY <1>18, <2>1
  <1>26. GetWord(c, w)
    BY <1>20, <1>23, <1>24, <1>25, Zenon DEF GetWord, GetUnits, o
  <1> QED
    BY <1>1, <1>18, <1>26, Zenon DEF S

\* A SOCKS4 request, unit by unit.
LEMMA Socks4Spelled ==
    ASSUME NEW c \in Client, NEW auth, c.proto = "socks4"
    PROVE  /\ Handshake(c, auth)[1] \in Seq(Alphabet(c))
           /\ Socks4Word(c, Handshake(c, auth)[1])
  <1> DEFINE S == Alphabet(c)
             k == Ended(c)
             a == <<"04", c.command, c.form>>
             u == UserId(c)
             z == <<"NUL">>
             m == Name \o z
             n == IF c.form = "ip" THEN <<>> ELSE m
             p == a \o u
             q == p \o z
             w == q \o n
  <1>1. Handshake(c, auth)[1] = w
    BY DEF Handshake
  <1>2. /\ "04" \in S /\ c.command \in S /\ c.form \in S /\ "NUL" \in S /\ "id" \in S
        /\ "na" \in S /\ "me" \in S
    BY DEF Alphabet, Letters
  <1>3. /\ a \in Seq(S) /\ Len(a) = 3 /\ a[1] = "04" /\ a[2] = c.command /\ a[3] = c.form
        /\ z \in Seq(S) /\ Len(z) = 1 /\ z[1] = "NUL"
        /\ Name \in Seq(S) /\ Len(Name) = 2 /\ Name[1] = "na" /\ Name[2] = "me"
    BY <1>2 DEF Name
  <1>4. a \in Seq(S) /\ z \in Seq(S) /\ Name \in Seq(S)
    BY <1>3
  <1>5. /\ u \in Seq(S) /\ Len(u) = k - 4 /\ k \in {4, 5}
        /\ c.creds # "none" => u[1] = "id" /\ k = 5
    <2>1. CASE c.creds = "none"
      <3>1. u = <<>> /\ k = 4
        BY <2>1 DEF UserId, Ended
      <3> HIDE DEF u, k
      <3> QED
        BY <2>1, <3>1
    <2>2. CASE c.creds # "none"
      <3>1. u = <<"id">> /\ k = 5
        BY <2>2 DEF UserId, Ended
      <3> HIDE DEF u, k
      <3> QED
        BY <1>2, <3>1
    <2> QED
      BY <2>1, <2>2
  <1> HIDE DEF S, a, u, z, k
  <1>6. /\ m \in Seq(S) /\ Len(m) = Len(Name) + Len(z)
        /\ \A i \in 1 .. Len(Name) : m[i] = Name[i]
        /\ \A i \in 1 .. Len(z) : m[Len(Name) + i] = z[i]
    BY <1>4, Joined
  <1> HIDE DEF m
  <1>7. Len(m) = 3 /\ m[1] = "na" /\ m[2] = "me" /\ m[3] = "NUL"
    BY <1>3, <1>6
  <1>8. /\ n \in Seq(S) /\ Len(n) = IF c.form = "ip" THEN 0 ELSE 3
        /\ c.form # "ip" => n[1] = "na" /\ n[2] = "me" /\ n[3] = "NUL"
    <2>1. CASE c.form = "ip"
      BY <2>1
    <2>2. CASE c.form # "ip"
      BY <1>6, <1>7, <2>2
    <2> QED
      BY <2>1, <2>2
  <1> HIDE DEF n
  <1>10. /\ p \in Seq(S) /\ Len(p) = Len(a) + Len(u)
         /\ \A i \in 1 .. Len(a) : p[i] = a[i]
         /\ \A i \in 1 .. Len(u) : p[Len(a) + i] = u[i]
    <2>1. u \in Seq(S)
      BY <1>5
    <2> QED
      BY <1>4, <2>1, Joined
  <1> HIDE DEF p
  <1>11. /\ p \in Seq(S) /\ Len(p) = k - 1
         /\ p[1] = "04" /\ p[2] = c.command /\ p[3] = c.form
         /\ c.creds # "none" => p[4] = "id"
    <2>1. Len(p) = k - 1 /\ p[1] = "04" /\ p[2] = c.command /\ p[3] = c.form
      BY <1>3, <1>5, <1>10
    <2>2. ASSUME c.creds # "none" PROVE p[4] = "id"
      <3>1. Len(u) = 1 /\ Len(a) = 3 /\ u[1] = "id"
        BY <1>3, <1>5, <2>2
      <3> QED
        BY <1>10, <3>1
    <2> QED
      BY <1>10, <2>1, <2>2
  <1>12. /\ q \in Seq(S) /\ Len(q) = Len(p) + Len(z)
         /\ \A i \in 1 .. Len(p) : q[i] = p[i]
         /\ \A i \in 1 .. Len(z) : q[Len(p) + i] = z[i]
    <2>1. p \in Seq(S)
      BY <1>11
    <2> QED
      BY <1>4, <2>1, Joined
  <1> HIDE DEF q
  <1>13. Len(q) = k /\ q[k] = "NUL" /\ \A i \in 1 .. k - 1 : q[i] = p[i]
    <2>1. q[Len(p) + 1] = z[1]
      BY <1>3, <1>12
    <2>2. Len(p) + 1 = k /\ Len(q) = k
      BY <1>3, <1>5, <1>11, <1>12
    <2> QED
      BY <1>3, <1>11, <1>12, <2>1, <2>2
  <1>14. /\ w \in Seq(S) /\ Len(w) = Len(q) + Len(n)
         /\ \A i \in 1 .. Len(q) : w[i] = q[i]
         /\ \A i \in 1 .. Len(n) : w[Len(q) + i] = n[i]
    <2>1. q \in Seq(S)
      BY <1>12
    <2>2. n \in Seq(S)
      BY <1>8
    <2> QED
      BY <2>1, <2>2, Joined
  <1> HIDE DEF w
  <1>15. Len(w) = IF c.form = "ip" THEN k ELSE k + 3
    BY <1>5, <1>8, <1>13, <1>14
  <1>16. w[k] = "NUL" /\ \A i \in 1 .. k - 1 : w[i] = p[i]
    BY <1>5, <1>13, <1>14
  <1>17. w[1] = p[1] /\ w[2] = p[2] /\ w[3] = p[3] /\ (c.creds # "none" => w[4] = p[4])
    <2>1. 1 \in 1 .. k - 1 /\ 2 \in 1 .. k - 1 /\ 3 \in 1 .. k - 1
          /\ (c.creds # "none" => 4 \in 1 .. k - 1)
      BY <1>5
    <2> QED
      BY <1>16, <2>1
  <1>18. c.form # "ip" => w[k + 1] = "na" /\ w[k + 2] = "me" /\ w[k + 3] = "NUL"
    <2> SUFFICES ASSUME c.form # "ip"
                 PROVE  w[k + 1] = "na" /\ w[k + 2] = "me" /\ w[k + 3] = "NUL"
      OBVIOUS
    <2>1. Len(n) = 3 /\ n[1] = "na" /\ n[2] = "me" /\ n[3] = "NUL" /\ Len(q) = k
      BY <1>8, <1>13
    <2> QED
      BY <1>14, <2>1
  <1>19. Socks4Word(c, w)
    BY <1>11, <1>15, <1>16, <1>17, <1>18, Zenon DEF Socks4Word, Socks4Units, k
  <1> QED
    BY <1>1, <1>14, <1>19, Zenon DEF S

-------------------------------------------------------------------------------
(* Requests, as they are read *)

\* What begins with a request has its units.
Agree(w, s) == Len(w) <= Len(s) /\ \A i \in 1 .. Len(w) : s[i] = w[i]

LEMMA Starts ==
    ASSUME NEW S, NEW w \in Seq(S), NEW T, NEW s \in Seq(T), IsPrefix(w, s)
    PROVE  Agree(w, s)
  <1>1. Len(w) \in Nat /\ Len(s) \in Nat /\ Len(w) <= Len(s)
    BY LenProperties DEF IsPrefix
  <1> DEFINE t == SubSeq(s, 1, Len(w))
             u == SubSeq(w, 1, Len(w))
  <1>2. t = u
    BY DEF IsPrefix
  <1>3. \A i \in 1 .. Len(w) - 1 + 1 : t[i] = s[1 + i - 1]
    BY <1>1, Piece
  <1>4. \A i \in 1 .. Len(w) - 1 + 1 : u[i] = w[1 + i - 1]
    BY <1>1, Piece
  <1> HIDE DEF t, u
  <1>5. \A i \in 1 .. Len(w) : s[i] = w[i]
    <2> SUFFICES ASSUME NEW i \in 1 .. Len(w) PROVE s[i] = w[i]
      OBVIOUS
    <2>1. i \in 1 .. Len(w) - 1 + 1 /\ 1 + i - 1 = i
      BY <1>1
    <2> QED
      BY <1>2, <1>3, <1>4, <2>1
  <1> QED
    BY <1>1, <1>5 DEF Agree

\* What holds of the units of a request holds of all that begins with it: its login,
LEMMA LoginAgrees ==
    ASSUME NEW c, NEW w, NEW s, NEW k \in Nat, k >= 1, LoginAt(c, w, k),
           Len(w) = k + Logins(c), Agree(w, s)
    PROVE  LoginAt(c, s, k) /\ Len(s) >= k + Logins(c)
  <1>1. Logins(c) \in Nat /\ (c.creds # "none" => Logins(c) = 4)
    BY DEF Logins
  <1>2. Len(w) <= Len(s) /\ \A i \in 1 .. k + Logins(c) : s[i] = w[i]
    BY Zenon DEF Agree
  <1>3. s[k + Logins(c)] = w[k + Logins(c)]
    BY <1>1, <1>2
  <1>4. c.creds # "none" => s[k] = w[k] /\ s[k + 1] = w[k + 1] /\ s[k + 2] = w[k + 2] /\ s[k + 3] = w[k + 3]
    BY <1>1, <1>2
  <1>5. LoginAt(c, s, k)
    BY <1>3, <1>4, Zenon DEF LoginAt
  <1> QED
    BY <1>2, <1>5

\* a CONNECT request,
LEMMA ConnectAgrees ==
    ASSUME NEW c, NEW w, NEW s, ConnectWord(c, w), Agree(w, s)
    PROVE  ConnectUnits(c, s) /\ Len(s) >= 5 + Logins(c)
  <1>1. Logins(c) \in Nat
    BY DEF Logins
  <1>2. Len(w) = 5 + Logins(c) /\ ConnectUnits(c, w)
    BY Zenon DEF ConnectWord
  <1>3. \A i \in 1 .. 5 + Logins(c) : s[i] = w[i]
    BY <1>2, Zenon DEF Agree
  <1>4. s[1] = w[1] /\ s[2] = w[2] /\ s[3] = w[3] /\ s[4] = w[4]
    BY <1>1, <1>3
  <1>5. LoginAt(c, w, 5)
    BY <1>2, Zenon DEF ConnectUnits
  <1>6. LoginAt(c, s, 5) /\ Len(s) >= 5 + Logins(c)
    BY <1>2, <1>5, LoginAgrees
  <1> QED
    BY <1>2, <1>4, <1>6, Zenon DEF ConnectUnits

\* a plain one,
LEMMA GetAgrees ==
    ASSUME NEW c, NEW w, NEW s, GetWord(c, w), Agree(w, s)
    PROVE  GetUnits(c, s) /\ Len(s) >= Origin(c) + 7 + Logins(c)
  <1> DEFINE o == Origin(c)
  <1>1. Logins(c) \in Nat
    BY DEF Logins
  <1>0. o \in {1, 4} /\ (c.form # "origin" => o = 4)
    BY DEF Origin
  <1>2. Len(w) = o + 7 + Logins(c) /\ GetUnits(c, w)
    BY Zenon DEF GetWord
  <1>3. \A i \in 1 .. o + 7 + Logins(c) : s[i] = w[i]
    BY <1>2, Zenon DEF Agree
  <1>5. LoginAt(c, w, o + 7)
    BY <1>2, Zenon DEF GetUnits
  <1> HIDE DEF o
  <1>4. /\ s[1] = w[1]
        /\ s[o + 1] = w[o + 1] /\ s[o + 2] = w[o + 2] /\ s[o + 3] = w[o + 3]
        /\ s[o + 4] = w[o + 4] /\ s[o + 5] = w[o + 5] /\ s[o + 6] = w[o + 6]
        /\ c.form # "origin" => s[2] = w[2] /\ s[3] = w[3] /\ s[4] = w[4]
    BY <1>0, <1>1, <1>3
  <1>6. LoginAt(c, s, o + 7) /\ Len(s) >= o + 7 + Logins(c)
    <2>1. o + 7 \in Nat /\ o + 7 >= 1
      BY <1>0
    <2> QED
      BY <1>2, <1>5, <2>1, LoginAgrees
  <1> QED
    BY <1>2, <1>4, <1>6, Zenon DEF GetUnits, o

\* and one of SOCKS4.
LEMMA Socks4Agrees ==
    ASSUME NEW c, NEW w, NEW s, Socks4Word(c, w), Agree(w, s)
    PROVE  /\ Socks4Units(c, s)
           /\ Len(s) >= IF c.form = "ip" THEN Ended(c) ELSE Ended(c) + 3
  <1> DEFINE k == Ended(c)
  <1>1. k \in {4, 5} /\ (c.creds # "none" => k = 5)
    BY DEF Ended
  <1>2. Len(w) = (IF c.form = "ip" THEN k ELSE k + 3) /\ Socks4Units(c, w)
    BY Zenon DEF Socks4Word
  <1>3. Len(w) <= Len(s) /\ \A i \in 1 .. Len(w) : s[i] = w[i]
    BY Zenon DEF Agree
  <1> HIDE DEF k
  <1>4. Len(w) = (IF c.form = "ip" THEN k ELSE k + 3)
    BY <1>2
  <1>5. /\ s[1] = w[1] /\ s[2] = w[2] /\ s[3] = w[3] /\ s[4] = w[4] /\ s[k] = w[k]
        /\ c.form # "ip" => s[k + 1] = w[k + 1] /\ s[k + 2] = w[k + 2] /\ s[k + 3] = w[k + 3]
    BY <1>1, <1>3, <1>4
  <1>6. Socks4Units(c, s)
    BY <1>2, <1>5, Zenon DEF Socks4Units, k
  <1> QED
    BY <1>3, <1>4, <1>6 DEF k

\* Whether a request of client c carries a user name and a password.
BasicOf(c, s) ==
    IF c.creds = "none" THEN ~Has(s, PA) /\ ~Has(BasicHeader(s), "user")
    ELSE Has(s, PA) /\ Has(BasicHeader(s), "user") /\ Has(BasicHeader(s), "pass")

\* None of the first units of s is x.
Without(s, n, x) == \A j \in 1 .. n : s[j] # x

\* What is read out of a login.
LEMMA CredentialsRead ==
    ASSUME NEW c \in Client, c.proto \in {"http", "https"}, NEW s \in Seq(Letters(c)),
           NEW k \in Nat, k >= 1,
           LoginAt(c, s, k), Len(s) >= k + Logins(c), Without(s, k - 1, PA)
    PROVE  BasicOf(c, s)
  <1>1. CASE c.creds = "none"
    <2>1. PA \notin Letters(c)
      BY <1>1, ClientType DEF Letters, Announced, Path1, PA
    <2>2. ~Has(s, PA) /\ ~Has(BasicHeader(s), "user")
      BY <2>1, NoBasic
    <2> QED
      BY <1>1, <2>2 DEF BasicOf
  <1>2. CASE c.creds # "none"
    <2>1. s[k] = PA /\ s[k + 1] = "user" /\ s[k + 2] = "pass" /\ s[k + 3] = "EOL"
      BY <1>2, Zenon DEF LoginAt
    <2>2. k \in 1 .. Len(s) /\ k + 3 <= Len(s)
      <3>1. Logins(c) = 4 /\ Len(s) \in Nat
        BY <1>2, LenProperties DEF Logins
      <3> QED
        BY <3>1
    <2>3. \A j \in 1 .. k - 1 : s[j] # PA
      BY Zenon DEF Without
    <2>4. CredentialsAt(s, k)
      BY <2>1, <2>2, <2>3, Zenon DEF CredentialsAt
    <2>5. Has(s, PA) /\ Has(BasicHeader(s), "user") /\ Has(BasicHeader(s), "pass")
      BY <2>4, BasicFound
    <2> QED
      BY <1>2, <2>5, Zenon DEF BasicOf
  <1> QED
    BY <1>1, <1>2

\* What a CONNECT request that came whole is read as,
LEMMA ConnectServed ==
    ASSUME NEW c \in Client, c.proto = "https", NEW s \in Seq(Letters(c)),
           ConnectUnits(c, s), Len(s) >= 5 + Logins(c)
    PROVE  ParseConnectTarget(s) = Name /\ BasicOf(c, s)
  <1>1. Logins(c) \in Nat /\ Len(s) \in Nat
    BY LenProperties DEF Logins
  <1>2. s[1] = "CONNECT" /\ s[2] = "na" /\ s[3] = "me" /\ s[4] = "EOL"
    BY Zenon DEF ConnectUnits
  <1>3. NamedAt(s, 1) /\ Len(s) >= 4
    BY <1>1, <1>2 DEF NamedAt
  <1>4. ParseConnectTarget(s) = Name
    BY <1>2, <1>3, ConnectParsed
  <1>5. Without(s, 5 - 1, PA)
    <2>1. \A j \in 1 .. 5 - 1 : j = 1 \/ j = 2 \/ j = 3 \/ j = 4
      OBVIOUS
    <2>2. "CONNECT" # PA /\ "na" # PA /\ "me" # PA /\ "EOL" # PA
      BY DEF PA
    <2> QED
      BY <1>2, <2>1, <2>2, Zenon DEF Without
  <1>6. LoginAt(c, s, 5)
    BY Zenon DEF ConnectUnits
  <1>7. BasicOf(c, s)
    BY <1>5, <1>6, CredentialsRead
  <1> QED
    BY <1>4, <1>7

\* The units before the host are others than these.
Header(x) == x \in {PA, "Host: "}

\* where its Host header is, if it is a plain request,
LEMMA BeforeTheHost ==
    ASSUME NEW c \in Client, NEW s, GetUnits(c, s), NEW x, Header(x)
    PROVE  Without(s, Origin(c) + 2, x)
  <1> DEFINE o == Origin(c)
  <1>1. /\ s[1] = "GET"
        /\ c.form # "origin" => s[2] = "http://" /\ s[3] = "na" /\ s[4] = "me"
    BY Zenon DEF GetUnits
  <1>2. s[o + 1] = Path1(c) /\ s[o + 2] = "EOL"
    BY Zenon DEF GetUnits
  <1>3. /\ "GET" # x /\ "http://" # x /\ "na" # x /\ "me" # x /\ "EOL" # x
        /\ "/" # x /\ "/CONNECT" # x
    BY DEF PA, Header
  <1>4. Path1(c) # x
    BY <1>3 DEF Path1
  <1> HIDE DEF o
  <1>5. CASE c.form = "origin"
    <2>1. o \in {1, 4} /\ o = 1
      BY <1>5 DEF Origin, o
    <2>4. o + 1 = 2 /\ o + 2 = 3
      BY <2>1
    <2>2. s[2] = Path1(c) /\ s[3] = "EOL"
      BY <1>2, <2>4, Zenon
    <2>3. \A j \in 1 .. o + 2 : j = 1 \/ j = 2 \/ j = 3
      BY <2>1
    <2> QED
      BY <1>1, <1>3, <1>4, <2>2, <2>3, Zenon DEF Without, o
  <1>6. CASE c.form # "origin"
    <2>1. o \in {1, 4} /\ o = 4
      BY <1>6 DEF Origin, o
    <2>4. o + 1 = 5 /\ o + 2 = 6
      BY <2>1
    <2>2. s[5] = Path1(c) /\ s[6] = "EOL"
      BY <1>2, <2>4, Zenon
    <2>3. \A j \in 1 .. o + 2 : j = 1 \/ j = 2 \/ j = 3 \/ j = 4 \/ j = 5 \/ j = 6
      BY <2>1
    <2> QED
      BY <1>1, <1>3, <1>4, <1>6, <2>2, <2>3, Zenon DEF Without, o
  <1> QED
    BY <1>5, <1>6 DEF o

\* what that is read as,
LEMMA GetServed ==
    ASSUME NEW c \in Client, c.proto = "http", NEW s \in Seq(Letters(c)),
           GetUnits(c, s), Len(s) >= Origin(c) + 7 + Logins(c)
    PROVE  /\ ParseHttpTarget(s) = Name /\ HostHeader(s) = Name /\ BasicOf(c, s)
           /\ c.form = "origin" => OriginAt(s)
           /\ c.form # "origin" => AbsoluteAt(s)
  <1> DEFINE o == Origin(c)
  <1>1. Logins(c) \in Nat /\ Len(s) \in Nat
    BY LenProperties DEF Logins
  <1>2. o \in {1, 4} /\ (c.form = "origin" => o = 1) /\ (c.form # "origin" => o = 4)
    BY DEF Origin
  <1>3. /\ s[1] = "GET"
        /\ c.form # "origin" => s[2] = "http://" /\ s[3] = "na" /\ s[4] = "me"
    BY Zenon DEF GetUnits
  <1>4. /\ s[o + 1] = Path1(c) /\ s[o + 2] = "EOL" /\ s[o + 3] = "Host: "
        /\ s[o + 4] = "na" /\ s[o + 5] = "me" /\ s[o + 6] = "EOL"
    BY Zenon DEF GetUnits
  <1>5. LoginAt(c, s, o + 7)
    BY Zenon DEF GetUnits
  <1>6. Path1(c) \in Paths
    BY DEF Path1, Paths
  <1>7. Without(s, o + 2, PA) /\ Without(s, o + 2, "Host: ")
    BY BeforeTheHost DEF Header
  <1>8. Len(s) >= o + 7 + Logins(c)
    OBVIOUS
  <1> HIDE DEF o
  <1>9. Len(s) >= o + 7
    BY <1>1, <1>2, <1>8
  <1>10. HostAt(s, o + 3)
    <2>1. o + 3 \in 1 .. Len(s) /\ o + 3 + 3 <= Len(s)
      BY <1>1, <1>2, <1>9
    <2>2. o + 3 + 1 = o + 4 /\ o + 3 + 2 = o + 5 /\ o + 3 + 3 = o + 6 /\ o + 3 - 1 = o + 2
      BY <1>2
    <2>3. NamedAt(s, o + 3)
      BY <1>4, <2>2, Zenon DEF NamedAt
    <2> DEFINE h == o + 3
    <2>5. s[h] = "Host: " /\ s[h + 3] = "EOL"
      BY <1>4, <2>2, Zenon
    <2>6. h \in 1 .. Len(s) /\ h + 3 <= Len(s) 
      BY <2>1
    <2>8. NamedAt(s, h)
      BY <2>3
    <2>10. h - 1 = o + 2
      BY <1>2
    <2> HIDE DEF h
    <2>9. \A j \in 1 .. h - 1 : s[j] # "Host: "
      BY <1>7, <2>10, Zenon DEF Without
    <2>7. HostAt(s, h)
      BY <2>5, <2>6, <2>8, <2>9, Zenon DEF HostAt
    <2> QED
      BY <2>7 DEF h
  <1>11. HostHeader(s) = Name
    BY <1>10, HostFound
  <1>12. c.form = "origin" => OriginAt(s)
    <2> SUFFICES ASSUME c.form = "origin" PROVE OriginAt(s)
      OBVIOUS
    <2>2. o + 1 = 2 /\ o + 2 = 3 /\ Len(s) >= 4
      BY <1>1, <1>2, <1>9
    <2>1. s[2] = Path1(c) /\ s[3] = "EOL" /\ Len(s) >= 4
      BY <1>4, <2>2, Zenon
    <2> QED
      BY <1>3, <1>6, <2>1, Zenon DEF OriginAt
  <1>13. c.form # "origin" => AbsoluteAt(s)
    <2> SUFFICES ASSUME c.form # "origin" PROVE AbsoluteAt(s)
      OBVIOUS
    <2>2. o + 1 = 5 /\ o + 2 = 6 /\ Len(s) >= 6
      BY <1>1, <1>2, <1>9
    <2>1. s[5] = Path1(c) /\ s[6] = "EOL" /\ Len(s) >= 6
      BY <1>4, <2>2, Zenon
    <2> QED
      BY <1>3, <1>6, <2>1, Zenon DEF AbsoluteAt
  <1>14. ParseHttpTarget(s) = Name
    <2>1. CASE c.form = "origin"
      <3>1. HostAt(s, 4)
        <4>1. o + 3 = 4
          BY <1>2, <2>1
        <4> QED
          BY <1>10, <4>1
      <3>2. OriginAt(s)
        BY <1>12, <2>1
      <3> QED
        BY <3>1, <3>2, OriginParsed
    <2>2. CASE c.form # "origin"
      <3>1. AbsoluteAt(s)
        BY <1>13, <2>2
      <3> QED
        BY <3>1, AbsoluteParsed
    <2> QED
      BY <2>1, <2>2
  <1>15. BasicOf(c, s)
    <2>1. Without(s, o + 6, PA)
      <3>1. \A j \in 1 .. o + 6 :
               j \in 1 .. o + 2 \/ j = o + 3 \/ j = o + 4 \/ j = o + 5 \/ j = o + 6
        BY <1>2
      <3>2. "Host: " # PA /\ "na" # PA /\ "me" # PA /\ "EOL" # PA
        BY DEF PA
      <3>3. \A j \in 1 .. o + 2 : s[j] # PA
        BY <1>7, Zenon DEF Without
      <3> QED
        BY <1>4, <3>1, <3>2, <3>3, Zenon DEF Without
    <2>2. o + 7 \in Nat /\ o + 7 >= 1
      BY <1>2
    <2> DEFINE k == o + 7
    <2>3. LoginAt(c, s, k)
      BY <1>5
    <2>5. Len(s) >= k + Logins(c) /\ k \in Nat /\ k >= 1
      BY <1>8, <2>2
    <2>6. k - 1 = o + 6
      BY <1>2
    <2> HIDE DEF k
    <2>4. Without(s, k - 1, PA)
      BY <2>1, <2>6, Zenon
    <2> QED
      BY <2>3, <2>4, <2>5, CredentialsRead
  <1> QED
    BY <1>11, <1>12, <1>13, <1>14, <1>15

\* and what a SOCKS4 request is.
LEMMA Socks4Served ==
    ASSUME NEW c \in Client, c.proto = "socks4", NEW s \in Seq(Letters(c)),
           Socks4Units(c, s), Len(s) >= IF c.form = "ip" THEN Ended(c) ELSE Ended(c) + 3
    PROVE  /\ ParseSocks4Target(s) = Meant(c)
           /\ Socks4Target(s) \in {NoName, Meant(c)} \/ c.form = "0.0.0.x"
           /\ Socks4Userid(s) <=> c.creds # "none"
           /\ ~Has(s, PA)
  <1> DEFINE k == Ended(c)
  <1>1. k \in {4, 5} /\ (c.creds = "none" => k = 4) /\ (c.creds # "none" => k = 5)
    BY DEF Ended
  <1>2. /\ s[1] = "04" /\ s[2] = c.command /\ s[3] = c.form
        /\ c.creds # "none" => s[4] = "id"
    BY Zenon DEF Socks4Units
  <1>3. /\ s[k] = "NUL"
        /\ c.form # "ip" => s[k + 1] = "na" /\ s[k + 2] = "me" /\ s[k + 3] = "NUL"
    BY Zenon DEF Socks4Units
  <1>4. Len(s) \in Nat
    BY LenProperties
  <1>5. Len(s) >= IF c.form = "ip" THEN k ELSE k + 3
    OBVIOUS
  <1> HIDE DEF k
  <1>6. Len(s) >= k /\ (c.form # "ip" => Len(s) >= k + 3)
    BY <1>1, <1>4, <1>5
  <1>7. c.form \in {"ip", "0.0.0.1", "0.0.0.x"} /\ c.command \in {"connect", "bind"}
    BY ClientType
  <1>8. UserIdEnds(s, k)
    <2>1. k \in 4 .. Len(s)
      BY <1>1, <1>4, <1>6
    <2>2. \A j \in 1 .. k - 1 : s[j] # "NUL"
      <3>1. c.command # "NUL" /\ c.form # "NUL" /\ "04" # "NUL" /\ "id" # "NUL"
        BY <1>7
      <3>2. \A j \in 1 .. k - 1 : j = 1 \/ j = 2 \/ j = 3 \/ (j = 4 /\ c.creds # "none")
        BY <1>1
      <3> QED
        BY <1>2, <3>1, <3>2, Zenon
    <2> QED
      BY <1>2, <1>3, <2>1, <2>2, Zenon DEF UserIdEnds
  <1>9. DomainAt(s, k)
    <2> SUFFICES ASSUME c.form # "ip"
                 PROVE  k + 3 <= Len(s) /\ NamedAt(s, k) /\ s[k + 3] = "NUL"
      BY <1>2, Zenon DEF DomainAt
    <2>1. k + 3 <= Len(s)
      BY <1>1, <1>4, <1>6
    <2> QED
      BY <1>3, <2>1, Zenon DEF NamedAt
  <1>10. Meant(c) = IF c.form = "ip" THEN <<"ip">> ELSE Name
    BY DEF Meant
  <1>11. ParseSocks4Target(s) = Meant(c)
    <2>1. ParseSocks4Target(s) = IF s[3] = "ip" THEN <<"ip">> ELSE Name
      BY <1>8, <1>9, Socks4ChainParsed
    <2> QED
      BY <1>2, <1>10, <2>1, Zenon
  <1>12. Socks4Target(s) \in {NoName, Meant(c)} \/ c.form = "0.0.0.x"
    <2> SUFFICES ASSUME Socks4Target(s) # NoName, c.form # "0.0.0.x"
                 PROVE  Socks4Target(s) = Meant(c)
      OBVIOUS
    <2>1. /\ s[3] = "ip" => Socks4Target(s) = <<"ip">>
          /\ s[3] = "0.0.0.1" => Socks4Target(s) = Name
      BY <1>8, <1>9, Socks4Parsed
    <2>2. c.form = "ip" \/ c.form = "0.0.0.1"
      BY <1>7
    <2>3. "0.0.0.1" # "ip"
      OBVIOUS
    <2> QED
      BY <1>2, <1>10, <2>1, <2>2, <2>3, Zenon
  <1>13. Socks4Userid(s) <=> c.creds # "none"
    <2>1. CASE c.creds = "none"
      <3>1. "id" \notin Letters(c)
        BY <2>1, ClientType DEF Letters, Announced, Path1
      <3> QED
        BY <2>1, <3>1, NoUserId
    <2>2. CASE c.creds # "none"
      <3>1. s[2] # "id" /\ s[3] # "id" /\ s[4] = "id"
        BY <1>2, <1>7, <2>2
      <3>2. k = 5
        BY <1>1, <2>2
      <3>3. s[5] = "NUL" /\ Len(s) >= 5 /\ s[1] = "04"
        BY <1>2, <1>3, <1>6, <3>2
      <3> QED
        BY <2>2, <3>1, <3>3, UserIdFound
    <2> QED
      BY <2>1, <2>2
  <1>14. ~Has(s, PA)
    <2>1. PA \notin Letters(c)
      BY ClientType DEF Letters, Announced, Path1, PA
    <2> QED
      BY <2>1, NoBasic
  <1> QED
    BY <1>11, <1>12, <1>13, <1>14

\* A request that came whole is read as the one it is.
LEMMA RequestServed ==
    ASSUME NEW c \in Client, NEW auth, NEW s \in Seq(Letters(c)),
           IsPrefix(Handshake(c, auth)[1], s)
    PROVE  /\ c.proto = "https" => ParseConnectTarget(s) = Name /\ BasicOf(c, s)
           /\ c.proto = "http" => /\ ParseHttpTarget(s) = Name /\ HostHeader(s) = Name
                                  /\ BasicOf(c, s)
           /\ c.proto = "socks4" => /\ ParseSocks4Target(s) = Meant(c)
                                    /\ (Socks4Target(s) \in {NoName, Meant(c)} \/ c.form = "0.0.0.x")
                                    /\ Socks4Userid(s) <=> c.creds # "none"
                                    /\ ~Has(s, PA)
  <1> DEFINE w == Handshake(c, auth)[1]
  <1>1. CASE c.proto = "https"
    <2>1. w \in Seq(Alphabet(c)) /\ ConnectWord(c, w)
      BY <1>1, ConnectSpelled
    <2>2. IsPrefix(w, s)
      OBVIOUS
    <2> HIDE DEF w
    <2>3. Agree(w, s)
      BY <2>1, <2>2, Starts
    <2>4. ConnectUnits(c, s) /\ Len(s) >= 5 + Logins(c)
      BY <2>1, <2>3, ConnectAgrees
    <2>5. ParseConnectTarget(s) = Name /\ BasicOf(c, s)
      BY <1>1, <2>4, ConnectServed
    <2> QED
      BY <1>1, <2>5
  <1>2. CASE c.proto = "http"
    <2>1. w \in Seq(Alphabet(c)) /\ GetWord(c, w)
      BY <1>2, GetSpelled
    <2>2. IsPrefix(w, s)
      OBVIOUS
    <2> HIDE DEF w
    <2>3. Agree(w, s)
      BY <2>1, <2>2, Starts
    <2>4. GetUnits(c, s) /\ Len(s) >= Origin(c) + 7 + Logins(c)
      BY <2>1, <2>3, GetAgrees
    <2>5. ParseHttpTarget(s) = Name /\ HostHeader(s) = Name /\ BasicOf(c, s)
      BY <1>2, <2>4, GetServed
    <2> QED
      BY <1>2, <2>5
  <1>3. CASE c.proto = "socks4"
    <2>1. w \in Seq(Alphabet(c)) /\ Socks4Word(c, w)
      BY <1>3, Socks4Spelled
    <2>2. IsPrefix(w, s)
      OBVIOUS
    <2> HIDE DEF w
    <2>3. Agree(w, s)
      BY <2>1, <2>2, Starts
    <2>4. Socks4Units(c, s) /\ Len(s) >= IF c.form = "ip" THEN Ended(c) ELSE Ended(c) + 3
      BY <2>1, <2>3, Socks4Agrees
    <2>5. /\ ParseSocks4Target(s) = Meant(c)
          /\ (Socks4Target(s) \in {NoName, Meant(c)} \/ c.form = "0.0.0.x")
          /\ Socks4Userid(s) <=> c.creds # "none"
          /\ ~Has(s, PA)
      BY <1>3, <2>4, Socks4Served
    <2> QED
      BY <1>3, <2>5
  <1> QED
    BY <1>1, <1>2, <1>3

-------------------------------------------------------------------------------

AsMeant == \/ asked = Meant(client)
           \/ client.form = "0.0.0.x" /\ ~path.multi
           \/ client.proto = "http" /\ Untouched

\* What is known of a client whose request was taken in at once.
Whole ==
    client.proto # "socks5" /\ CameWhole =>
       /\ wait \in Handling \cup {"open"} => selected = Choice
       /\ wait \in (Handling \cup {"open"}) \ {"account"} => user = Owner
       /\ wait \in Replies \cup {"next", "open"} => AsMeant

\* Steps that change nothing of it.
LEMMA WholeStays ==
    ASSUME Whole, UNCHANGED <<client, path, taken, user, selected, asked>>,
           \/ wait' = wait \/ wait' \notin Handling \cup {"open"}
           \/ wait \in Replies \cup {"next"}
    PROVE  Whole'
  <1>1. CameWhole' = CameWhole /\ Choice' = Choice /\ Owner' = Owner /\ AsMeant' = AsMeant
    BY DEF CameWhole, Choice, Owner, AsMeant, Meant, Untouched
  <1> QED
    BY <1>1 DEF Whole, Handling, Replies

\* SOCKS5 clients, and those whose request was cut.
LEMMA WholeElsewhere ==
    ASSUME wait' \notin Handling \cup {"open"} \/ client'.proto = "socks5"
    PROVE  Whole'
  BY DEF Whole, Handling

\* The selection and the account are those of the request,
LEMMA WholeRouted ==
    ASSUME ServedInv, Whole, Routes \/ AuthenticateUser
    PROVE  Whole'
  <1>1. CASE Routes
    <2>1. /\ wait = "route" /\ selected' = SelectionFor
          /\ wait' = IF Detected(taken) = "socks5" THEN "greeting" ELSE "account"
          /\ UNCHANGED <<client, path, taken>>
      BY <1>1 DEF Routes, fixed
    <2>2. Detected(taken) = client.proto /\ client \in Client /\ client.proto # "other"
          /\ taken \in Seq(Letters(client))
      BY <2>1, DetectedIs
    <2>3. ASSUME client.proto # "socks5", CameWhole
          PROVE  SelectionFor = Choice
      <3>1. client.proto \in {"socks4", "http", "https"}
        BY <2>2, <2>3, ClientType
      <3>2. IsPrefix(Handshake(client, path.auth)[1], taken)
        BY <2>3 DEF CameWhole
      <3>3. CASE client.proto = "socks4"
        <4>1. Socks4Userid(taken) <=> client.creds # "none"
          BY <2>2, <3>2, <3>3, RequestServed
        <4> QED
          BY <2>2, <3>3, <4>1 DEF SelectionFor, Choice
      <3>4. CASE client.proto \in {"http", "https"}
        <4>1. BasicOf(client, taken)
          BY <2>2, <3>2, <3>4, RequestServed
        <4>2. HttpProxyUsername(taken) <=> client.creds # "none"
          BY <4>1 DEF BasicOf, HttpProxyUsername
        <4> QED
          BY <2>2, <3>4, <4>2 DEF SelectionFor, Choice
      <3> QED
        BY <3>1, <3>3, <3>4
    <2>4. /\ CameWhole' = CameWhole /\ Choice' = Choice
          /\ wait' \in {"greeting", "account"}
      BY <2>1 DEF CameWhole, Choice
    <2> QED
      BY <2>1, <2>3, <2>4 DEF Whole, Handling, Replies
  <1>2. CASE AuthenticateUser
    <2>1. /\ wait = "account" /\ wait' = "dial"
          /\ UNCHANGED <<client, path, taken, selected>>
          /\ \/ ~path.auth /\ user' = "nobody"
             \/ path.auth /\ Has(taken, PA) /\ user' = "user"
             \/ path.auth /\ ~Has(taken, PA) /\ user' = "address"
      BY <1>2 DEF AuthenticateUser, fixed, PA
    <2>2. client \in Client /\ taken \in Seq(Letters(client))
      BY <2>1, DetectedIs
    <2>3. ASSUME CameWhole PROVE user' = Owner
      <3>1. client.proto \in {"socks4", "http", "https"}
        BY <2>1 DEF ServedInv, Placed, Handling
      <3>2. IsPrefix(Handshake(client, path.auth)[1], taken)
        BY <2>3 DEF CameWhole
      <3>3. CASE client.proto = "socks4"
        <4>1. ~Has(taken, PA)
          BY <2>2, <3>2, <3>3, RequestServed
        <4> QED
          BY <2>1, <3>3, <4>1 DEF Owner
      <3>4. CASE client.proto \in {"http", "https"}
        <4>1. BasicOf(client, taken)
          BY <2>2, <3>2, <3>4, RequestServed
        <4>2. Has(taken, PA) <=> client.creds # "none"
          BY <4>1 DEF BasicOf
        <4> QED
          BY <2>1, <3>4, <4>2 DEF Owner
      <3> QED
        BY <3>1, <3>3, <3>4
    <2>4. CameWhole' = CameWhole /\ Choice' = Choice /\ Owner' = Owner
      BY <2>1 DEF CameWhole, Choice, Owner
    <2>5. client.proto # "socks5" /\ CameWhole => selected = Choice
      BY <2>1 DEF Whole, Handling
    <2> QED
      BY <2>1, <2>3, <2>4, <2>5 DEF Whole, Handling, Replies
  <1> QED
    BY <1>1, <1>2

\* The target is settled where the handler starts.
LEMMA WholeAsked ==
    ASSUME ServedInv, Whole, wait = "dial", UNCHANGED <<client, path, taken, user, selected>>,
           CameWhole => AsMeant'
    PROVE  Whole'
  <1>1. CameWhole' = CameWhole /\ Choice' = Choice /\ Owner' = Owner
    BY DEF CameWhole, Choice, Owner
  <1> QED
    BY <1>1 DEF Whole, Handling

\* and so is the target, whichever handler dials.
LEMMA WholeHandled ==
    ASSUME ServedInv, Whole,
           \/ HandleSocks4Chain \/ HandleHttpsChain \/ HandleHttpChain
           \/ Socks4ToHttp \/ Socks4ToSocks4 \/ Socks4ToSocks5
           \/ HttpToHttp \/ HttpToSocks4 \/ HttpToSocks5
           \/ HttpsToHttp \/ HttpsToSocks4 \/ HttpsToSocks5
    PROVE  Whole'
  <1>1. wait = "dial" /\ UNCHANGED <<client, path, taken, user, selected>>
    BY DEF HandleSocks4Chain, HandleHttpsChain, HandleHttpChain, Dialling, Tunnels,
           Socks4ToHttp, Socks4ToSocks4, Socks4ToSocks5, Socks4Opens, HttpToHttp, HttpToSocks4,
           HttpToSocks5, HttpsToHttp, HttpsToSocks4, HttpsToSocks5, Opens, Single, fixed, verdicts
  <1>2. /\ Detected(taken) = client.proto /\ client \in Client
        /\ taken \in Seq(Letters(client))
    BY <1>1, DetectedIs
  <1>3. \/ client.proto = "socks4" /\ path.multi /\ asked' = ParseSocks4Target(taken)
        \/ client.proto = "https" /\ asked' = ParseConnectTarget(taken)
        \/ client.proto = "http" /\ path.multi /\ asked' = ParseHttpTarget(taken)
        \/ /\ client.proto = "socks4" /\ ~path.multi /\ asked' = Socks4Target(taken)
           /\ Socks4Target(taken) # NoName
        \/ /\ client.proto = "socks4" /\ ~path.multi
           /\ CameWhole => asked' = Meant(client)
        \/ client.proto = "http" /\ Untouched
        \/ client.proto = "http" /\ asked' = HostHeader(taken)
    BY <1>2 DEF HandleSocks4Chain, HandleHttpsChain, HandleHttpChain, Dialling, Tunnels,
           Socks4ToHttp, Socks4ToSocks4, Socks4ToSocks5, Socks4Opens, HttpToHttp, HttpToSocks4,
           HttpToSocks5, HttpsToHttp, HttpsToSocks4, HttpsToSocks5, Opens, Single, CameWhole,
           Untouched
  <1>4. ASSUME CameWhole PROVE AsMeant'
    <2>1. IsPrefix(Handshake(client, path.auth)[1], taken)
      BY <1>4 DEF CameWhole
    <2>2. /\ client.proto = "https" => ParseConnectTarget(taken) = Name
          /\ client.proto = "http" => ParseHttpTarget(taken) = Name /\ HostHeader(taken) = Name
          /\ client.proto = "socks4" =>
                /\ ParseSocks4Target(taken) = Meant(client)
                /\ (Socks4Target(taken) \in {NoName, Meant(client)} \/ client.form = "0.0.0.x")
      BY <1>2, <2>1, RequestServed
    <2>3. client.proto \in {"http", "https"} => Meant(client) = Name
      BY <1>2, ClientType DEF Meant
    <2>4. \/ asked' = Meant(client)
          \/ client.form = "0.0.0.x" /\ ~path.multi
          \/ client.proto = "http" /\ Untouched
      <3>1. CASE client.proto = "socks4"
        BY <1>3, <1>4, <2>2, <3>1
      <3>2. CASE client.proto = "https"
        BY <1>3, <2>2, <2>3, <3>2
      <3>3. CASE client.proto = "http"
        BY <1>3, <2>2, <2>3, <3>3
      <3> QED
        BY <1>3, <3>1, <3>2, <3>3
    <2> QED
      BY <1>1, <2>4 DEF AsMeant, Meant, Untouched
  <1> QED
    BY <1>1, <1>4, WholeAsked

\* No step takes a client whose request came whole for another one.
LEMMA WholeStep ==
    ASSUME ServedInv, Whole, [Next]_vars
    PROVE  Whole'
  <1>1. CASE UNCHANGED vars
    BY <1>1, WholeStays DEF vars
  <1>2. CASE \/ ClientIsGone \/ RequestIsCut \/ NothingMatches \/ IsRefused \/ ChainFails
             \/ FirstReadTimesOut \/ UpstreamIsDown \/ Socks4Rejects
    <2>1. wait' = "failed"
      BY <1>2 DEF ClientIsGone, RequestIsCut, NothingMatches, IsRefused, ChainFails,
                  FirstReadTimesOut, UpstreamIsDown, Socks4Rejects, Fails
    <2> QED
      BY <2>1, WholeElsewhere DEF Handling, Replies
  <1>3. CASE Sends \/ Leaves
    <2>1. wait' = wait /\ UNCHANGED <<client, path, taken, user, selected, asked>>
      BY <1>3 DEF Sends, Leaves, fixed, verdicts
    <2> QED
      BY <2>1, WholeStays
  <1>4. CASE Upstream
    <2>1. wait' = wait
      BY <1>4 DEF Upstream, FarEnd, ChoosesMethod, JudgesCredentials, Connects, Refuses,
                  Answers, Speaks, Closes
    <2>2. UNCHANGED <<client, path, taken, user, selected, asked>>
      BY <1>4 DEF Upstream, Untold, fixed, verdicts
    <2> QED
      BY <2>1, <2>2, WholeStays
  <1>5. CASE FirstRead
    <2>1. wait' \in {"failed", "route"}
      BY <1>5 DEF FirstRead
    <2> QED
      BY <2>1, WholeElsewhere DEF Handling, Replies
  <1>6. CASE Routes \/ AuthenticateUser
    BY <1>6, WholeRouted
  <1>7. CASE \/ Greets \/ LogsIn \/ ReadsRequest \/ ReadsCount
             \/ ReadsName("host", 2) \/ ReadsName("ip", 1) \/ Socks5Chain
    <2>1. wait \in Names5 /\ client' = client
      BY <1>7 DEF Greets, LogsIn, ReadsRequest, ReadsCount, ReadsName, Receives, Socks5Chain,
                  Tunnels, fixed, Names5
    <2>2. client.proto = "socks5"
      BY <2>1 DEF ServedInv, Placed
    <2> QED
      BY <2>1, <2>2, WholeElsewhere
  <1>8. CASE \/ HandleSocks4Chain \/ HandleHttpsChain \/ HandleHttpChain
             \/ Socks4ToHttp \/ Socks4ToSocks4 \/ Socks4ToSocks5
             \/ HttpToHttp \/ HttpToSocks4 \/ HttpToSocks5
             \/ HttpsToHttp \/ HttpsToSocks4 \/ HttpsToSocks5
    BY <1>8, WholeHandled
  <1>9. CASE \/ Socks4Converses \/ HttpConverses \/ HttpsConverses
             \/ Socks4Forwards \/ HttpsForwards \/ UpstreamBreaks
             \/ Socks4Answers \/ HttpAnswers \/ HttpsAnswers
    <2>1. wait \in Replies \cup {"next"}
      BY <1>9 DEF Socks4Converses, HttpConverses, HttpsConverses, ReadsSocks5, ReadMethod,
                  ReadVerdict, ReadHeader, ReadLength, ReadAddress, ReadGranted, ReadStatus,
                  Takes, Replies, Socks4Forwards, HttpsForwards, Single, UpstreamBreaks, Breaks,
                  Socks4Answers, HttpAnswers, HttpsAnswers
    <2>2. UNCHANGED <<client, path, taken, user, selected, asked>>
      <3>1. CASE Socks4Answers \/ HttpAnswers \/ HttpsAnswers
        <4>1. \E words, units : HandsOver(words, units)
          BY <3>1 DEF Socks4Answers, HttpAnswers, HttpsAnswers
        <4> QED
          BY <4>1 DEF HandsOver, fixed, verdicts
      <3>2. CASE ~(Socks4Answers \/ HttpAnswers \/ HttpsAnswers)
        BY <1>9, <3>2 DEF Socks4Converses, HttpConverses, HttpsConverses, Conversing, Untold,
                Socks4Forwards, HttpsForwards, UpstreamBreaks, fixed, verdicts
      <3> QED
        BY <3>1, <3>2
    <2> QED
      BY <2>1, <2>2, WholeStays
  <1> QED
    BY <1>1, <1>2, <1>3, <1>4, <1>5, <1>6, <1>7, <1>8, <1>9 DEF Next, Router, ClientSide

-------------------------------------------------------------------------------
(* What a SOCKS5 client sends, in a row *)

\* The messages of a SOCKS5 client, unit by unit.
IsGreeting(m) == Len(m) = 2 /\ m[1] = "05" /\ m[2] = "methods"
IsLogin(m)    == Len(m) = 2 /\ m[1] = "01" /\ m[2] = "name and password"
IsPayload(m)  == Len(m) = 1 /\ m[1] = "payload"

IsRequest(c, m) ==
    /\ m[1] = "05" /\ m[2] = c.command /\ m[3] = c.form
    /\ c.form = "03" => Len(m) = 6 /\ m[4] = "length" /\ m[5] = "na" /\ m[6] = "me"
    /\ c.form # "03" => Len(m) = 4 /\ m[4] = "ip"

\* The message behind the greeting and the login.
Third(auth) == IF auth THEN 3 ELSE 2

\* The SOCKS5 request, unit by unit.
LEMMA RequestSpelled ==
    ASSUME NEW c \in Client
    PROVE  LET m == <<"05", c.command, c.form>>
                    \o (IF c.form = "03" THEN <<"length">> \o Name ELSE <<"ip">>)
           IN  m \in Seq(Letters(c)) /\ IsRequest(c, m)
  <1> DEFINE L == Letters(c)
             p == <<"05", c.command, c.form>>
             l == <<"length">>
             n == l \o Name
             i == <<"ip">>
             q == IF c.form = "03" THEN n ELSE i
             m == p \o q
  <1>1. /\ "05" \in L /\ c.command \in L /\ c.form \in L /\ "length" \in L /\ "ip" \in L
        /\ "na" \in L /\ "me" \in L
    BY DEF Letters
  <1> HIDE DEF L
  <1>2. \A x \in L : <<x>> \in Seq(L) /\ Len(<<x>>) = 1 /\ <<x>>[1] = x
    OBVIOUS
  <1>3. \A x, y \in L : <<x, y>> \in Seq(L) /\ Len(<<x, y>>) = 2 /\ <<x, y>>[1] = x /\ <<x, y>>[2] = y
    OBVIOUS
  <1>4. \A x, y, z \in L : /\ <<x, y, z>> \in Seq(L) /\ Len(<<x, y, z>>) = 3
                           /\ <<x, y, z>>[1] = x /\ <<x, y, z>>[2] = y /\ <<x, y, z>>[3] = z
    OBVIOUS
  <1>5. p \in Seq(L) /\ Len(p) = 3 /\ p[1] = "05" /\ p[2] = c.command /\ p[3] = c.form
    BY <1>1, <1>4, Zenon
  <1>6. l \in Seq(L) /\ Len(l) = 1 /\ l[1] = "length" /\ i \in Seq(L) /\ Len(i) = 1 /\ i[1] = "ip"
    BY <1>1, <1>2, Zenon
  <1>7. Name \in Seq(L) /\ Len(Name) = 2 /\ Name[1] = "na" /\ Name[2] = "me"
    BY <1>1, <1>3, Zenon DEF Name
  <1> HIDE DEF p, l, i
  <1>8. /\ n \in Seq(L) /\ Len(n) = Len(l) + Len(Name)
        /\ \A j \in 1 .. Len(l) : n[j] = l[j]
        /\ \A j \in 1 .. Len(Name) : n[Len(l) + j] = Name[j]
    <2>1. l \in Seq(L) /\ Name \in Seq(L)
      BY <1>6, <1>7
    <2> QED
      BY <2>1, Joined
  <1> HIDE DEF n
  <1>9. Len(n) = 3 /\ n[1] = "length" /\ n[2] = "na" /\ n[3] = "me"
    <2>1. Len(l) = 1 /\ Len(Name) = 2
      BY <1>6, <1>7
    <2>2. Len(n) = 3 /\ n[1] = l[1] /\ n[2] = Name[1] /\ n[3] = Name[2]
      BY <1>8, <2>1
    <2> QED
      BY <1>6, <1>7, <2>2, Zenon
  <1>10. (c.form = "03" => q = n) /\ (c.form # "03" => q = i)
    OBVIOUS
  <1> HIDE DEF q
  <1>11. q \in Seq(L)
    BY <1>6, <1>8, <1>10
  <1>12. /\ m \in Seq(L) /\ Len(m) = Len(p) + Len(q)
         /\ \A j \in 1 .. Len(p) : m[j] = p[j]
         /\ \A j \in 1 .. Len(q) : m[Len(p) + j] = q[j]
    <2>1. p \in Seq(L)
      BY <1>5
    <2> QED
      BY <1>11, <2>1, Joined
  <1> HIDE DEF m
  <1>13. m[1] = "05" /\ m[2] = c.command /\ m[3] = c.form
    <2>1. Len(p) = 3
      BY <1>5
    <2>2. m[1] = p[1] /\ m[2] = p[2] /\ m[3] = p[3]
      BY <1>12, <2>1
    <2> QED
      BY <1>5, <2>2, Zenon
  <1>14. ASSUME c.form = "03"
         PROVE  Len(m) = 6 /\ m[4] = "length" /\ m[5] = "na" /\ m[6] = "me"
    <2>1. Len(p) = 3 /\ Len(q) = 3 /\ q = n
      BY <1>5, <1>9, <1>10, <1>14
    <2>2. Len(m) = 6 /\ m[4] = q[1] /\ m[5] = q[2] /\ m[6] = q[3]
      BY <1>12, <2>1
    <2> QED
      BY <1>9, <2>1, <2>2, Zenon
  <1>15. ASSUME c.form # "03"
         PROVE  Len(m) = 4 /\ m[4] = "ip"
    <2>1. Len(p) = 3 /\ Len(q) = 1 /\ q = i
      BY <1>5, <1>6, <1>10, <1>15
    <2>2. Len(m) = 4 /\ m[4] = q[1]
      BY <1>12, <2>1
    <2> QED
      BY <1>6, <2>1, <2>2, Zenon
  <1>16. IsRequest(c, m)
    BY <1>13, <1>14, <1>15, Zenon DEF IsRequest
  <1> QED
    BY <1>12, <1>16, Zenon DEF m, q, p, n, l, i, L

\* What a SOCKS5 client sends, message by message.
LEMMA Socks5Script ==
    ASSUME NEW c \in Client, NEW auth, c.proto = "socks5"
    PROVE  LET S == Script(c, auth)
           IN  /\ Len(S) = Third(auth) + 1
               /\ IsGreeting(S[1]) /\ (auth => IsLogin(S[2]))
               /\ IsRequest(c, S[Third(auth)]) /\ IsPayload(S[Third(auth) + 1])
  <1> DEFINE L == Letters(c)
             m1 == <<"05", "methods">>
             m2 == <<"01", "name and password">>
             m3 == <<"05", c.command, c.form>>
                   \o (IF c.form = "03" THEN <<"length">> \o Name ELSE <<"ip">>)
             P == <<"payload">>
             H == Handshake(c, auth)
             S == Script(c, auth)
  <1>1. "05" \in L /\ "methods" \in L /\ "01" \in L /\ "name and password" \in L /\ "payload" \in L
    BY DEF Letters
  <1>2. m3 \in Seq(L) /\ IsRequest(c, m3)
    BY RequestSpelled
  <1>3. H = (<<m1>> \o (IF auth THEN <<m2>> ELSE <<>>)) \o <<m3>>
    BY DEF Handshake
  <1>4. S = Append(H, P)
    BY DEF Script
  <1> HIDE DEF L, m3, H, S
  <1>5. \A x \in L : <<x>> \in Seq(L) /\ Len(<<x>>) = 1 /\ <<x>>[1] = x
    OBVIOUS
  <1>6. \A x, y \in L : <<x, y>> \in Seq(L) /\ Len(<<x, y>>) = 2 /\ <<x, y>>[1] = x /\ <<x, y>>[2] = y
    OBVIOUS
  <1>7. m1 \in Seq(L) /\ IsGreeting(m1)
    BY <1>1, <1>6, Zenon DEF IsGreeting
  <1>8. m2 \in Seq(L) /\ IsLogin(m2)
    BY <1>1, <1>6, Zenon DEF IsLogin
  <1>9. P \in Seq(L) /\ IsPayload(P)
    BY <1>1, <1>5, Zenon DEF IsPayload
  <1> HIDE DEF m1, m2, P
  <1>10. H = IF auth THEN <<m1, m2, m3>> ELSE <<m1, m3>>
    <2>1. m1 \in Seq(L) /\ m2 \in Seq(L) /\ m3 \in Seq(L)
      BY <1>2, <1>7, <1>8
    <2> QED
      BY <1>3, <2>1, Tupled
  <1>11. m1 \in Seq(L) /\ m2 \in Seq(L) /\ m3 \in Seq(L) /\ P \in Seq(L)
    BY <1>2, <1>7, <1>8, <1>9
  <1>12. CASE auth
    <2>1. H = <<m1, m2, m3>>
      BY <1>10, <1>12
    <2>2. H \in Seq(Seq(L)) /\ Len(H) = 3 /\ H[1] = m1 /\ H[2] = m2 /\ H[3] = m3
      BY <1>11, <2>1
    <2>3. /\ Len(S) = Len(H) + 1 /\ S[Len(H) + 1] = P
          /\ \A i \in 1 .. Len(H) : S[i] = H[i]
      <3>1. H \in Seq(Seq(L)) /\ P \in Seq(L)
        BY <1>11, <2>2
      <3> QED
        BY <1>4, <3>1, AppendProperties
    <2>4. Len(S) = 4 /\ S[1] = m1 /\ S[2] = m2 /\ S[3] = m3 /\ S[4] = P
      BY <2>2, <2>3
    <2>5. Third(auth) = 3 /\ Third(auth) + 1 = 4
      BY <1>12 DEF Third
    <2> QED
      BY <1>2, <1>7, <1>8, <1>9, <2>4, <2>5, Zenon DEF S
  <1>13. CASE ~auth
    <2>1. H = <<m1, m3>>
      BY <1>10, <1>13
    <2>2. H \in Seq(Seq(L)) /\ Len(H) = 2 /\ H[1] = m1 /\ H[2] = m3
      BY <1>11, <2>1
    <2>3. /\ Len(S) = Len(H) + 1 /\ S[Len(H) + 1] = P
          /\ \A i \in 1 .. Len(H) : S[i] = H[i]
      <3>1. H \in Seq(Seq(L)) /\ P \in Seq(L)
        BY <1>11, <2>2
      <3> QED
        BY <1>4, <3>1, AppendProperties
    <2>4. Len(S) = 3 /\ S[1] = m1 /\ S[2] = m3 /\ S[3] = P
      BY <2>2, <2>3
    <2>5. Third(auth) = 2 /\ Third(auth) + 1 = 3
      BY <1>13 DEF Third
    <2> QED
      BY <1>2, <1>7, <1>9, <1>13, <2>4, <2>5, Zenon DEF S
  <1> QED
    BY <1>12, <1>13

\* Where the request of a SOCKS5 client begins, and where it ends.
Begun(auth) == IF auth THEN 4 ELSE 2
Over5(c, auth) == Begun(auth) + (IF c.form = "03" THEN 6 ELSE 4)

\* All that a SOCKS5 client sends, in a row.
Unit5(c, auth, j) ==
    LET r == Begun(auth)
    IN  IF j = 1 THEN "05" ELSE IF j = 2 THEN "methods"
        ELSE IF j <= r THEN (IF j = 3 THEN "01" ELSE "name and password")
        ELSE IF j = r + 1 THEN "05" ELSE IF j = r + 2 THEN c.command
        ELSE IF j = r + 3 THEN c.form
        ELSE IF j > Over5(c, auth) THEN "payload"
        ELSE IF c.form # "03" THEN "ip"
        ELSE IF j = r + 4 THEN "length" ELSE IF j = r + 5 THEN "na" ELSE "me"

\* Where its request begins, and where it ends.
LEMMA Begun5 ==
    ASSUME NEW c, NEW auth
    PROVE  /\ Begun(auth) \in {2, 4} /\ Begun(auth) \in Nat /\ Over5(c, auth) \in Nat
           /\ auth => Begun(auth) = 4 /\ Third(auth) = 3
           /\ ~auth => Begun(auth) = 2 /\ Third(auth) = 2
           /\ c.form = "03" => Over5(c, auth) = Begun(auth) + 6
           /\ c.form # "03" => Over5(c, auth) = Begun(auth) + 4
  <1>1. Begun(auth) \in {2, 4} /\ (auth => Begun(auth) = 4) /\ (~auth => Begun(auth) = 2)
    BY DEF Begun
  <1>2. (auth => Third(auth) = 3) /\ (~auth => Third(auth) = 2)
    BY DEF Third
  <1>3. c.form = "03" => Over5(c, auth) = Begun(auth) + 6
    BY DEF Over5
  <1>4. c.form # "03" => Over5(c, auth) = Begun(auth) + 4
    BY DEF Over5
  <1>5. Begun(auth) \in Nat
    BY <1>1
  <1>6. Over5(c, auth) \in Nat
    BY <1>3, <1>4, <1>5
  <1> QED
    BY <1>1, <1>2, <1>3, <1>4, <1>5, <1>6

\* All it sends, unit by unit.
LEMMA Units5 ==
    ASSUME NEW c, NEW auth
    PROVE  LET r == Begun(auth)
               U(j) == Unit5(c, auth, j)
           IN  /\ U(1) = "05" /\ U(2) = "methods"
               /\ auth => U(3) = "01" /\ U(4) = "name and password"
               /\ U(r + 1) = "05" /\ U(r + 2) = c.command /\ U(r + 3) = c.form
               /\ c.form # "03" => U(r + 4) = "ip"
               /\ c.form = "03" => U(r + 4) = "length" /\ U(r + 5) = "na" /\ U(r + 6) = "me"
               /\ U(Over5(c, auth) + 1) = "payload"
  <1> DEFINE r == Begun(auth)
             e == Over5(c, auth)
             U(j) == Unit5(c, auth, j)
             Body(j) == IF j = 1 THEN "05" ELSE IF j = 2 THEN "methods"
                        ELSE IF j <= r THEN (IF j = 3 THEN "01" ELSE "name and password")
                        ELSE IF j = r + 1 THEN "05" ELSE IF j = r + 2 THEN c.command
                        ELSE IF j = r + 3 THEN c.form
                        ELSE IF j > e THEN "payload"
                        ELSE IF c.form # "03" THEN "ip"
                        ELSE IF j = r + 4 THEN "length" ELSE IF j = r + 5 THEN "na" ELSE "me"
  <1>1. \A j : U(j) = Body(j)
    BY Zenon DEF Unit5
  <1>2. /\ r \in {2, 4} /\ (auth => r = 4)
        /\ (c.form = "03" => e = r + 6) /\ (c.form # "03" => e = r + 4)
    BY Begun5
  <1> HIDE DEF r, e, U
  <1>3. /\ 2 # 1 /\ 3 # 1 /\ 3 # 2 /\ 4 # 1 /\ 4 # 2 /\ 4 # 3
        /\ (auth => 3 <= r /\ 4 <= r)
    BY <1>2
  <1>4. U(1) = "05" /\ U(2) = "methods" /\ (auth => U(3) = "01" /\ U(4) = "name and password")
    <2>1. U(1) = "05"
      BY <1>1, Zenon
    <2>2. U(2) = "methods"
      BY <1>1, <1>3, Zenon
    <2>3. auth => U(3) = "01"
      BY <1>1, <1>3, Zenon
    <2>4. auth => U(4) = "name and password"
      BY <1>1, <1>3, Zenon
    <2> QED
      BY <2>1, <2>2, <2>3, <2>4
  <1>5. U(r + 1) = "05"
    <2>1. r + 1 # 1 /\ r + 1 # 2 /\ ~(r + 1 <= r)
      BY <1>2
    <2> QED
      BY <1>1, <2>1, Zenon
  <1>6. U(r + 2) = c.command
    <2>1. r + 2 # 1 /\ r + 2 # 2 /\ ~(r + 2 <= r) /\ r + 2 # r + 1
      BY <1>2
    <2> QED
      BY <1>1, <2>1, Zenon
  <1>7. U(r + 3) = c.form
    <2>1. r + 3 # 1 /\ r + 3 # 2 /\ ~(r + 3 <= r) /\ r + 3 # r + 1 /\ r + 3 # r + 2
      BY <1>2
    <2> QED
      BY <1>1, <2>1, Zenon
  <1>8. ASSUME c.form # "03" PROVE U(r + 4) = "ip"
    <2>1. /\ r + 4 # 1 /\ r + 4 # 2 /\ ~(r + 4 <= r) /\ r + 4 # r + 1 /\ r + 4 # r + 2
          /\ r + 4 # r + 3 /\ ~(r + 4 > e)
      BY <1>2, <1>8
    <2> QED
      BY <1>1, <1>8, <2>1, Zenon
  <1>9. ASSUME c.form = "03" PROVE U(r + 4) = "length" /\ U(r + 5) = "na" /\ U(r + 6) = "me"
    <2>1. /\ r + 4 # 1 /\ r + 4 # 2 /\ ~(r + 4 <= r) /\ r + 4 # r + 1 /\ r + 4 # r + 2
          /\ r + 4 # r + 3 /\ ~(r + 4 > e)
      BY <1>2, <1>9
    <2>2. U(r + 4) = "length"
      BY <1>1, <1>9, <2>1, Zenon
    <2>3. /\ r + 5 # 1 /\ r + 5 # 2 /\ ~(r + 5 <= r) /\ r + 5 # r + 1 /\ r + 5 # r + 2
          /\ r + 5 # r + 3 /\ ~(r + 5 > e) /\ r + 5 # r + 4
      BY <1>2, <1>9
    <2>4. U(r + 5) = "na"
      BY <1>1, <1>9, <2>3, Zenon
    <2>5. /\ r + 6 # 1 /\ r + 6 # 2 /\ ~(r + 6 <= r) /\ r + 6 # r + 1 /\ r + 6 # r + 2
          /\ r + 6 # r + 3 /\ ~(r + 6 > e) /\ r + 6 # r + 4 /\ r + 6 # r + 5
      BY <1>2, <1>9
    <2>6. U(r + 6) = "me"
      BY <1>1, <1>9, <2>5, Zenon
    <2> QED
      BY <2>2, <2>4, <2>6
  <1>10. U(e + 1) = "payload"
    <2>1. /\ e + 1 # 1 /\ e + 1 # 2 /\ ~(e + 1 <= r) /\ e + 1 # r + 1 /\ e + 1 # r + 2
          /\ e + 1 # r + 3 /\ e + 1 > e
      BY <1>2
    <2> QED
      BY <1>1, <2>1, Zenon
  <1> QED
    BY <1>4, <1>5, <1>6, <1>7, <1>8, <1>9, <1>10, Zenon DEF r, e, U

\* Behind the greeting and the login, only a request begins with a version.
LEMMA OneVersion ==
    ASSUME NEW c \in Client, c.proto = "socks5", NEW auth, NEW k \in Nat, k >= Begun(auth),
           Unit5(c, auth, k + 1) = "05"
    PROVE  k = Begun(auth)
  <1> DEFINE r == Begun(auth)
  <1>1. r \in {2, 4}
    BY Begun5
  <1>2. c.command # "05" /\ c.form # "05"
    BY ClientType
  <1>3. k >= r
    OBVIOUS
  <1> HIDE DEF r
  <1>4. SUFFICES ASSUME k # r PROVE Unit5(c, auth, k + 1) # "05"
    BY DEF r
  <1>5. /\ k + 1 # 1 /\ k + 1 # 2 /\ ~(k + 1 <= r) /\ k + 1 # r + 1
    BY <1>1, <1>3, <1>4
  <1>6. /\ "payload" # "05" /\ "ip" # "05" /\ "length" # "05" /\ "na" # "05" /\ "me" # "05"
    OBVIOUS
  <1>7. Unit5(c, auth, k + 1) \in {c.command, c.form, "payload", "ip", "length", "na", "me"}
    BY <1>5, Zenon DEF Unit5, r
  <1> QED
    BY <1>2, <1>6, <1>7

\* All that a client sends, in a row, and where each of its messages begins.
UnitAt(c, auth, j) ==
    IF c.proto = "socks5" THEN Unit5(c, auth, j)
    ELSE IF j <= Len(Script(c, auth)[1]) THEN Script(c, auth)[1][j] ELSE "payload"

Offset(c, auth, n) ==
    IF n = 0 THEN 0
    ELSE IF c.proto # "socks5"
    THEN Len(Script(c, auth)[1]) + (IF n = 1 THEN 0 ELSE 1)
    ELSE IF n = 1 THEN 2
    ELSE IF n < Third(auth) THEN 4
    ELSE Over5(c, auth) + (IF n = Third(auth) THEN 0 ELSE 1)

\* The message at index n, from its offset on.
MessageAt(c, auth, n) ==
    LET m == Script(c, auth)[n + 1]
        o == Offset(c, auth, n)
    IN  /\ o \in Nat /\ Len(m) \in Nat
        /\ Offset(c, auth, n + 1) = o + Len(m)
        /\ \A i \in 1 .. Len(m) : m[i] = UnitAt(c, auth, o + i)

\* The messages lie in a row: those of the other protocols,
LEMMA OtherMessages ==
    ASSUME NEW c \in Client, NEW auth, c.proto # "socks5",
           NEW n \in Nat, n < Len(Script(c, auth))
    PROVE  /\ MessageAt(c, auth, n)
           /\ Len(Script(c, auth)) = IF c.proto = "http" THEN 1 ELSE 2
           /\ c.proto # "http" => /\ Script(c, auth)[1] = Handshake(c, auth)[1]
                                  /\ Script(c, auth)[2] = <<"payload">>
  <1> DEFINE L == Letters(c)
             P == <<"payload">>
             H == Handshake(c, auth)
             S == Script(c, auth)
             U(j) == UnitAt(c, auth, j)
             O(i) == Offset(c, auth, i)
  <1>1. H \in Seq(Seq(L)) /\ Len(H) = 1
    BY HandshakeType
  <1>2. "payload" \in L
    BY DEF Letters
  <1>3. S \in Seq(Seq(L))
    BY ScriptType
  <1>4. /\ c.proto = "http" => S = <<H[1] \o <<"body">>>>
        /\ c.proto # "http" => S = Append(H, P)
    BY DEF Script
  <1>5. \A j : U(j) = IF j <= Len(S[1]) THEN S[1][j] ELSE "payload"
    BY Zenon DEF UnitAt
  <1>6. O(0) = 0
    BY DEF Offset
  <1>7. O(1) = Len(S[1]) + 0 /\ O(2) = Len(S[1]) + 1
    <2>1. 1 # 0 /\ 2 # 0 /\ 2 # 1
      OBVIOUS
    <2> QED
      BY <2>1, Zenon DEF Offset
  <1>8. n < Len(S) /\ n \in Nat
    OBVIOUS
  <1> HIDE DEF L, H, S, U, O
  <1>9. P \in Seq(L) /\ Len(P) = 1 /\ P[1] = "payload"
    BY <1>2
  <1>10. c.proto = "http" => Len(S) = 1
    <2> DEFINE x == H[1] \o <<"body">>
    <2>1. c.proto = "http" => S = <<x>>
      BY <1>4
    <2> HIDE DEF x
    <2> QED
      BY <2>1
  <1> HIDE DEF P
  <1>11. c.proto # "http" => Len(S) = 2 /\ S[1] = H[1] /\ S[2] = P
    <2>1. c.proto # "http" => /\ Len(S) = Len(H) + 1 /\ S[Len(H) + 1] = P
                              /\ \A i \in 1 .. Len(H) : S[i] = H[i]
      <3>1. H \in Seq(Seq(L)) /\ P \in Seq(L)
        BY <1>1, <1>9
      <3> QED
        BY <1>4, <3>1, AppendProperties
    <2> QED
      BY <1>1, <2>1
  <1>12. Len(S) \in {1, 2} /\ S[1] \in Seq(L)
    <2>1. Len(S) \in {1, 2}
      BY <1>10, <1>11
    <2> QED
      BY <1>3, <2>1
  <1>13. Len(S[1]) \in Nat
    BY <1>12, LenProperties
  <1>14. n = 0 \/ (n = 1 /\ c.proto # "http")
    <2>1. c.proto # "http" => Len(S) = 2
      BY <1>11, Zenon
    <2>4. \A x \in Nat : (x < 1 => x = 0) /\ (x < 2 => x = 0 \/ x = 1)
      OBVIOUS
    <2>2. CASE c.proto = "http"
      <3>1. n < 1
        BY <1>8, <1>10, <2>2, Zenon
      <3> QED
        BY <1>8, <2>4, <3>1, Zenon
    <2>3. CASE c.proto # "http"
      <3>1. n < 2
        BY <1>8, <2>1, <2>3, Zenon
      <3> QED
        BY <1>8, <2>3, <2>4, <3>1, Zenon
    <2> QED
      BY <2>2, <2>3
  <1>15. CASE n = 0
    <2>1. O(1) = 0 + Len(S[1])
      BY <1>7, <1>13
    <2>2. \A i \in 1 .. Len(S[1]) : S[1][i] = U(0 + i)
      BY <1>5, <1>13
    <2>3. 0 + 1 = 1 /\ 0 \in Nat
      OBVIOUS
    <2>4. MessageAt(c, auth, 0)
      BY <1>6, <1>13, <2>1, <2>2, <2>3, Zenon DEF MessageAt, S, U, O
    <2> QED
      BY <1>10, <1>11, <1>15, <2>4 DEF S, H, P
  <1>16. CASE n = 1 /\ c.proto # "http"
    <2>1. Len(S[2]) = 1 /\ S[2][1] = "payload"
      BY <1>9, <1>11, <1>16
    <2>2. O(1) \in Nat /\ O(2) = O(1) + 1 /\ O(1) = Len(S[1])
      BY <1>7, <1>13
    <2>3. U(O(1) + 1) = "payload"
      <3>1. ~(O(1) + 1 <= Len(S[1]))
        BY <2>2
      <3> QED
        BY <1>5, <3>1, Zenon
    <2>4. \A i \in 1 .. 1 : i = 1
      OBVIOUS
    <2>5. \A i \in 1 .. Len(S[2]) : S[2][i] = U(O(1) + i)
      BY <2>1, <2>3, <2>4, Zenon
    <2>6. 1 + 1 = 2 /\ 1 \in Nat
      OBVIOUS
    <2>7. MessageAt(c, auth, 1)
      BY <2>1, <2>2, <2>5, <2>6, Zenon DEF MessageAt, S, U, O
    <2> QED
      BY <1>11, <1>16, <2>7 DEF S, H, P
  <1> QED
    BY <1>14, <1>15, <1>16

\* and those of SOCKS5.
LEMMA Socks5Messages ==
    ASSUME NEW c \in Client, NEW auth \in BOOLEAN, c.proto = "socks5",
           NEW n \in Nat, n < Len(Script(c, auth))
    PROVE  /\ MessageAt(c, auth, n)
           /\ Len(Script(c, auth)) = Third(auth) + 1
  <1> DEFINE S == Script(c, auth)
             U(j) == UnitAt(c, auth, j)
             O(i) == Offset(c, auth, i)
             V(j) == Unit5(c, auth, j)
             e == Over5(c, auth)
             t == Third(auth)
             r == Begun(auth)
  <1>1. /\ Len(S) = t + 1
        /\ IsGreeting(S[1]) /\ (auth => IsLogin(S[2]))
        /\ IsRequest(c, S[t]) /\ IsPayload(S[t + 1])
    BY Socks5Script
  <1>2. \A j : U(j) = V(j)
    BY Zenon DEF UnitAt
  <1>3. /\ V(1) = "05" /\ V(2) = "methods"
        /\ auth => V(3) = "01" /\ V(4) = "name and password"
        /\ V(r + 1) = "05" /\ V(r + 2) = c.command /\ V(r + 3) = c.form
        /\ c.form # "03" => V(r + 4) = "ip"
        /\ c.form = "03" => V(r + 4) = "length" /\ V(r + 5) = "na" /\ V(r + 6) = "me"
        /\ V(e + 1) = "payload"
    BY Units5, Zenon
  <1>4. /\ r \in {2, 4} /\ e \in Nat /\ t \in {2, 3}
        /\ (auth => r = 4 /\ t = 3) /\ (~auth => r = 2 /\ t = 2)
        /\ (c.form = "03" => e = r + 6) /\ (c.form # "03" => e = r + 4)
    BY Begun5
  <1>5. \A i : O(i) = IF i = 0 THEN 0 ELSE IF i = 1 THEN 2 ELSE IF i < t THEN 4
                      ELSE e + (IF i = t THEN 0 ELSE 1)
    BY Zenon DEF Offset
  <1>6. n < Len(S) /\ n \in Nat /\ (auth \/ ~auth)
    OBVIOUS
  <1> HIDE DEF S, U, O, V, e, t, r
  <1>7. O(0) = 0 /\ O(1) = 2
    BY <1>5
  <1>8. auth => O(2) = 4
    BY <1>4, <1>5
  <1>9. O(t) = e /\ O(t + 1) = e + 1
    BY <1>4, <1>5
  <1>10. O(t - 1) = r
    BY <1>4, <1>7, <1>8
  <1>11. n = 0 \/ (n = 1 /\ auth) \/ n = t - 1 \/ n = t
    BY <1>1, <1>4, <1>6
  <1>12. MessageAt(c, auth, 0)
    <2>1. Len(S[1]) = 2 /\ S[1][1] = V(1) /\ S[1][2] = V(2)
      BY <1>1, <1>3, Zenon DEF IsGreeting
    <2>2. \A i \in 1 .. 2 : i = 1 \/ i = 2
      OBVIOUS
    <2>3. 0 + 1 = 1 /\ 0 + 2 = 2 /\ 0 \in Nat /\ 2 \in Nat
      OBVIOUS
    <2>4. \A i \in 1 .. Len(S[1]) : S[1][i] = U(0 + i)
      BY <1>2, <2>1, <2>2, <2>3, Zenon
    <2> QED
      BY <1>7, <2>1, <2>3, <2>4, Zenon DEF MessageAt, S, U, O
  <1>13. ASSUME auth PROVE MessageAt(c, auth, 1)
    <2>1. Len(S[2]) = 2 /\ S[2][1] = V(3) /\ S[2][2] = V(4)
      BY <1>1, <1>3, <1>13, Zenon DEF IsLogin
    <2>2. \A i \in 1 .. 2 : i = 1 \/ i = 2
      OBVIOUS
    <2>3. 2 + 1 = 3 /\ 2 + 2 = 4 /\ 2 \in Nat /\ 1 + 1 = 2
      OBVIOUS
    <2>4. \A i \in 1 .. Len(S[2]) : S[2][i] = U(2 + i)
      BY <1>2, <2>1, <2>2, <2>3, Zenon
    <2> QED
      BY <1>7, <1>8, <1>13, <2>1, <2>3, <2>4, Zenon DEF MessageAt, S, U, O
  <1>14. MessageAt(c, auth, t - 1)
    <2>1. S[t][1] = V(r + 1) /\ S[t][2] = V(r + 2) /\ S[t][3] = V(r + 3)
      BY <1>1, <1>3, Zenon DEF IsRequest
    <2>2. t - 1 + 1 = t /\ r \in Nat
      BY <1>4
    <2>3. /\ \A i \in 1 .. 6 : i = 1 \/ i = 2 \/ i = 3 \/ i = 4 \/ i = 5 \/ i = 6
          /\ \A i \in 1 .. 4 : i = 1 \/ i = 2 \/ i = 3 \/ i = 4
      OBVIOUS
    <2>4. CASE c.form = "03"
      <3>1. Len(S[t]) = 6 /\ S[t][4] = V(r + 4) /\ S[t][5] = V(r + 5) /\ S[t][6] = V(r + 6)
        BY <1>1, <1>3, <2>4, Zenon DEF IsRequest
      <3>2. \A i \in 1 .. Len(S[t]) : S[t][i] = U(r + i)
        BY <1>2, <2>1, <2>3, <3>1, Zenon
      <3>3. O(t) = r + Len(S[t]) /\ Len(S[t]) \in Nat
        BY <1>4, <1>9, <2>4, <3>1
      <3> QED
        BY <1>10, <2>2, <3>2, <3>3, Zenon DEF MessageAt, S, U, O
    <2>5. CASE c.form # "03"
      <3>1. Len(S[t]) = 4 /\ S[t][4] = V(r + 4)
        BY <1>1, <1>3, <2>5, Zenon DEF IsRequest
      <3>2. \A i \in 1 .. Len(S[t]) : S[t][i] = U(r + i)
        BY <1>2, <2>1, <2>3, <3>1, Zenon
      <3>3. O(t) = r + Len(S[t]) /\ Len(S[t]) \in Nat
        BY <1>4, <1>9, <2>5, <3>1
      <3> QED
        BY <1>10, <2>2, <3>2, <3>3, Zenon DEF MessageAt, S, U, O
    <2> QED
      BY <2>4, <2>5
  <1>15. MessageAt(c, auth, t)
    <2>1. Len(S[t + 1]) = 1 /\ S[t + 1][1] = V(e + 1)
      BY <1>1, <1>3, Zenon DEF IsPayload
    <2>2. \A i \in 1 .. 1 : i = 1
      OBVIOUS
    <2>3. \A i \in 1 .. Len(S[t + 1]) : S[t + 1][i] = U(e + i)
      BY <1>2, <2>1, <2>2, Zenon
    <2>4. e \in Nat /\ 1 \in Nat
      BY <1>4
    <2> QED
      BY <1>9, <2>1, <2>3, <2>4, Zenon DEF MessageAt, S, U, O
  <1> QED
    BY <1>1, <1>11, <1>12, <1>13, <1>14, <1>15 DEF S, t

-------------------------------------------------------------------------------
(* How much of it has arrived, and how much has been read *)

\* The inbox holds what the client sends from behind place k on, up to place m, and
\* while the client stays that is all it has sent.
InRow(k, m) ==
    /\ k <= m
    /\ Len(inbox) = m - k
    /\ \A i \in 1 .. m - k : inbox[i] = UnitAt(client, path.auth, k + i)
    /\ ~gone => m = Offset(client, path.auth, sent)

\* How much of what the client sends has been read, by what is waited for.
ReadUpTo(k) ==
    /\ wait = "first" => k = 0
    /\ wait \in {"route", "greeting"} \/ (wait \in Handling \cup {"open"} /\ client.proto # "socks5") =>
          Len(taken) = k /\ \A i \in 1 .. k : taken[i] = UnitAt(client, path.auth, i)
    /\ wait = "login" => path.auth /\ k >= 2
    /\ wait = "request" => k >= Begun(path.auth)
    /\ wait = "count" => k = Begun(path.auth) + 3 /\ client.form = "03"
    /\ wait = "host" => k = Begun(path.auth) + 4 /\ client.form = "03"
    /\ wait = "ip" => k = Begun(path.auth) + 3 /\ client.form # "03"
    /\ wait = "chain" \/ (wait = "open" /\ client.proto = "socks5") =>
          k = Over5(client, path.auth) /\ asked = Meant(client)

Flow == wait # "failed" => \E k, m \in Nat : InRow(k, m) /\ ReadUpTo(k)

\* So each message has its place in the row.
LEMMA MessageIs ==
    ASSUME ServedInv, NEW n \in Nat, n < Len(script)
    PROVE  MessageAt(client, path.auth, n)
  <1>1. client \in Client /\ path.auth \in BOOLEAN
    BY CaseType DEF Path
  <1>2. n < Len(Script(client, path.auth))
    BY DEF script
  <1>3. CASE client.proto = "socks5"
    BY <1>1, <1>2, <1>3, Socks5Messages
  <1>4. CASE client.proto # "socks5"
    BY <1>1, <1>2, <1>4, OtherMessages
  <1> QED
    BY <1>3, <1>4

\* What arrives goes behind what is there.
LEMMA RowGrows ==
    ASSUME NEW k \in Nat, NEW m \in Nat, InRow(k, m), inbox \in Seq(Letters(client)),
           NEW x, x \in Seq(Letters(client)), NEW e \in Nat, e = m + Len(x),
           \A i \in 1 .. Len(x) : x[i] = UnitAt(client, path.auth, m + i),
           inbox' = inbox \o x, UNCHANGED <<client, path>>,
           ~gone' => e = Offset(client, path.auth, sent')
    PROVE  InRow(k, e)'
  <1> DEFINE U(i) == UnitAt(client, path.auth, i)
             d == m - k
  <1>1. k <= m /\ Len(inbox) = d /\ \A i \in 1 .. d : inbox[i] = U(k + i)
    BY Zenon DEF InRow
  <1>2. Len(x) \in Nat /\ d \in Nat
    BY <1>1, LenProperties
  <1>3. /\ Len(inbox') = Len(inbox) + Len(x)
        /\ \A i \in 1 .. Len(inbox) : inbox'[i] = inbox[i]
        /\ \A i \in 1 .. Len(x) : inbox'[Len(inbox) + i] = x[i]
    BY Joined
  <1>4. \A i \in 1 .. Len(x) : x[i] = U(m + i)
    BY Zenon
  <1>5. k <= e /\ Len(inbox') = e - k /\ e - k = d + Len(x)
    BY <1>1, <1>2, <1>3
  <1> HIDE DEF U
  <1>6. ASSUME NEW i \in 1 .. e - k PROVE inbox'[i] = U(k + i)
    <2>1. CASE i <= d
      <3>1. i \in 1 .. d
        BY <1>2, <2>1
      <3> HIDE DEF d
      <3> QED
        BY <1>1, <1>3, <3>1
    <2>2. CASE ~(i <= d)
      <3> DEFINE j == i - d
      <3>1. j \in 1 .. Len(x) /\ i = d + j /\ m + j = k + i
        BY <1>2, <1>5, <2>2
      <3> HIDE DEF j, d
      <3>2. inbox'[i] = x[j]
        BY <1>1, <1>3, <3>1
      <3>3. x[j] = U(m + j)
        BY <1>4, <3>1
      <3> QED
        BY <3>1, <3>2, <3>3
    <2> QED
      BY <2>1, <2>2
  <1> QED
    BY <1>5, <1>6 DEF InRow, U

\* A read takes away the first units.
LEMMA RowRead ==
    ASSUME NEW k \in Nat, NEW m \in Nat, InRow(k, m), inbox \in Seq(Letters(client)),
           NEW n \in Nat, n <= Len(inbox), inbox' = SubSeq(inbox, n + 1, Len(inbox)),
           UNCHANGED <<client, path, sent, gone>>
    PROVE  /\ InRow(k + n, m)' /\ k + n \in Nat
           /\ Len(SubSeq(inbox, 1, n)) = n
           /\ \A i \in 1 .. n : /\ SubSeq(inbox, 1, n)[i] = UnitAt(client, path.auth, k + i)
                                /\ inbox[i] = UnitAt(client, path.auth, k + i)
  <1> DEFINE U(i) == UnitAt(client, path.auth, i)
             d == m - k
             rest == SubSeq(inbox, n + 1, Len(inbox))
             part == SubSeq(inbox, 1, n)
  <1>1. k <= m /\ Len(inbox) = d /\ \A i \in 1 .. d : inbox[i] = U(k + i)
    BY Zenon DEF InRow
  <1>2. d \in Nat /\ n <= d
    BY <1>1
  <1>3. /\ Len(rest) = Len(inbox) - (n + 1) + 1
        /\ \A i \in 1 .. Len(inbox) - (n + 1) + 1 : rest[i] = inbox[n + 1 + i - 1]
    <2>1. n + 1 \in Nat /\ Len(inbox) \in Nat /\ 1 <= n + 1 /\ n + 1 <= Len(inbox) + 1
      BY <1>1, <1>2
    <2> QED
      BY <2>1, Piece
  <1>4. Len(part) = n - 1 + 1 /\ \A i \in 1 .. n - 1 + 1 : part[i] = inbox[1 + i - 1]
    BY Piece
  <1>5. inbox' = rest
    OBVIOUS
  <1> HIDE DEF U, rest, part
  <1>6. \A i \in 1 .. n : inbox[i] = U(k + i)
    BY <1>1, <1>2
  <1>7. Len(part) = n /\ \A i \in 1 .. n : part[i] = inbox[i]
    <2>1. n - 1 + 1 = n
      OBVIOUS
    <2>2. \A i \in 1 .. n : 1 + i - 1 = i
      OBVIOUS
    <2> QED
      BY <1>4, <2>1, <2>2
  <1>8. k + n \in Nat /\ k + n <= m /\ Len(rest) = m - (k + n)
    BY <1>1, <1>2, <1>3
  <1>9. ASSUME NEW i \in 1 .. m - (k + n) PROVE rest[i] = U(k + n + i)
    <2>1. i \in 1 .. Len(inbox) - (n + 1) + 1 /\ n + 1 + i - 1 = n + i /\ n + i \in 1 .. d
          /\ k + (n + i) = k + n + i
      BY <1>1, <1>2
    <2>2. rest[i] = inbox[n + i]
      BY <1>3, <2>1
    <2>3. inbox[n + i] = U(k + (n + i))
      BY <1>1, <2>1
    <2> QED
      BY <2>1, <2>2, <2>3
  <1>10. ~gone => m = Offset(client, path.auth, sent)
    BY Zenon DEF InRow
  <1>11. InRow(k + n, m)'
    BY <1>5, <1>8, <1>9, <1>10 DEF InRow, U
  <1> QED
    BY <1>6, <1>7, <1>8, <1>11 DEF part, U

\* Steps that change nothing of it.
LEMMA RowStays ==
    ASSUME NEW k \in Nat, NEW m \in Nat, InRow(k, m),
           UNCHANGED <<client, path, sent, gone, inbox>>
    PROVE  InRow(k, m)'
  BY Zenon DEF InRow

\* Phases in which as much has been read.
LEMMA ReadStays ==
    ASSUME NEW k \in Nat, ReadUpTo(k), UNCHANGED <<client, path, taken, asked, wait>>
    PROVE  ReadUpTo(k)'
  BY Zenon DEF ReadUpTo, Meant

\* A step of a handler, or towards it, that reads nothing.
LEMMA FlowOn ==
    ASSUME Flow, wait # "failed", UNCHANGED <<client, path, sent, gone, inbox, taken>>,
           \/ wait' = wait /\ asked' = asked
           \/ wait' = "failed"
           \/ /\ client.proto # "socks5" /\ wait \in {"route"} \cup Handling
              /\ wait' \in Handling \cup {"open"}
    PROVE  Flow'
  <1>1. PICK k \in Nat, m \in Nat : InRow(k, m) /\ ReadUpTo(k)
    BY Zenon DEF Flow
  <1>2. InRow(k, m)'
    BY <1>1, RowStays
  <1>3. CASE wait' = wait /\ asked' = asked
    <2>1. ReadUpTo(k)'
      BY <1>1, <1>3, ReadStays
    <2> QED
      BY <1>2, <2>1, Zenon DEF Flow
  <1>4. CASE wait' = "failed"
    BY <1>4 DEF Flow
  <1>5. CASE /\ client.proto # "socks5" /\ wait \in {"route"} \cup Handling
             /\ wait' \in Handling \cup {"open"}
    <2>1. Len(taken) = k /\ \A i \in 1 .. k : taken[i] = UnitAt(client, path.auth, i)
      BY <1>1, <1>5, Zenon DEF ReadUpTo
    <2>2. wait' \notin {"first", "route", "greeting", "login", "request", "count", "host", "ip", "chain"}
      BY <1>5 DEF Handling, Replies
    <2>3. ReadUpTo(k)'
      BY <1>5, <2>1, <2>2 DEF ReadUpTo
    <2> QED
      BY <1>2, <2>3, Zenon DEF Flow
  <1> QED
    BY <1>3, <1>4, <1>5

\* The client sends its next message,
LEMMA FlowSends ==
    ASSUME ServedInv, Flow, Sends
    PROVE  Flow'
  <1> DEFINE x == script[sent + 1]
  <1>1. /\ sent \in Nat /\ sent < Len(script) /\ Len(script) \in Nat /\ ~gone
        /\ inbox' = inbox \o x /\ sent' = sent + 1
        /\ UNCHANGED <<client, path, taken, wait, asked>> /\ wait # "failed"
    <2>1. Len(script) \in Nat
      BY CaseType
    <2> QED
      BY <2>1 DEF Sends, MaySend, ServedInv, TypeOK, fixed, Outcomes
  <1>2. PICK k \in Nat, m \in Nat : InRow(k, m) /\ ReadUpTo(k)
    BY <1>1, Zenon DEF Flow
  <1>3. sent + 1 \in 1 .. Len(script)
    BY <1>1
  <1>4. x \in Seq(Letters(client)) /\ inbox \in Seq(Letters(client))
    BY <1>3, CaseType DEF ServedInv, Recognised
  <1>5. MessageAt(client, path.auth, sent)
    BY <1>1, MessageIs
  <1>6. m = Offset(client, path.auth, sent)
    BY <1>1, <1>2, Zenon DEF InRow
  <1>7. /\ \A i \in 1 .. Len(x) : x[i] = UnitAt(client, path.auth, m + i)
        /\ m + Len(x) = Offset(client, path.auth, sent')
    BY <1>1, <1>5, <1>6, Zenon DEF MessageAt, script
  <1>8. Len(x) \in Nat
    BY <1>4, LenProperties
  <1> HIDE DEF x
  <1>11. PICK e \in Nat : e = m + Len(x)
    BY <1>8
  <1>9. InRow(k, e)'
    BY <1>1, <1>2, <1>4, <1>7, <1>11, RowGrows
  <1>10. ReadUpTo(k)'
    BY <1>1, <1>2, ReadStays
  <1> QED
    BY <1>9, <1>10, Zenon DEF Flow

\* or leaves, in the middle of one perhaps.
LEMMA FlowLeaves ==
    ASSUME ServedInv, Flow, Leaves
    PROVE  Flow'
  <1>1. /\ ~gone /\ gone' = TRUE
        /\ UNCHANGED <<client, path, sent, taken, wait, asked>> /\ wait # "failed"
    BY DEF Leaves, fixed, Outcomes
  <1>2. PICK k \in Nat, m \in Nat : InRow(k, m) /\ ReadUpTo(k)
    BY <1>1, Zenon DEF Flow
  <1>3. ReadUpTo(k)'
    BY <1>1, <1>2, ReadStays
  <1>4. CASE inbox' = inbox
    <2>1. InRow(k, m)'
      BY <1>1, <1>2, <1>4, Zenon DEF InRow
    <2> QED
      BY <1>3, <2>1, Zenon DEF Flow
  <1>5. ASSUME MaySend, NEW n \in 1 .. Len(script[sent + 1]) - 1,
               inbox' = inbox \o SubSeq(script[sent + 1], 1, n)
        PROVE  Flow'
    <2> DEFINE whole == script[sent + 1]
               x == SubSeq(whole, 1, n)
    <2>1. sent \in Nat /\ sent < Len(script)
      <3>1. Len(script) \in Nat
        BY CaseType
      <3> QED
        BY <1>5, <3>1 DEF MaySend, ServedInv, TypeOK
    <2>2. sent + 1 \in 1 .. Len(script)
      <3>1. Len(script) \in Nat
        BY CaseType
      <3> QED
        BY <2>1, <3>1
    <2>3. whole \in Seq(Letters(client)) /\ inbox \in Seq(Letters(client))
      BY <2>2, CaseType DEF ServedInv, Recognised
    <2>4. MessageAt(client, path.auth, sent)
      BY <2>1, MessageIs
    <2>5. m = Offset(client, path.auth, sent)
      BY <1>1, <1>2, Zenon DEF InRow
    <2>6. \A i \in 1 .. Len(whole) : whole[i] = UnitAt(client, path.auth, m + i)
      BY <2>4, <2>5, Zenon DEF MessageAt, script
    <2>7. inbox' = inbox \o x
      BY <1>5
    <2>8. Len(whole) \in Nat /\ n \in 1 .. Len(whole) - 1
      BY <1>5, <2>3
    <2> HIDE DEF whole
    <2>9. /\ x \in Seq(Letters(client)) /\ Len(x) = n - 1 + 1
          /\ \A i \in 1 .. n - 1 + 1 : x[i] = whole[1 + i - 1]
      <3>1. n \in Nat /\ 1 <= n + 1 /\ n <= Len(whole)
        BY <2>8
      <3> QED
        BY <2>3, <3>1, Piece
    <2> HIDE DEF x
    <2>10. Len(x) = n /\ Len(x) \in Nat
      BY <2>8, <2>9
    <2>11. \A i \in 1 .. Len(x) : x[i] = UnitAt(client, path.auth, m + i)
      <3> SUFFICES ASSUME NEW i \in 1 .. Len(x) PROVE x[i] = UnitAt(client, path.auth, m + i)
        OBVIOUS
      <3>1. i \in 1 .. n - 1 + 1 /\ 1 + i - 1 = i /\ i \in 1 .. Len(whole)
        BY <2>8, <2>10
      <3>2. x[i] = whole[i]
        BY <2>9, <3>1
      <3> QED
        BY <2>6, <3>1, <3>2, Zenon
    <2>12. PICK e \in Nat : e = m + Len(x)
      BY <2>10
    <2>13. InRow(k, e)'
      BY <1>1, <1>2, <2>3, <2>7, <2>9, <2>11, <2>12, RowGrows
    <2> QED
      BY <1>3, <2>13, Zenon DEF Flow
  <1> QED
    BY <1>4, <1>5 DEF Leaves

\* The first read takes what has arrived,
LEMMA FlowFirst ==
    ASSUME ServedInv, Flow, FirstRead
    PROVE  Flow'
  <1>1. PICK n \in 1 .. Len(inbox) :
           /\ Receives("first", n) /\ taken' = SubSeq(inbox, 1, n)
           /\ IF Detected(taken') = "other" THEN wait' = "failed" ELSE wait' = "route"
    BY DEF FirstRead
  <1>2. /\ wait = "first" /\ inbox' = SubSeq(inbox, n + 1, Len(inbox))
        /\ UNCHANGED <<client, path, sent, gone>>
    BY <1>1 DEF Receives, fixed
  <1>3. PICK k \in Nat, m \in Nat : InRow(k, m) /\ ReadUpTo(k)
    BY <1>2, Zenon DEF Flow
  <1>4. k = 0
    BY <1>2, <1>3, Zenon DEF ReadUpTo
  <1>5. inbox \in Seq(Letters(client)) /\ n \in Nat /\ n <= Len(inbox)
    <2>1. inbox \in Seq(Letters(client))
      BY DEF ServedInv, Recognised
    <2>2. Len(inbox) \in Nat
      BY <2>1, LenProperties
    <2> QED
      BY <2>1, <2>2
  <1>6. /\ InRow(k + n, m)' /\ k + n \in Nat /\ Len(SubSeq(inbox, 1, n)) = n
        /\ \A i \in 1 .. n : SubSeq(inbox, 1, n)[i] = UnitAt(client, path.auth, k + i)
    BY <1>2, <1>3, <1>5, RowRead
  <1>7. k + n = n /\ \A i \in 1 .. n : k + i = i
    BY <1>4, <1>5
  <1>8. Len(taken') = k + n /\ \A i \in 1 .. k + n : taken'[i] = UnitAt(client', path'.auth, i)
    BY <1>1, <1>2, <1>6, <1>7, Zenon
  <1>9. CASE wait' = "failed"
    BY <1>9 DEF Flow
  <1>10. CASE wait' = "route"
    <2>1. wait' \notin {"first", "login", "request", "count", "host", "ip", "chain", "open"}
      BY <1>10
    <2>2. ReadUpTo(k + n)'
      BY <1>8, <2>1 DEF ReadUpTo
    <2> QED
      BY <1>6, <2>2, Zenon DEF Flow
  <1> QED
    BY <1>1, <1>9, <1>10

\* While nothing is read, only what is said of the place in the row changes.
LEMMA FlowHere ==
    ASSUME NEW k \in Nat, NEW m \in Nat, InRow(k, m),
           UNCHANGED <<client, path, sent, gone, inbox>>,
           wait' = "failed" \/ ReadUpTo(k)'
    PROVE  Flow'
  <1>1. InRow(k, m)'
    BY RowStays
  <1> QED
    BY <1>1, Zenon DEF Flow

\* and the protocol is detected on it.
LEMMA FlowRoutes ==
    ASSUME ServedInv, Flow, Routes
    PROVE  Flow'
  <1>1. /\ wait = "route" /\ wait' = IF Detected(taken) = "socks5" THEN "greeting" ELSE "account"
        /\ UNCHANGED <<client, path, sent, gone, inbox, taken>>
    BY DEF Routes, fixed, stream
  <1>2. Detected(taken) = client.proto
    BY <1>1, DetectedIs
  <1>3. PICK k \in Nat, m \in Nat : InRow(k, m) /\ ReadUpTo(k)
    BY <1>1, Zenon DEF Flow
  <1>4. Len(taken) = k /\ \A i \in 1 .. k : taken[i] = UnitAt(client, path.auth, i)
    BY <1>1, <1>3, Zenon DEF ReadUpTo
  <1>5. wait' \notin {"first", "login", "request", "count", "host", "ip", "chain", "open"}
    BY <1>1
  <1>6. ReadUpTo(k)'
    BY <1>1, <1>4, <1>5 DEF ReadUpTo
  <1> QED
    BY <1>1, <1>3, <1>6, FlowHere

\* The greeting is the first read of a SOCKS5 client,
LEMMA FlowGreets ==
    ASSUME ServedInv, Flow, Greets
    PROVE  Flow'
  <1>1. /\ wait = "greeting" /\ UNCHANGED <<client, path, sent, gone, inbox>>
        /\ \/ wait' = "failed"
           \/ ~(Len(taken) < 2) /\ wait' = IF path.auth THEN "login" ELSE "request"
    BY DEF Greets, fixed, stream
  <1>2. PICK k \in Nat, m \in Nat : InRow(k, m) /\ ReadUpTo(k)
    BY <1>1, Zenon DEF Flow
  <1>3. Len(taken) = k
    BY <1>1, <1>2, Zenon DEF ReadUpTo
  <1>4. CASE wait' = "failed"
    BY <1>1, <1>2, <1>4, FlowHere
  <1>5. CASE wait' # "failed"
    <2>1. k >= 2
      BY <1>1, <1>3, <1>5
    <2>2. CASE path.auth
      <3>1. wait' = "login" /\ path'.auth
        BY <1>1, <1>5, <2>2
      <3>2. ReadUpTo(k)'
        BY <2>1, <3>1 DEF ReadUpTo, Handling, Replies
      <3> QED
        BY <1>1, <1>2, <3>2, FlowHere
    <2>3. CASE ~path.auth
      <3>1. wait' = "request" /\ ~path'.auth
        BY <1>1, <1>5, <2>3
      <3>2. Begun(path'.auth) = 2
        BY <3>1 DEF Begun
      <3>3. ReadUpTo(k)'
        BY <2>1, <3>1, <3>2 DEF ReadUpTo, Handling, Replies
      <3> QED
        BY <1>1, <1>2, <3>3, FlowHere
    <2> QED
      BY <2>2, <2>3
  <1> QED
    BY <1>4, <1>5

\* The SOCKS5 dialogue reads what the client sends, in a row.
LEMMA FlowReads ==
    ASSUME ServedInv, Flow, NEW phase \in Names5, NEW n \in Nat, Receives(phase, n)
    PROVE  /\ client.proto = "socks5" /\ client \in Client /\ client' = client /\ path' = path
           /\ \E k \in Nat, m \in Nat, e \in Nat :
                 /\ e = k + n /\ ReadUpTo(k) /\ InRow(e, m)'
                 /\ Len(SubSeq(inbox, 1, n)) = n
                 /\ \A i \in 1 .. n :
                       /\ SubSeq(inbox, 1, n)[i] = Unit5(client, path.auth, k + i)
                       /\ inbox[i] = Unit5(client, path.auth, k + i)
  <1>1. /\ wait = phase /\ n <= Len(inbox) /\ inbox' = SubSeq(inbox, n + 1, Len(inbox))
        /\ UNCHANGED <<client, path, sent, gone>>
    BY DEF Receives, fixed
  <1>2. client.proto = "socks5" /\ client \in Client
    BY <1>1, CaseType DEF ServedInv, Placed
  <1>3. wait # "failed"
    BY <1>1 DEF Names5
  <1>4. PICK k \in Nat, m \in Nat : InRow(k, m) /\ ReadUpTo(k)
    BY <1>3, Zenon DEF Flow
  <1>5. inbox \in Seq(Letters(client))
    BY DEF ServedInv, Recognised
  <1>6. /\ InRow(k + n, m)' /\ k + n \in Nat
        /\ Len(SubSeq(inbox, 1, n)) = n
        /\ \A i \in 1 .. n : /\ SubSeq(inbox, 1, n)[i] = UnitAt(client, path.auth, k + i)
                             /\ inbox[i] = UnitAt(client, path.auth, k + i)
    BY <1>1, <1>4, <1>5, RowRead
  <1>7. \A i : UnitAt(client, path.auth, i) = Unit5(client, path.auth, i)
    BY <1>2 DEF UnitAt
  <1>8. PICK e \in Nat : e = k + n
    BY <1>6
  <1>9. InRow(e, m)'
    BY <1>6, <1>8
  <1>10. \A i \in 1 .. n :
            /\ SubSeq(inbox, 1, n)[i] = Unit5(client, path.auth, k + i)
            /\ inbox[i] = Unit5(client, path.auth, k + i)
    BY <1>6, <1>7, Zenon
  <1> QED
    BY <1>1, <1>2, <1>4, <1>6, <1>8, <1>9, <1>10, Zenon

\* its login is behind it,
LEMMA FlowLogsIn ==
    ASSUME ServedInv, Flow, LogsIn
    PROVE  Flow'
  <1>1. PICK n \in 1 .. Len(inbox) :
           Receives("login", n) /\ (wait' = "failed" \/ (n >= 2 /\ wait' = "request"))
    BY DEF LogsIn
  <1>2. n \in Nat
    <2>1. inbox \in Seq(Letters(client))
      BY DEF ServedInv, Recognised
    <2> QED
      BY <2>1
  <1>3. "login" \in Names5
    BY DEF Names5
  <1>4. /\ client' = client /\ path' = path
        /\ \E k \in Nat, m \in Nat, e \in Nat : e = k + n /\ ReadUpTo(k) /\ InRow(e, m)'
    BY <1>1, <1>2, <1>3, FlowReads
  <1>5. PICK k \in Nat, m \in Nat, e \in Nat : e = k + n /\ ReadUpTo(k) /\ InRow(e, m)'
    BY <1>4
  <1>6. wait = "login"
    BY <1>1 DEF Receives
  <1>7. path.auth /\ k >= 2
    BY <1>5, <1>6, Zenon DEF ReadUpTo
  <1>8. CASE wait' = "failed"
    BY <1>8 DEF Flow
  <1>9. CASE wait' = "request" /\ n >= 2
    <2>1. Begun(path'.auth) = 4
      BY <1>4, <1>7 DEF Begun
    <2>2. e >= Begun(path'.auth)
      BY <1>2, <1>5, <1>7, <1>9, <2>1
    <2>3. ReadUpTo(e)'
      BY <1>9, <2>2 DEF ReadUpTo, Handling, Replies
    <2> QED
      BY <1>5, <2>3, Zenon DEF Flow
  <1> QED
    BY <1>1, <1>8, <1>9

\* What is read in place of a request is taken for one only where one begins.
LEMMA FlowReadsRequest ==
    ASSUME ServedInv, Flow, ReadsRequest
    PROVE  Flow'
  <1> DEFINE r == Begun(path.auth)
  <1>1. /\ Receives("request", 3)
        /\ \/ wait' = "failed"
           \/ inbox[1] = "05" /\ inbox[3] \in {"01", "04"} /\ wait' = "ip"
           \/ inbox[1] = "05" /\ inbox[3] = "03" /\ wait' = "count"
    BY DEF ReadsRequest
  <1>2. "request" \in Names5 /\ 3 \in Nat
    BY DEF Names5
  <1>3. /\ client.proto = "socks5" /\ client \in Client /\ client' = client /\ path' = path
        /\ \E k \in Nat, m \in Nat, e \in Nat :
              /\ e = k + 3 /\ ReadUpTo(k) /\ InRow(e, m)'
              /\ \A i \in 1 .. 3 : inbox[i] = Unit5(client, path.auth, k + i)
    BY <1>1, <1>2, FlowReads
  <1>4. PICK k \in Nat, m \in Nat, e \in Nat :
              /\ e = k + 3 /\ ReadUpTo(k) /\ InRow(e, m)'
              /\ \A i \in 1 .. 3 : inbox[i] = Unit5(client, path.auth, k + i)
    BY <1>3
  <1>5. wait = "request"
    BY <1>1 DEF Receives
  <1>6. k >= r
    BY <1>4, <1>5, Zenon DEF ReadUpTo
  <1>7. CASE wait' = "failed"
    BY <1>7 DEF Flow
  <1>8. CASE inbox[1] = "05" /\ wait' # "failed"
    <2>1. 1 \in 1 .. 3 /\ 3 \in 1 .. 3
      OBVIOUS
    <2>2. Unit5(client, path.auth, k + 1) = "05" /\ inbox[3] = Unit5(client, path.auth, k + 3)
      BY <1>4, <1>8, <2>1, Zenon
    <2>3. k = r
      BY <1>3, <1>6, <2>2, OneVersion
    <2>4. inbox[3] = client.form
      BY <2>2, <2>3, Units5, Zenon
    <2>5. e = Begun(path'.auth) + 3
      BY <1>3, <1>4, <2>3
    <2>6. CASE wait' = "count"
      <3>1. client'.form = "03"
        BY <1>1, <1>3, <2>4, <2>6
      <3>2. ReadUpTo(e)'
        BY <2>5, <2>6, <3>1 DEF ReadUpTo, Handling, Replies
      <3> QED
        BY <1>4, <3>2, Zenon DEF Flow
    <2>7. CASE wait' = "ip"
      <3>1. client'.form # "03"
        BY <1>1, <1>3, <2>4, <2>7
      <3>2. ReadUpTo(e)'
        BY <2>5, <2>7, <3>1 DEF ReadUpTo, Handling, Replies
      <3> QED
        BY <1>4, <3>2, Zenon DEF Flow
    <2> QED
      BY <1>1, <1>8, <2>6, <2>7
  <1> QED
    BY <1>1, <1>7, <1>8

\* the length of its name in the request behind both,
LEMMA FlowReadsCount ==
    ASSUME ServedInv, Flow, ReadsCount
    PROVE  Flow'
  <1>1. Receives("count", 1) /\ wait' = "host"
    BY DEF ReadsCount
  <1>2. "count" \in Names5 /\ 1 \in Nat
    BY DEF Names5
  <1>3. /\ client' = client /\ path' = path
        /\ \E k \in Nat, m \in Nat, e \in Nat : e = k + 1 /\ ReadUpTo(k) /\ InRow(e, m)'
    BY <1>1, <1>2, FlowReads
  <1>4. PICK k \in Nat, m \in Nat, e \in Nat : e = k + 1 /\ ReadUpTo(k) /\ InRow(e, m)'
    BY <1>3
  <1>5. wait = "count"
    BY <1>1 DEF Receives
  <1>6. k = Begun(path.auth) + 3 /\ client.form = "03"
    BY <1>4, <1>5, Zenon DEF ReadUpTo
  <1>7. e = Begun(path'.auth) + 4 /\ client'.form = "03"
    BY <1>3, <1>4, <1>6, Begun5
  <1>8. ReadUpTo(e)'
    BY <1>1, <1>7 DEF ReadUpTo, Handling, Replies
  <1> QED
    BY <1>4, <1>8, Zenon DEF Flow

\* The name that is read is the one the client means, and the request ends with it.
LEMMA FlowReadsName ==
    ASSUME ServedInv, Flow, ReadsName("host", 2) \/ ReadsName("ip", 1)
    PROVE  Flow'
  <1> DEFINE r == Begun(path.auth)
             U(i) == Unit5(client, path.auth, i)
  <1>1. r \in Nat
    BY Begun5
  <1>2. CASE ReadsName("host", 2)
    <2> DEFINE x == SubSeq(inbox, 1, 2)
    <2>1. Receives("host", 2) /\ wait' = "chain" /\ asked' = x
      BY <1>2 DEF ReadsName
    <2>2. "host" \in Names5 /\ 2 \in Nat
      BY DEF Names5
    <2>3. /\ client.proto = "socks5" /\ client \in Client /\ client' = client /\ path' = path
          /\ \E k \in Nat, m \in Nat, e \in Nat :
                /\ e = k + 2 /\ ReadUpTo(k) /\ InRow(e, m)' /\ Len(x) = 2
                /\ \A i \in 1 .. 2 : x[i] = U(k + i)
      BY <2>1, <2>2, FlowReads
    <2>4. PICK k \in Nat, m \in Nat, e \in Nat :
                /\ e = k + 2 /\ ReadUpTo(k) /\ InRow(e, m)' /\ Len(x) = 2
                /\ \A i \in 1 .. 2 : x[i] = U(k + i)
      BY <2>3
    <2>5. wait = "host"
      BY <2>1 DEF Receives
    <2>6. k = r + 4 /\ client.form = "03"
      BY <2>4, <2>5, Zenon DEF ReadUpTo
    <2>7. U(r + 5) = "na" /\ U(r + 6) = "me"
      BY <2>6, Units5, Zenon
    <2>8. inbox \in Seq(Letters(client)) /\ Len(inbox) >= 2
      BY <2>1 DEF ServedInv, Recognised, Receives
    <2>9. x \in Seq(Letters(client))
      BY <2>8
    <2> HIDE DEF x, U, r
    <2>10. k + 1 = r + 5 /\ k + 2 = r + 6 /\ 1 \in 1 .. 2 /\ 2 \in 1 .. 2
      BY <1>1, <2>6
    <2>11. x[1] = "na" /\ x[2] = "me"
      BY <2>4, <2>7, <2>10, Zenon
    <2>12. x = <<"na", "me">>
      BY <2>4, <2>9, <2>11
    <2>13. Meant(client) = Name
      BY <2>3, <2>6 DEF Meant
    <2>14. asked' = Meant(client')
      BY <2>1, <2>3, <2>12, <2>13 DEF Name
    <2>15. e = Over5(client', path'.auth)
      <3>1. Over5(client, path.auth) = r + 6
        BY <2>6, Begun5 DEF r
      <3>2. e = r + 6
        BY <2>4, <2>10
      <3> QED
        BY <2>3, <3>1, <3>2
    <2>16. ReadUpTo(e)'
      BY <2>1, <2>14, <2>15 DEF ReadUpTo, Handling, Replies
    <2> QED
      BY <2>4, <2>16, Zenon DEF Flow
  <1>3. CASE ReadsName("ip", 1)
    <2> DEFINE x == SubSeq(inbox, 1, 1)
    <2>1. Receives("ip", 1) /\ wait' = "chain" /\ asked' = x
      BY <1>3 DEF ReadsName
    <2>2. "ip" \in Names5 /\ 1 \in Nat
      BY DEF Names5
    <2>3. /\ client.proto = "socks5" /\ client \in Client /\ client' = client /\ path' = path
          /\ \E k \in Nat, m \in Nat, e \in Nat :
                /\ e = k + 1 /\ ReadUpTo(k) /\ InRow(e, m)' /\ Len(x) = 1
                /\ \A i \in 1 .. 1 : x[i] = U(k + i)
      BY <2>1, <2>2, FlowReads
    <2>4. PICK k \in Nat, m \in Nat, e \in Nat :
                /\ e = k + 1 /\ ReadUpTo(k) /\ InRow(e, m)' /\ Len(x) = 1
                /\ \A i \in 1 .. 1 : x[i] = U(k + i)
      BY <2>3
    <2>5. wait = "ip"
      BY <2>1 DEF Receives
    <2>6. k = r + 3 /\ client.form # "03"
      BY <2>4, <2>5, Zenon DEF ReadUpTo
    <2>7. U(r + 4) = "ip"
      BY <2>6, Units5, Zenon
    <2>8. inbox \in Seq(Letters(client)) /\ Len(inbox) >= 1
      BY <2>1 DEF ServedInv, Recognised, Receives
    <2>9. x \in Seq(Letters(client))
      BY <2>8
    <2> HIDE DEF x, U, r
    <2>10. k + 1 = r + 4 /\ 1 \in 1 .. 1
      BY <1>1, <2>6
    <2>11. x[1] = "ip"
      BY <2>4, <2>7, <2>10, Zenon
    <2>12. x = <<"ip">>
      BY <2>4, <2>9, <2>11
    <2>13. Meant(client) = <<"ip">>
      BY <2>3, <2>6 DEF Meant
    <2>14. asked' = Meant(client')
      BY <2>1, <2>3, <2>12, <2>13
    <2>15. e = Over5(client', path'.auth)
      <3>1. Over5(client, path.auth) = r + 4
        BY <2>6, Begun5 DEF r
      <3>2. e = r + 4
        BY <2>4, <2>10
      <3> QED
        BY <2>3, <3>1, <3>2
    <2>16. ReadUpTo(e)'
      BY <2>1, <2>14, <2>15 DEF ReadUpTo, Handling, Replies
    <2> QED
      BY <2>4, <2>16, Zenon DEF Flow
  <1> QED
    BY <1>2, <1>3

\* and the relay starts when the request has been read.
LEMMA FlowSocks5Chain ==
    ASSUME ServedInv, Flow, Socks5Chain
    PROVE  Flow'
  <1>1. /\ wait = "chain" /\ wait' = "open" /\ asked' = asked
        /\ UNCHANGED <<client, path, sent, gone, inbox, taken>>
    BY DEF Socks5Chain, Tunnels, fixed, stream
  <1>2. client.proto = "socks5"
    BY <1>1 DEF ServedInv, Placed, Names5
  <1>3. PICK k \in Nat, m \in Nat : InRow(k, m) /\ ReadUpTo(k)
    BY <1>1, Zenon DEF Flow
  <1>4. k = Over5(client, path.auth) /\ asked = Meant(client)
    BY <1>1, <1>3, Zenon DEF ReadUpTo
  <1>5. asked' = Meant(client') /\ k = Over5(client', path'.auth) /\ client'.proto = "socks5"
    BY <1>1, <1>2, <1>4
  <1>6. ReadUpTo(k)'
    BY <1>1, <1>5 DEF ReadUpTo, Handling, Replies
  <1> QED
    BY <1>1, <1>3, <1>6, FlowHere

GivesUp == \/ ClientIsGone \/ RequestIsCut \/ NothingMatches \/ IsRefused \/ ChainFails
           \/ FirstReadTimesOut \/ UpstreamIsDown \/ Socks4Rejects
Opening4 == \/ HandleSocks4Chain \/ HandleHttpsChain \/ HandleHttpChain
            \/ Socks4ToHttp \/ Socks4ToSocks4 \/ Socks4ToSocks5
            \/ HttpToHttp \/ HttpToSocks4 \/ HttpToSocks5
            \/ HttpsToHttp \/ HttpsToSocks4 \/ HttpsToSocks5
Closing4 == \/ Socks4Converses \/ HttpConverses \/ HttpsConverses
            \/ Socks4Forwards \/ HttpsForwards \/ UpstreamBreaks
            \/ Socks4Answers \/ HttpAnswers \/ HttpsAnswers

\* The handlers of the other protocols leave the client's side alone.
LEMMA HandlerSteps ==
    ASSUME ServedInv, Opening4 \/ Closing4
    PROVE  /\ client.proto # "socks5" /\ wait \in Handling
           /\ wait' \in Handling \cup {"open", "failed"}
           /\ UNCHANGED <<client, path, sent, gone, inbox, taken, user, selected>>
  <1>1. CASE Opening4
    <2>1. wait = "dial" /\ UNCHANGED <<client, path, sent, gone, inbox, taken, user, selected>>
      BY <1>1 DEF Opening4, HandleSocks4Chain, HandleHttpsChain, HandleHttpChain, Dialling, Tunnels,
                  Socks4ToHttp, Socks4ToSocks4, Socks4ToSocks5, Socks4Opens, HttpToHttp,
                  HttpToSocks4, HttpToSocks5, HttpsToHttp, HttpsToSocks4, HttpsToSocks5,
                  Opens, Single, fixed, stream, verdicts
    <2>2. wait' \in Replies \cup {"open", "failed"}
      <3>1. CASE \/ HandleSocks4Chain \/ HandleHttpsChain \/ HandleHttpChain \/ HttpToHttp
        BY <3>1 DEF HandleSocks4Chain, HandleHttpsChain, HandleHttpChain, Tunnels, HttpToHttp
      <3>2. CASE Socks4ToSocks4
        BY <3>2 DEF Socks4ToSocks4, Goes, Replies
      <3>3. CASE \/ Socks4ToHttp \/ Socks4ToSocks5 \/ HttpToSocks4 \/ HttpToSocks5
                 \/ HttpsToHttp \/ HttpsToSocks4 \/ HttpsToSocks5
        <4>1. PICK proto, kind, name :
                 kind \in {"http", "socks4", "socks5"} /\ Opens(proto, kind, name)
          BY <3>3 DEF Socks4ToHttp, Socks4ToSocks5, Socks4Opens, HttpToSocks4, HttpToSocks5,
                      HttpsToHttp, HttpsToSocks4, HttpsToSocks5
        <4> QED
          BY <4>1 DEF Opens, Asks, Goes, Replies
      <3> QED
        BY <1>1, <3>1, <3>2, <3>3 DEF Opening4
    <2> QED
      BY <2>1, <2>2 DEF ServedInv, Placed, Handling
  <1>2. CASE Closing4
    <2>1. wait \in Replies \cup {"next"}
      BY <1>2 DEF Closing4, Socks4Converses, HttpConverses, HttpsConverses, ReadsSocks5, ReadMethod,
                  ReadVerdict, ReadHeader, ReadLength, ReadAddress, ReadGranted, ReadStatus,
                  Takes, Replies, Socks4Forwards, HttpsForwards, Single, UpstreamBreaks, Breaks,
                  Socks4Answers, HttpAnswers, HttpsAnswers
    <2>2. /\ UNCHANGED <<client, path, sent, gone, inbox, taken, user, selected>>
          /\ wait' \in Replies \cup {"next", "open", "failed"}
      <3>1. CASE Socks4Answers \/ HttpAnswers \/ HttpsAnswers
        <4>1. \E words, units : HandsOver(words, units)
          BY <3>1 DEF Socks4Answers, HttpAnswers, HttpsAnswers
        <4> QED
          BY <4>1 DEF HandsOver, fixed, stream, verdicts
      <3>2. CASE ~(Socks4Answers \/ HttpAnswers \/ HttpsAnswers)
        <4>1. UNCHANGED <<client, path, sent, gone, inbox, taken, user, selected>>
          BY <1>2, <3>2 DEF Closing4, Socks4Converses, HttpConverses, HttpsConverses, Conversing,
                Untold, Socks4Forwards, HttpsForwards, UpstreamBreaks, fixed, stream, verdicts
        <4>2. wait' \in Replies \cup {"next", "failed"}
          BY <1>2, <3>2 DEF Closing4, Socks4Converses, HttpConverses, HttpsConverses, ReadsSocks5,
                  ReadMethod, ReadVerdict, ReadHeader, ReadLength, ReadAddress, ReadGranted,
                  ReadStatus, Takes, Goes, Replies, Socks4Forwards, HttpsForwards,
                  UpstreamBreaks, Breaks
        <4> QED
          BY <4>1, <4>2
      <3> QED
        BY <3>1, <3>2
    <2> QED
      BY <2>1, <2>2 DEF ServedInv, Placed, Handling, Replies
  <1> QED
    BY <1>1, <1>2

\* All steps of the specification, sorted.
LEMMA EveryStep ==
    ASSUME [Next]_vars
    PROVE  \/ UNCHANGED vars
           \/ GivesUp \/ Sends \/ Leaves \/ Upstream
           \/ FirstRead \/ Routes \/ AuthenticateUser
           \/ Greets \/ LogsIn \/ ReadsRequest \/ ReadsCount
           \/ ReadsName("host", 2) \/ ReadsName("ip", 1) \/ Socks5Chain
           \/ Opening4 \/ Closing4
  BY DEF Next, Router, ClientSide, GivesUp, Opening4, Closing4

\* A connection that is given up is settled.
LEMMA GivingUp ==
    ASSUME GivesUp
    PROVE  wait' = "failed" /\ client' = client
  BY DEF GivesUp, ClientIsGone, RequestIsCut, NothingMatches, IsRefused, ChainFails,
         FirstReadTimesOut, UpstreamIsDown, Socks4Rejects, Fails, fixed

\* The upstream sends and closes.
LEMMA UpstreamSteps ==
    ASSUME Upstream
    PROVE  UNCHANGED <<client, path, sent, gone, inbox, taken, told, user, selected, asked, passed, wait>>
  <1>1. wait' = wait
    BY DEF Upstream, FarEnd, ChoosesMethod, JudgesCredentials, Connects, Refuses, Answers,
           Speaks, Closes
  <1> QED
    BY <1>1 DEF Upstream, Untold, fixed, stream, verdicts

\* No step loses the place in the row.
LEMMA FlowStep ==
    ASSUME ServedInv, Flow, [Next]_vars
    PROVE  Flow'
  <1>1. CASE UNCHANGED vars \/ Upstream
    <2>1. wait' = wait /\ asked' = asked /\ UNCHANGED <<client, path, sent, gone, inbox, taken>>
      BY <1>1, UpstreamSteps DEF vars
    <2>2. CASE wait = "failed"
      BY <2>1, <2>2 DEF Flow
    <2> QED
      BY <2>1, <2>2, FlowOn
  <1>2. CASE GivesUp
    BY <1>2, GivingUp DEF Flow
  <1>3. CASE AuthenticateUser
    <2>1. /\ wait = "account" /\ wait' = "dial"
          /\ UNCHANGED <<client, path, sent, gone, inbox, taken>>
      BY <1>3 DEF AuthenticateUser, fixed, stream
    <2>2. client.proto # "socks5"
      BY <2>1 DEF ServedInv, Placed, Handling
    <2> QED
      BY <2>1, <2>2, FlowOn DEF Handling
  <1>4. CASE Opening4 \/ Closing4
    <2>1. wait # "failed"
      BY <1>4, HandlerSteps DEF Handling, Replies
    <2> QED
      BY <1>4, <2>1, HandlerSteps, FlowOn
  <1> QED
    BY <1>1, <1>2, <1>3, <1>4, EveryStep, FlowSends, FlowLeaves, FlowFirst, FlowRoutes, FlowGreets,
       FlowLogsIn, FlowReadsRequest, FlowReadsCount, FlowReadsName, FlowSocks5Chain

-------------------------------------------------------------------------------
(* The account, and a client taken at its word *)

\* The account and the selection of a SOCKS5 client, before and after its login.
Charged5 ==
    /\ wait \in {"first", "route", "greeting", "login"} => user = "nobody"
    /\ wait \in {"greeting", "login"} => selected = "default"
    /\ wait = "login" => path.auth
    /\ client.proto = "socks5" /\ wait \in (Names5 \ {"greeting", "login"}) \cup {"open"} =>
          user = Owner /\ selected = Choice

\* Steps that change nothing of it.
LEMMA Charged5Stays ==
    ASSUME Charged5, UNCHANGED <<client, path, user, selected>>,
           \/ wait' \in {wait, "failed"}
           \/ /\ client.proto = "socks5" /\ wait \in Names5 \ {"greeting", "login"}
              /\ wait' \in (Names5 \ {"greeting", "login"}) \cup {"open"}
           \/ client.proto # "socks5" /\ wait' \in Handling \cup {"open", "failed"}
    PROVE  Charged5'
  <1>1. Owner' = Owner /\ Choice' = Choice
    BY DEF Owner, Choice
  <1> QED
    BY <1>1 DEF Charged5, Names5, Handling, Replies

\* No step leaves a SOCKS5 client with another account than its own.
LEMMA Charged5Step ==
    ASSUME ServedInv, Charged5, [Next]_vars
    PROVE  Charged5'
  <1>1. CASE UNCHANGED vars \/ Upstream \/ Sends \/ Leaves
    <2>1. UNCHANGED <<client, path, user, selected, wait>>
      BY <1>1, UpstreamSteps DEF vars, Sends, Leaves, fixed, verdicts
    <2> QED
      BY <2>1, Charged5Stays
  <1>2. CASE GivesUp
    BY <1>2, GivingUp DEF Charged5, Names5
  <1>3. CASE FirstRead
    <2>1. wait = "first" /\ wait' \in {"failed", "route"} /\ UNCHANGED user
      BY <1>3 DEF FirstRead, Receives, verdicts
    <2> QED
      BY <2>1 DEF Charged5, Names5
  <1>4. CASE Routes
    <2>1. /\ wait = "route" /\ selected' = SelectionFor /\ UNCHANGED user
          /\ wait' = IF Detected(taken) = "socks5" THEN "greeting" ELSE "account"
      BY <1>4 DEF Routes
    <2>2. Detected(taken) = "socks5" => selected' = "default"
      BY <2>1 DEF SelectionFor
    <2> QED
      BY <2>1, <2>2 DEF Charged5, Names5
  <1>5. CASE AuthenticateUser
    BY <1>5 DEF AuthenticateUser, Charged5, Names5
  <1>6. CASE Greets
    <2>1. /\ wait = "greeting" /\ UNCHANGED <<client, path, user, selected>>
          /\ wait' = "failed" \/ wait' = IF path.auth THEN "login" ELSE "request"
      BY <1>6 DEF Greets, fixed, verdicts
    <2>2. user = "nobody" /\ selected = "default"
      BY <2>1 DEF Charged5
    <2>3. ~path.auth /\ client.proto = "socks5" => Owner = "nobody" /\ Choice = "default"
      BY DEF Owner, Choice
    <2>4. Owner' = Owner /\ Choice' = Choice
      BY <2>1 DEF Owner, Choice
    <2> QED
      BY <2>1, <2>2, <2>3, <2>4 DEF Charged5, Names5
  <1>7. CASE LogsIn
    <2>1. /\ wait = "login" /\ UNCHANGED <<client, path>>
          /\ \/ wait' = "failed"
             \/ client.creds = "good" /\ user' = "user" /\ selected' = "tokens" /\ wait' = "request"
      BY <1>7 DEF LogsIn, Receives, fixed
    <2>2. path.auth /\ client.proto = "socks5"
      BY <2>1 DEF Charged5, ServedInv, Placed, Names5
    <2>3. client.creds = "good" => Owner = "user" /\ Choice = "tokens"
      BY <2>2 DEF Owner, Choice
    <2>4. Owner' = Owner /\ Choice' = Choice
      BY <2>1 DEF Owner, Choice
    <2> QED
      BY <2>1, <2>3, <2>4 DEF Charged5, Names5
  <1>8. CASE \/ ReadsRequest \/ ReadsCount \/ ReadsName("host", 2) \/ ReadsName("ip", 1)
             \/ Socks5Chain
    <2>1. /\ wait \in Names5 \ {"greeting", "login"} /\ UNCHANGED <<client, path, user, selected>>
          /\ wait' \in (Names5 \ {"greeting", "login"}) \cup {"open", "failed"}
      BY <1>8 DEF ReadsRequest, ReadsCount, ReadsName, Receives, Socks5Chain, Tunnels, fixed,
                  verdicts, Names5
    <2>2. client.proto = "socks5"
      BY <2>1 DEF ServedInv, Placed
    <2> QED
      BY <2>1, <2>2, Charged5Stays
  <1>9. CASE Opening4 \/ Closing4
    BY <1>9, HandlerSteps, Charged5Stays
  <1> QED
    BY <1>1, <1>2, <1>3, <1>4, <1>5, <1>6, <1>7, <1>8, <1>9, EveryStep

-------------------------------------------------------------------------------

\* All three hold when the connection is accepted.
LEMMA TakenAtFirst ==
    ASSUME Init
    PROVE  Whole /\ Flow /\ Charged5
  <1>1. wait = "first" /\ user = "nobody" /\ sent = 0 /\ gone = FALSE /\ inbox = <<>>
    BY DEF Init
  <1>2. Whole
    BY <1>1 DEF Whole, Handling, Replies
  <1>3. Charged5
    BY <1>1 DEF Charged5, Names5
  <1>4. InRow(0, 0)
    <2>1. Len(inbox) = 0 - 0
      BY <1>1
    <2>2. Offset(client, path.auth, sent) = 0
      BY <1>1 DEF Offset
    <2>3. \A i \in 1 .. 0 - 0 : inbox[i] = UnitAt(client, path.auth, 0 + i)
      OBVIOUS
    <2> QED
      BY <2>1, <2>2, <2>3 DEF InRow
  <1>5. ReadUpTo(0)
    BY <1>1 DEF ReadUpTo, Handling, Replies
  <1>6. Flow
    BY <1>4, <1>5 DEF Flow
  <1> QED
    BY <1>2, <1>3, <1>6

TakenInv == ServedInv /\ Whole /\ Flow /\ Charged5

\* For every client, every path and every way in which what the client sends is cut: one
\* that is served is served on its own account, through the upstreams its own name
\* selects and to the target it asked for; a SOCKS5 client always, since the dialogue
\* finds the ends of its messages itself, the others when the first read took in the
\* request (src/protocols/proxy.rs:207-360, :571-640, :851-903).
THEOREM InboundTakenAtItsWord == Spec => []TakenAtItsWord
  <1>1. Init => TakenInv
    BY ServedAtFirst, TakenAtFirst DEF TakenInv
  <1>2. TakenInv /\ [Next]_vars => TakenInv'
    BY ServedStep, WholeStep, FlowStep, Charged5Step DEF TakenInv
  <1>3. TakenInv => TakenAtItsWord
    <2> SUFFICES ASSUME TakenInv, wait = "open", client.proto = "socks5" \/ CameWhole
                 PROVE  /\ user = Owner /\ selected = Choice
                        /\ \/ asked = Meant(client)
                           \/ client.form = "0.0.0.x" /\ ~path.multi
                           \/ client.proto = "http" /\ Untouched
      BY DEF TakenAtItsWord
    <2>1. CASE client.proto = "socks5"
      <3>1. asked = Meant(client)
        <4>1. PICK k \in Nat, m \in Nat : InRow(k, m) /\ ReadUpTo(k)
          BY DEF TakenInv, Flow
        <4> QED
          BY <2>1, <4>1, Zenon DEF ReadUpTo
      <3> QED
        BY <2>1, <3>1 DEF TakenInv, Charged5
    <2>2. CASE client.proto # "socks5"
      BY <2>2 DEF TakenInv, Whole, AsMeant, Handling
    <2> QED
      BY <2>1, <2>2
  <1> QED
    BY <1>1, <1>2, <1>3, PTL DEF Spec

-------------------------------------------------------------------------------
(* What is passed on to the target *)

\* What the first read returned behind the request.
Behind == SubSeq(taken, Len(Handshake(client, path.auth)[1]) + 1, Len(taken))

\* What has been written to the upstream for the target, by what is waited for.
Passing ==
    /\ wait \in Before5 \cup {"account", "dial"} => passed = <<>>
    /\ client.proto # "http" /\ wait \in Replies \cup {"next", "open"} =>
          IF client.proto = "socks4" /\ Untouched
          THEN CameWhole => passed = Behind
          ELSE passed = <<>>
    /\ client.proto = "http" /\ wait = "open" =>
          /\ path.multi => passed = ToOriginForm(taken)
          /\ Untouched => passed = WithCredentials(taken)
          /\ ~path.multi /\ ~Untouched /\ ~Has(Upto(taken, {"EOL"}), "/CONNECT") => passed = taken

\* Steps that change nothing of it.
LEMMA PassingStays ==
    ASSUME ServedInv, Passing, UNCHANGED <<client, path, passed>>,
           \/ wait' = wait /\ taken' = taken
           \/ wait' = "failed"
           \/ wait \in Before5 \cup {"account", "dial"} /\ wait' \in Before5 \cup {"account", "dial"}
           \/ taken' = taken /\ wait \in Replies \cup {"next"} /\ wait' \in Replies \cup {"next"}
    PROVE  Passing'
  <1>1. /\ Untouched' = Untouched /\ (taken' = taken => CameWhole' = CameWhole /\ Behind' = Behind)
        /\ (taken' = taken => WithCredentials(taken)' = WithCredentials(taken))
    BY DEF Untouched, CameWhole, Behind, WithCredentials
  <1>2. "failed" \notin Before5 \cup {"account", "dial"} \cup Replies \cup {"next", "open"}
    BY DEF Before5, Names5, Replies
  <1>3. (Before5 \cup {"account", "dial"}) \cap (Replies \cup {"next", "open"}) = {}
    BY DEF Before5, Names5, Replies
  <1>4. "open" \notin Before5 \cup {"account", "dial"} \cup Replies \cup {"next"}
    BY DEF Before5, Names5, Replies
  <1>5. CASE wait' = wait /\ taken' = taken
    BY <1>1, <1>5 DEF Passing
  <1>6. CASE wait' = "failed"
    BY <1>2, <1>6 DEF Passing
  <1>7. CASE wait \in Before5 \cup {"account", "dial"} /\ wait' \in Before5 \cup {"account", "dial"}
    BY <1>3, <1>4, <1>7 DEF Passing
  <1>8. CASE taken' = taken /\ wait \in Replies \cup {"next"} /\ wait' \in Replies \cup {"next"}
    BY <1>1, <1>3, <1>4, <1>8 DEF Passing
  <1> QED
    BY <1>5, <1>6, <1>7, <1>8

\* A handler that does not forward a SOCKS4 request has passed nothing on so far.
LEMMA PassingNothing ==
    ASSUME wait' \in Replies \cup {"next", "open", "failed"}, passed' = <<>>,
           client'.proto \in {"socks4", "https", "socks5"},
           ~(client'.proto = "socks4" /\ Untouched')
    PROVE  Passing'
  <1>1. wait' \notin Before5 \cup {"account", "dial"}
    BY DEF Before5, Names5, Replies
  <1> QED
    BY <1>1 DEF Passing

\* What the handlers pass on when they have connected,
LEMMA PassingOpens ==
    ASSUME ServedInv, Passing, Opening4
    PROVE  Passing'
  <1>1. /\ client.proto # "socks5" /\ wait' \in Handling \cup {"open", "failed"}
        /\ UNCHANGED <<client, path, taken>>
    BY HandlerSteps
  <1>2. wait = "dial" /\ wait' \in Replies \cup {"open", "failed"}
    <2>1. CASE \/ HandleSocks4Chain \/ HandleHttpsChain \/ HandleHttpChain \/ HttpToHttp
      BY <2>1 DEF HandleSocks4Chain, HandleHttpsChain, HandleHttpChain, Dialling, Tunnels,
                  HttpToHttp, Single
    <2>2. CASE Socks4ToSocks4
      BY <2>2 DEF Socks4ToSocks4, Single, Goes, Replies
    <2>3. CASE \/ Socks4ToHttp \/ Socks4ToSocks5 \/ HttpToSocks4 \/ HttpToSocks5
               \/ HttpsToHttp \/ HttpsToSocks4 \/ HttpsToSocks5
      <3>1. PICK proto, kind, name :
               kind \in {"http", "socks4", "socks5"} /\ Opens(proto, kind, name)
        BY <2>3 DEF Socks4ToHttp, Socks4ToSocks5, Socks4Opens, HttpToSocks4, HttpToSocks5,
                    HttpsToHttp, HttpsToSocks4, HttpsToSocks5
      <3> QED
        BY <3>1 DEF Opens, Single, Asks, Goes, Replies
    <2> QED
      BY <2>1, <2>2, <2>3 DEF Opening4
  <1>3. passed = <<>> /\ Detected(taken) = client.proto
    BY <1>2, DetectedIs DEF Passing
  <1>4. Untouched' = Untouched /\ CameWhole' = CameWhole /\ Behind' = Behind
        /\ WithCredentials(taken)' = WithCredentials(taken)
    BY <1>1 DEF Untouched, CameWhole, Behind, WithCredentials
  <1>5. wait' \notin Before5 \cup {"account", "dial"}
    BY <1>2 DEF Before5, Names5, Replies
  <1>6. CASE HandleSocks4Chain \/ HandleHttpsChain
    <2>1. path.multi /\ passed' = <<>> /\ client.proto \in {"socks4", "https"}
      BY <1>3, <1>6 DEF HandleSocks4Chain, HandleHttpsChain, Dialling, Tunnels
    <2> QED
      BY <1>1, <1>2, <1>4, <2>1, PassingNothing DEF Untouched
  <1>7. CASE HandleHttpChain
    <2>1. path.multi /\ passed' = ToOriginForm(taken) /\ client.proto = "http"
      BY <1>3, <1>7 DEF HandleHttpChain, Dialling, Tunnels
    <2> QED
      BY <1>1, <1>4, <1>5, <2>1 DEF Passing, Untouched
  <1>8. CASE HttpToHttp
    <2>1. /\ ~path.multi /\ passed' = WithCredentials(taken) /\ client.proto = "http"
          /\ path.hop.kind = "http"
      BY <1>3, <1>8 DEF HttpToHttp, Single
    <2> QED
      BY <1>1, <1>4, <1>5, <2>1 DEF Passing, Untouched
  <1>9. CASE Socks4ToSocks4
    <2>1. /\ client.proto = "socks4" /\ Untouched /\ wait' = "granted"
          /\ CameWhole => passed' = Behind
      BY <1>3, <1>9 DEF Socks4ToSocks4, Single, Untouched, CameWhole, Behind, Goes
    <2> QED
      BY <1>1, <1>4, <1>5, <2>1 DEF Passing
  <1>10. CASE \/ Socks4ToHttp \/ Socks4ToSocks5 \/ HttpsToHttp \/ HttpsToSocks4 \/ HttpsToSocks5
    <2>1. /\ passed' = passed /\ client.proto \in {"socks4", "https"}
          /\ client.proto = "socks4" => path.hop.kind # "socks4"
      BY <1>3, <1>10 DEF Socks4ToHttp, Socks4ToSocks5, Socks4Opens, HttpsToHttp, HttpsToSocks4,
                  HttpsToSocks5, Opens, Single
    <2> QED
      BY <1>1, <1>2, <1>3, <1>4, <2>1, PassingNothing DEF Untouched
  <1>11. CASE HttpToSocks4 \/ HttpToSocks5
    <2>1. client.proto = "http" /\ wait' # "open"
      <3>1. PICK kind, name :
               kind \in {"socks4", "socks5"} /\ Opens("http", kind, name)
        BY <1>11 DEF HttpToSocks4, HttpToSocks5
      <3> QED
        BY <1>3, <3>1 DEF Opens, Single, Asks, Goes
    <2> QED
      BY <1>1, <1>5, <2>1 DEF Passing
  <1> QED
    BY <1>6, <1>7, <1>8, <1>9, <1>10, <1>11 DEF Opening4

\* and what they add when the upstream has answered.
LEMMA PassingCloses ==
    ASSUME ServedInv, Passing, Closing4
    PROVE  Passing'
  <1>1. /\ client.proto # "socks5" /\ wait \in Handling
        /\ UNCHANGED <<client, path, taken>>
    BY HandlerSteps
  <1>2. CASE \/ Socks4Converses \/ HttpConverses \/ HttpsConverses
             \/ Socks4Forwards \/ HttpsForwards \/ UpstreamBreaks
    <2>1. /\ wait \in Replies \cup {"next"} /\ wait' \in Replies \cup {"next", "failed"}
          /\ passed' = passed
      BY <1>2 DEF Socks4Converses, HttpConverses, HttpsConverses, Conversing, Untold, ReadsSocks5,
                  ReadMethod, ReadVerdict, ReadHeader, ReadLength, ReadAddress, ReadGranted,
                  ReadStatus, Takes, Goes, Replies, Socks4Forwards, HttpsForwards, Single,
                  UpstreamBreaks, Breaks
    <2> QED
      BY <1>1, <2>1, PassingStays
  <1>3. CASE Socks4Answers \/ HttpAnswers \/ HttpsAnswers
    <2>1. wait = "next" /\ wait' = "open" /\ ~path.multi
      BY <1>3 DEF Socks4Answers, HttpAnswers, HttpsAnswers, Single, HandsOver
    <2>2. Detected(taken) = client.proto
      BY <2>1, DetectedIs
    <2>3. Untouched' = Untouched /\ CameWhole' = CameWhole /\ Behind' = Behind
          /\ WithCredentials(taken)' = WithCredentials(taken)
      BY <1>1 DEF Untouched, CameWhole, Behind, WithCredentials
    <2>4. CASE Socks4Answers
      <3>1. client.proto = "socks4" /\ passed' = passed
        BY <2>2, <2>4 DEF Socks4Answers, Single, HandsOver
      <3> QED
        BY <1>1, <2>1, <2>3, <3>1 DEF Passing, Before5, Names5
    <2>5. CASE HttpsAnswers
      <3>1. client.proto = "https" /\ passed' = <<>>
        BY <2>2, <2>5 DEF HttpsAnswers, Single, HandsOver
      <3> QED
        BY <1>1, <2>1, <3>1, PassingNothing
    <2>6. CASE HttpAnswers
      <3>1. /\ client.proto = "http"
            /\ ~Has(Upto(taken, {"EOL"}), "/CONNECT") => passed' = taken
        BY <2>2, <2>6 DEF HttpAnswers, Single, HandsOver
      <3>2. ~Untouched
        BY <2>1, <3>1 DEF ServedInv, Answered, Untouched
      <3> QED
        BY <1>1, <2>1, <2>3, <3>1, <3>2 DEF Passing, Before5, Names5
    <2> QED
      BY <1>3, <2>4, <2>5, <2>6
  <1> QED
    BY <1>2, <1>3 DEF Closing4

\* No step passes on what it should not.
LEMMA PassingStep ==
    ASSUME ServedInv, Passing, [Next]_vars
    PROVE  Passing'
  <1>1. CASE UNCHANGED vars \/ Upstream \/ Sends \/ Leaves
    <2>1. UNCHANGED <<client, path, taken, passed, wait>>
      BY <1>1, UpstreamSteps DEF vars, Sends, Leaves, fixed, verdicts
    <2> QED
      BY <2>1, PassingStays
  <1>2. CASE GivesUp
    BY <1>2, GivingUp DEF Passing, Before5, Names5, Replies
  <1>3. CASE \/ FirstRead \/ Routes \/ AuthenticateUser \/ Greets \/ LogsIn \/ ReadsRequest
             \/ ReadsCount \/ ReadsName("host", 2) \/ ReadsName("ip", 1)
    <2>1. /\ UNCHANGED <<client, path, passed>>
          /\ wait \in Before5 \cup {"account", "dial"}
          /\ wait' \in Before5 \cup {"account", "dial", "failed"}
      BY <1>3 DEF FirstRead, Routes, AuthenticateUser, Greets, LogsIn, ReadsRequest,
                  ReadsCount, ReadsName, Receives, fixed, Before5, Names5
    <2> QED
      BY <2>1, PassingStays
  <1>4. CASE Socks5Chain
    <2>1. wait = "chain" /\ wait' = "open" /\ passed' = <<>> /\ client' = client
      BY <1>4 DEF Socks5Chain, Tunnels, fixed
    <2>2. client.proto = "socks5"
      BY <2>1 DEF ServedInv, Placed, Names5
    <2> QED
      BY <2>1, <2>2, PassingNothing
  <1>5. CASE Opening4 \/ Closing4
    BY <1>5, PassingOpens, PassingCloses
  <1> QED
    BY <1>1, <1>2, <1>3, <1>4, <1>5, EveryStep

-------------------------------------------------------------------------------
(* The stream that reaches the target *)

\* What remains of one message is that message.
LEMMA FlatOne ==
    ASSUME NEW s, Len(s) = 1
    PROVE  FlattenSeq(s) = s[1]
  <1> DEFINE F(f) == [i \in 1 .. Len(s) |-> IF i = 1 THEN s[i] ELSE f[i - 1] \o s[i]]
             g == [i \in 1 .. Len(s) |-> s[i]]
             h == CHOOSE f : f = F(f)
  <1>1. g = F(g)
    OBVIOUS
  <1>2. h = F(h)
    BY <1>1
  <1>3. FlattenSeq(s) = h[1]
    BY DEF FlattenSeq
  <1> HIDE DEF h
  <1>4. h[1] = s[1]
    BY <1>2
  <1> QED
    BY <1>3, <1>4

\* What remains of a script of which all is sent, or all but the last message.
LEMMA Remains ==
    ASSUME NEW S, NEW s \in Seq(Seq(S)), NEW n \in Nat
    PROVE  /\ n = Len(s) => FlattenSeq(SubSeq(s, n + 1, Len(s))) = <<>>
           /\ n + 1 = Len(s) => FlattenSeq(SubSeq(s, n + 1, Len(s))) = s[n + 1]
  <1> DEFINE t == SubSeq(s, n + 1, Len(s))
  <1>1. Len(s) \in Nat
    BY LenProperties
  <1>2. CASE n = Len(s)
    <2>1. t = <<>>
      BY <1>1, <1>2, SubSeqEmpty
    <2> HIDE DEF t
    <2>2. Len(t) = 0
      BY <2>1
    <2>3. FlattenSeq(t) = <<>>
      BY <2>1, <2>2 DEF FlattenSeq
    <2>4. n + 1 # Len(s)
      BY <1>1, <1>2
    <2> QED
      BY <2>3, <2>4 DEF t
  <1>3. CASE n + 1 = Len(s)
    <2>1. 1 <= n + 1 /\ n + 1 <= Len(s) + 1 /\ n + 1 \in Nat /\ n # Len(s)
          /\ 1 \in 1 .. Len(s) - (n + 1) + 1 /\ Len(s) - (n + 1) + 1 = 1 /\ n + 1 + 1 - 1 = n + 1
      BY <1>1, <1>3
    <2>2. /\ Len(t) = Len(s) - (n + 1) + 1
          /\ \A i \in 1 .. Len(s) - (n + 1) + 1 : t[i] = s[n + 1 + i - 1]
      <3> DEFINE k == n + 1
                 T == Seq(S)
      <3>1. /\ s \in Seq(T) /\ k \in Nat /\ Len(s) \in Nat /\ 1 <= k /\ k <= Len(s) + 1
            /\ Len(s) <= Len(s)
        BY <1>1, <2>1
      <3> HIDE DEF k, T
      <3>2. /\ Len(SubSeq(s, k, Len(s))) = Len(s) - k + 1
            /\ \A i \in 1 .. Len(s) - k + 1 : SubSeq(s, k, Len(s))[i] = s[k + i - 1]
        BY <3>1, Piece
      <3> QED
        BY <3>2, Zenon DEF k
    <2> HIDE DEF t
    <2>3. Len(t) = 1 /\ t[1] = s[n + 1]
      <3>1. t[1] = s[n + 1 + 1 - 1]
        BY <2>1, <2>2
      <3> QED
        BY <2>1, <2>2, <3>1
    <2>4. FlattenSeq(t) = s[n + 1]
      BY <2>3, FlatOne
    <2> QED
      BY <2>1, <2>4 DEF t
  <1> QED
    BY <1>2, <1>3

\* Cutting the first units off, before and after something is added.
LEMMA TailOf ==
    ASSUME NEW S, NEW s \in Seq(S), NEW v \in Seq(S), NEW m \in 1 .. Len(s) + 1
    PROVE  SubSeq(s \o v, m, Len(s \o v)) = SubSeq(s, m, Len(s)) \o v
  <1> DEFINE w == s \o v
             a == SubSeq(w, m, Len(w))
             p == SubSeq(s, m, Len(s))
             b == p \o v
  <1>1. Len(s) \in Nat /\ Len(v) \in Nat /\ m \in Nat
    BY LenProperties
  <1>2. /\ w \in Seq(S) /\ Len(w) = Len(s) + Len(v)
        /\ \A i \in 1 .. Len(s) : w[i] = s[i]
        /\ \A i \in 1 .. Len(v) : w[Len(s) + i] = v[i]
    BY Joined
  <1>3. 1 <= m /\ m <= Len(w) + 1 /\ m <= Len(s) + 1 /\ Len(w) \in Nat
    BY <1>1, <1>2
  <1> HIDE DEF w
  <1>4. /\ a \in Seq(S) /\ Len(a) = Len(w) - m + 1
        /\ \A i \in 1 .. Len(w) - m + 1 : a[i] = w[m + i - 1]
    <2>1. w \in Seq(S) /\ m \in Nat /\ Len(w) \in Nat /\ 1 <= m /\ m <= Len(w) + 1
          /\ Len(w) <= Len(w)
      BY <1>1, <1>2, <1>3
    <2> QED
      BY <2>1, Piece
  <1>5. /\ p \in Seq(S) /\ Len(p) = Len(s) - m + 1
        /\ \A i \in 1 .. Len(s) - m + 1 : p[i] = s[m + i - 1]
    <2>1. s \in Seq(S) /\ m \in Nat /\ Len(s) \in Nat /\ 1 <= m /\ m <= Len(s) + 1
          /\ Len(s) <= Len(s)
      BY <1>1, <1>3
    <2> QED
      BY <2>1, Piece
  <1> HIDE DEF a, p
  <1>6. /\ b \in Seq(S) /\ Len(b) = Len(p) + Len(v)
        /\ \A i \in 1 .. Len(p) : b[i] = p[i]
        /\ \A i \in 1 .. Len(v) : b[Len(p) + i] = v[i]
    <2>1. p \in Seq(S) /\ v \in Seq(S)
      BY <1>5
    <2> QED
      BY <2>1, Joined
  <1> HIDE DEF b
  <1>7. Len(a) = Len(b)
    BY <1>1, <1>2, <1>4, <1>5, <1>6
  <1>8. ASSUME NEW i \in 1 .. Len(a) PROVE a[i] = b[i]
    <2>1. a[i] = w[m + i - 1]
      BY <1>4
    <2>2. CASE i <= Len(p)
      <3>1. i \in 1 .. Len(p) /\ i \in 1 .. Len(s) - m + 1 /\ m + i - 1 \in 1 .. Len(s)
        BY <1>1, <1>3, <1>4, <1>5, <2>2
      <3> QED
        BY <1>2, <1>5, <1>6, <2>1, <3>1
    <2>3. CASE ~(i <= Len(p))
      <3> DEFINE j == i - Len(p)
      <3>1. j \in 1 .. Len(v) /\ i = Len(p) + j /\ m + i - 1 = Len(s) + j
        BY <1>1, <1>2, <1>3, <1>4, <1>5, <2>3
      <3> HIDE DEF j
      <3>2. w[Len(s) + j] = v[j] /\ b[Len(p) + j] = v[j]
        BY <1>2, <1>6, <3>1
      <3> QED
        BY <2>1, <3>1, <3>2
    <2> QED
      BY <2>2, <2>3
  <1>9. a = b
    BY <1>4, <1>6, <1>7, <1>8, SeqEqual
  <1> QED
    BY <1>9 DEF a, b, p, w

\* A string begins with its first part.
LEMMA Starting ==
    ASSUME NEW S, NEW a \in Seq(S), NEW b \in Seq(S)
    PROVE  IsPrefix(a, a \o b) /\ SubSeq(a \o b, 1, Len(a)) = a
  <1> DEFINE w == a \o b
             p == SubSeq(w, 1, Len(a))
             q == SubSeq(a, 1, Len(a))
  <1>1. Len(a) \in Nat /\ Len(b) \in Nat
    BY LenProperties
  <1>2. w \in Seq(S) /\ Len(w) = Len(a) + Len(b) /\ \A i \in 1 .. Len(a) : w[i] = a[i]
    BY Joined
  <1>3. Len(a) <= Len(w) /\ 1 <= Len(a) + 1
    BY <1>1, <1>2
  <1> HIDE DEF w
  <1>4. /\ p \in Seq(S) /\ Len(p) = Len(a) - 1 + 1
        /\ \A i \in 1 .. Len(a) - 1 + 1 : p[i] = w[1 + i - 1]
    <2>1. w \in Seq(S) /\ 1 \in Nat /\ Len(a) \in Nat /\ 1 <= 1 /\ 1 <= Len(a) + 1
          /\ Len(a) <= Len(w)
      BY <1>1, <1>2, <1>3
    <2> QED
      BY <2>1, Piece
  <1>5. q = a
    BY SubSeqFull
  <1> HIDE DEF p, q
  <1>6. Len(p) = Len(a)
    BY <1>1, <1>4
  <1>7. ASSUME NEW i \in 1 .. Len(p) PROVE p[i] = a[i]
    <2>1. i \in 1 .. Len(a) - 1 + 1 /\ 1 + i - 1 = i /\ i \in 1 .. Len(a)
      BY <1>1, <1>6
    <2> QED
      BY <1>2, <1>4, <2>1
  <1>8. p = a
    BY <1>4, <1>6, <1>7, SeqEqual
  <1> QED
    BY <1>3, <1>5, <1>8 DEF IsPrefix, p, q, w

\* Where the handshake is over, when something else follows.
Over == IF client.proto = "socks5" THEN Over5(client, path.auth)
        ELSE Len(Handshake(client, path.auth)[1])

\* The payload is the last message, and lies behind the handshake.
LEMMA LastMessage ==
    ASSUME ServedInv, client.proto # "http", NEW n \in Nat, n + 1 = Len(script)
    PROVE  LET O(i) == Offset(client, path.auth, i)
           IN  /\ script[n + 1] = <<"payload">>
               /\ Over \in Nat /\ O(n) = Over /\ O(n + 1) = Over + 1
               /\ UnitAt(client, path.auth, Over + 1) = "payload"
               /\ \A i \in 0 .. n - 1 : O(i) < Over
  <1> DEFINE O(i) == Offset(client, path.auth, i)
             L == Letters(client)
             P == <<"payload">>
  <1>1. client \in Client /\ path.auth \in BOOLEAN
    BY CaseType DEF Path
  <1>2. /\ script \in Seq(Seq(L)) /\ Len(script) \in Nat
        /\ \A k \in 1 .. Len(script) : script[k] \in Seq(L) /\ script[k] # <<>>
    BY CaseType
  <1>3. MessageAt(client, path.auth, n)
    BY <1>2, MessageIs
  <1>4. P \in Seq(L) /\ Len(P) = 1 /\ P[1] = "payload"
    BY DEF Letters
  <1>5. CASE client.proto = "socks5"
    <2> DEFINE t == Third(path.auth)
               e == Over5(client, path.auth)
    <2>1. /\ t \in {2, 3} /\ e \in Nat /\ e >= 6
          /\ path.auth => t = 3
          /\ ~path.auth => t = 2
      <3>1. /\ Begun(path.auth) \in {2, 4} /\ Over5(client, path.auth) \in Nat
            /\ path.auth => Third(path.auth) = 3
            /\ ~path.auth => Third(path.auth) = 2
            /\ client.form = "03" => Over5(client, path.auth) = Begun(path.auth) + 6
            /\ client.form # "03" => Over5(client, path.auth) = Begun(path.auth) + 4
        BY Begun5
      <3> QED
        BY <3>1
    <2>2. Len(script) = t + 1 /\ IsPayload(script[t + 1])
      BY <1>1, <1>5, Socks5Script DEF script
    <2>3. \A i : O(i) = IF i = 0 THEN 0 ELSE IF i = 1 THEN 2 ELSE IF i < t THEN 4
                        ELSE e + (IF i = t THEN 0 ELSE 1)
      BY <1>5 DEF Offset
    <2>4. Over = e
      BY <1>5 DEF Over
    <2> HIDE DEF t, e, O, P
    <2>5. n = t
      BY <1>2, <2>1, <2>2
    <2>6. O(n) = e /\ O(n + 1) = e + 1
      BY <2>1, <2>3, <2>5
    <2>7. \A i \in 0 .. n - 1 : O(i) < e
      BY <2>1, <2>3, <2>5
    <2>8. script[n + 1] \in Seq(L) /\ Len(script[n + 1]) = 1 /\ script[n + 1][1] = "payload"
      <3>1. n + 1 \in 1 .. Len(script)
        BY <1>2
      <3> QED
        BY <1>2, <2>2, <2>5, <3>1 DEF IsPayload
    <2> DEFINE w == script[n + 1]
    <2>9. w = P
      <3>1. w \in Seq(L) /\ Len(w) = 1 /\ w[1] = "payload"
        BY <2>8
      <3> HIDE DEF w, L
      <3>2. Len(w) = Len(P) /\ \A i \in 1 .. Len(w) : w[i] = P[i]
        BY <1>4, <3>1
      <3> QED
        BY <1>4, <3>1, <3>2, SeqEqual
    <2>10. UnitAt(client, path.auth, e + 1) = "payload"
      BY <1>5, Units5, Zenon DEF UnitAt, e
    <2> QED
      BY <2>1, <2>4, <2>6, <2>7, <2>9, <2>10 DEF O, P
  <1>6. CASE client.proto # "socks5"
    <2> DEFINE W == Handshake(client, path.auth)[1]
    <2>1. Len(script) = 2 /\ script[1] = W /\ script[2] = P
      <3>1. n < Len(Script(client, path.auth))
        BY <1>2 DEF script
      <3> QED
        BY <1>1, <1>6, <3>1, OtherMessages DEF script
    <2>2. n = 1
      BY <2>1
    <2>3. O(0) = 0 /\ O(1) = Len(script[1]) + 0 /\ O(2) = Len(script[1]) + 1
      <3>1. 1 # 0 /\ 2 # 0 /\ 2 # 1
        OBVIOUS
      <3> QED
        BY <1>6, <3>1, Zenon DEF Offset, script
    <2>4. Over = Len(W)
      BY <1>6 DEF Over
    <2>5. UnitAt(client, path.auth, Len(script[1]) + 1) = "payload"
      <3>1. Len(script[1]) \in Nat
        <4>1. script[1] \in Seq(L)
          BY <1>2, <2>1
        <4> QED
          BY <4>1, LenProperties
      <3>2. ~(Len(script[1]) + 1 <= Len(script[1]))
        BY <3>1
      <3> QED
        BY <1>6, <3>2, Zenon DEF UnitAt, script
    <2> HIDE DEF O, P, W
    <2>6. Len(W) \in Nat /\ Len(W) > 0
      <3>1. W \in Seq(L) /\ W # <<>>
        BY <1>2, <2>1
      <3> QED
        BY <3>1, EmptySeq
    <2>7. O(n) = Len(W) /\ O(n + 1) = Len(W) + 1
      BY <2>1, <2>2, <2>3, <2>6
    <2>8. \A i \in 0 .. n - 1 : O(i) < Len(W)
      BY <2>2, <2>3, <2>6
    <2>9. script[n + 1] = P
      BY <2>1, <2>2
    <2> QED
      BY <2>1, <2>4, <2>5, <2>6, <2>7, <2>8, <2>9 DEF O, P
  <1> QED
    BY <1>5, <1>6

\* What is still to be read when the handshake is over, or the payload was read with it.
LEMMA RestIs ==
    ASSUME ServedInv, client.proto # "http", ~gone,
           NEW k \in Nat, NEW m \in Nat, InRow(k, m), k >= Over
    PROVE  /\ inbox \in Seq(Letters(client)) /\ Unsent \in Seq(Letters(client))
           /\ Over \in Nat /\ UnitAt(client, path.auth, Over + 1) = "payload"
           /\ \/ k = Over /\ inbox \o Unsent = <<"payload">>
              \/ k = Over + 1 /\ inbox \o Unsent = <<>>
  <1> DEFINE O(i) == Offset(client, path.auth, i)
             U(i) == UnitAt(client, path.auth, i)
             L == Letters(client)
             P == <<"payload">>
             e == Over
  <1>1. /\ script \in Seq(Seq(L)) /\ Len(script) \in Nat /\ script # <<>>
    <2>1. Len(script) > 0
      <3>1. client \in Client /\ path.auth \in BOOLEAN
        BY CaseType DEF Path
      <3>2. CASE client.proto = "socks5"
        <4>1. Len(script) = Third(path.auth) + 1
          BY <3>1, <3>2, Socks5Script DEF script
        <4>2. Third(path.auth) \in {2, 3}
          BY DEF Third
        <4> QED
          BY <4>1, <4>2
      <3>3. CASE client.proto # "socks5"
        <4>1. Handshake(client, path.auth) \in Seq(Seq(L))
          BY <3>1, <3>3, HandshakeType
        <4>2. "payload" \in L
          BY DEF Letters
        <4>3. script = Append(Handshake(client, path.auth), P)
          BY <3>3 DEF script, Script
        <4> QED
          BY <4>1, <4>2, <4>3
      <3> QED
        BY <3>2, <3>3
    <2> QED
      BY <2>1, CaseType
  <1>2. PICK n \in Nat : n + 1 = Len(script)
    <2>1. Len(script) > 0 /\ Len(script) \in Nat
      BY <1>1, EmptySeq
    <2>2. Len(script) - 1 \in Nat /\ Len(script) - 1 + 1 = Len(script)
      BY <2>1
    <2> QED
      BY <2>2
  <1>3. /\ script[n + 1] = P /\ e \in Nat /\ O(n) = e /\ O(n + 1) = e + 1
        /\ U(e + 1) = "payload" /\ \A i \in 0 .. n - 1 : O(i) < e
    BY <1>2, LastMessage
  <1>4. sent \in 0 .. n + 1
    BY <1>2 DEF ServedInv, TypeOK
  <1>5. /\ k <= m /\ Len(inbox) = m - k /\ m = O(sent)
        /\ \A i \in 1 .. m - k : inbox[i] = U(k + i)
    BY Zenon DEF InRow
  <1>6. /\ n + 1 = Len(script) => FlattenSeq(SubSeq(script, n + 1, Len(script))) = script[n + 1]
        /\ n + 1 = Len(script) => FlattenSeq(SubSeq(script, n + 1 + 1, Len(script))) = <<>>
    <2>1. n + 1 \in Nat
      OBVIOUS
    <2> QED
      BY <1>1, <2>1, Remains
  <1>7. Unsent = FlattenSeq(SubSeq(script, sent + 1, Len(script)))
    BY DEF Unsent
  <1>8. inbox \in Seq(L)
    BY DEF ServedInv, Recognised
  <1>9. P \in Seq(L) /\ Len(P) = 1 /\ P[1] = "payload"
    BY DEF Letters
  <1>10. k >= e
    OBVIOUS
  <1> HIDE DEF O, U, L, P, e
  <1>11. sent = n \/ sent = n + 1
    <2>1. ~(sent \in 0 .. n - 1)
      BY <1>3, <1>5, <1>10
    <2> QED
      BY <1>4, <2>1
  <1>12. CASE sent = n
    <2>1. k = e /\ Len(inbox) = 0
      BY <1>3, <1>5, <1>10, <1>12
    <2>2. inbox = <<>>
      BY <1>8, <2>1, EmptySeq
    <2>3. Unsent = P
      BY <1>2, <1>3, <1>6, <1>7, <1>12
    <2>4. inbox \o Unsent = P
      BY <1>9, <2>2, <2>3, ConcatEmptySeq
    <2> QED
      BY <1>3, <1>8, <1>9, <2>1, <2>3, <2>4 DEF e, P, L, U
  <1>13. CASE sent = n + 1
    <2>1. Unsent = <<>>
      BY <1>2, <1>6, <1>7, <1>13
    <2>2. inbox \o Unsent = inbox
      BY <1>8, <2>1, ConcatEmptySeq
    <2>3. ASSUME k = e PROVE inbox \o Unsent = P
      <3>1. Len(inbox) = 1 /\ m - k = 1 /\ 1 \in 1 .. 1
        BY <1>3, <1>5, <1>13, <2>3
      <3>2. inbox[1] = "payload"
        BY <1>3, <1>5, <2>3, <3>1
      <3>3. Len(inbox) = Len(P) /\ \A i \in 1 .. Len(inbox) : inbox[i] = P[i]
        BY <1>9, <3>1, <3>2
      <3>4. inbox = P
        BY <1>8, <1>9, <3>3, SeqEqual
      <3> QED
        BY <2>2, <3>4
    <2>4. ASSUME k # e PROVE k = e + 1 /\ inbox \o Unsent = <<>>
      <3>1. k = e + 1 /\ Len(inbox) = 0
        BY <1>3, <1>5, <1>10, <1>13, <2>4
      <3>2. inbox = <<>>
        BY <1>8, <3>1, EmptySeq
      <3> QED
        BY <2>2, <3>1, <3>2
    <2>5. Unsent \in Seq(L)
      BY <2>1
    <2> QED
      BY <1>3, <1>8, <2>3, <2>4, <2>5 DEF e, L, U, P
  <1> QED
    BY <1>11, <1>12, <1>13

\* Joining strings is associative, all strings quantified.
LEMMA Associates ==
    ASSUME NEW S
    PROVE  \A a, b, d \in Seq(S) : (a \o b) \o d = a \o (b \o d)
  <1> SUFFICES ASSUME NEW a \in Seq(S), NEW b \in Seq(S), NEW d \in Seq(S)
               PROVE  (a \o b) \o d = a \o (b \o d)
    BY Zenon
  <1> QED
    BY ConcatAssociative

\* Where the line of a plain request ends.
LEMMA LineEnds ==
    ASSUME NEW c
    PROVE  /\ c.form = "origin" => Origin(c) + 1 = 2
           /\ c.form # "origin" => Origin(c) + 1 = 5
  <1>1. CASE c.form = "origin"
    <2>1. Origin(c) = 1
      BY <1>1 DEF Origin
    <2> QED
      BY <1>1, <2>1
  <1>2. CASE c.form # "origin"
    <2>1. Origin(c) = 4
      BY <1>2 DEF Origin
    <2> QED
      BY <1>2, <2>1
  <1> QED
    BY <1>1, <1>2

\* The request line of a plain request, and what follows it.
LEMMA LineCut ==
    ASSUME NEW c \in Client, c.proto = "http", NEW T, NEW s \in Seq(T),
           GetUnits(c, s), Len(s) >= Origin(c) + 7 + Logins(c),
           NEW l, l = Origin(c) + 1
    PROVE  /\ l \in Nat /\ l >= 2 /\ l + 3 <= Len(s) /\ s[l + 1] = "EOL"
           /\ Upto(s, {"EOL"}) = SubSeq(s, 1, l)
           /\ After(s, {"EOL"}) = SubSeq(s, l + 2, Len(s))
  <1> DEFINE o == Origin(c)
  <1>1. Logins(c) \in Nat /\ Len(s) \in Nat
    BY LenProperties DEF Logins
  <1>2. o \in {1, 4} /\ (c.form = "origin" => o = 1) /\ (c.form # "origin" => o = 4)
    BY DEF Origin
  <1>3. /\ s[1] = "GET"
        /\ c.form # "origin" => s[2] = "http://" /\ s[3] = "na" /\ s[4] = "me"
        /\ s[o + 1] = Path1(c) /\ s[o + 2] = "EOL"
    BY Zenon DEF GetUnits
  <1>4. Path1(c) # "EOL"
    BY DEF Path1
  <1>5. l = o + 1 /\ Len(s) >= o + 7 + Logins(c)
    OBVIOUS
  <1> HIDE DEF o
  <1>6. l \in Nat /\ l >= 2 /\ l + 3 <= Len(s) /\ l + 1 = o + 2 /\ l + 1 \in 1 .. Len(s)
        /\ l + 1 - 1 = l /\ l + 1 + 1 = l + 2
    BY <1>1, <1>2, <1>5
  <1>7. s[l + 1] = "EOL"
    BY <1>3, <1>6
  <1>8. \A j \in 1 .. l + 1 - 1 : s[j] # "EOL"
    <2>1. \A j \in 1 .. l + 1 - 1 : j = 1 \/ j = l \/ (c.form # "origin" /\ (j = 2 \/ j = 3 \/ j = 4))
      BY <1>2, <1>5
    <2>2. s[l] = Path1(c)
      BY <1>3, <1>5
    <2>3. "GET" # "EOL" /\ "http://" # "EOL" /\ "na" # "EOL" /\ "me" # "EOL"
      OBVIOUS
    <2> QED
      BY <1>3, <1>4, <2>1, <2>2, <2>3, Zenon
  <1>9. /\ Upto(s, {"EOL"}) = SubSeq(s, 1, l + 1 - 1)
        /\ After(s, {"EOL"}) = SubSeq(s, l + 1 + 1, Len(s))
    <2> DEFINE k == l + 1
    <2>1. k \in 1 .. Len(s) /\ s[k] \in {"EOL"} /\ \A j \in 1 .. k - 1 : s[j] \notin {"EOL"}
      BY <1>6, <1>7, <1>8
    <2> HIDE DEF k
    <2>2. Upto(s, {"EOL"}) = SubSeq(s, 1, k - 1) /\ After(s, {"EOL"}) = SubSeq(s, k + 1, Len(s))
      BY <2>1, CutAt
    <2> QED
      BY <2>2 DEF k
  <1> QED
    BY <1>6, <1>7, <1>9

\* Only a path with CONNECT in it puts that into the request line.
LEMMA NoTunnel ==
    ASSUME NEW c \in Client, c.proto = "http", NEW s \in Seq(Letters(c)),
           GetUnits(c, s), Len(s) >= Origin(c) + 7 + Logins(c), c.form # "mentions CONNECT"
    PROVE  ~Has(Upto(s, {"EOL"}), "/CONNECT")
  <1>1. (c.form = "origin" => OriginAt(s)) /\ (c.form # "origin" => AbsoluteAt(s))
    BY GetServed
  <1>2. /\ c.form = "origin" => s[2] = Path1(c)
        /\ c.form # "origin" => s[5] = Path1(c)
    <2>1. s[Origin(c) + 1] = Path1(c)
      BY Zenon DEF GetUnits
    <2>2. (c.form = "origin" => Origin(c) + 1 = 2) /\ (c.form # "origin" => Origin(c) + 1 = 5)
      BY LineEnds
    <2> QED
      BY <2>1, <2>2
  <1>3. Path1(c) # "/CONNECT"
    BY DEF Path1
  <1>4. CASE c.form = "origin"
    <2>1. Has(Upto(s, {"EOL"}), "/CONNECT") <=> s[2] = "/CONNECT"
      BY <1>1, <1>4, OriginLine
    <2> QED
      BY <1>2, <1>3, <1>4, <2>1
  <1>5. CASE c.form # "origin"
    <2>1. Has(Upto(s, {"EOL"}), "/CONNECT") <=> s[5] = "/CONNECT"
      BY <1>1, <1>5, AbsoluteLine
    <2> QED
      BY <1>2, <1>3, <1>5, <2>1
  <1> QED
    BY <1>4, <1>5

\* Whatever has been read of a request, dropping the authority of its request line
\* drops nothing else.
LEMMA Reformed ==
    ASSUME NEW c \in Client, c.proto = "http",
           NEW s \in Seq(Letters(c)), NEW v \in Seq(Letters(c)),
           GetUnits(c, s), Len(s) >= Origin(c) + 7 + Logins(c)
    PROVE  ToOriginForm(s) \o v
           = IF c.form = "origin" THEN s \o v
             ELSE <<"GET">> \o SubSeq(s \o v, 5, Len(s \o v))
  <1> DEFINE L == Letters(c)
             line == Upto(s, {"EOL"})
  <1>1. (c.form = "origin" => OriginAt(s)) /\ (c.form # "origin" => AbsoluteAt(s))
    BY GetServed
  <1>2. CASE c.form = "origin"
    <2>1. ~Has(line, "http://")
      BY <1>1, <1>2, OriginLine
    <2> HIDE DEF line
    <2>2. ToOriginForm(s) = s
      BY <2>1 DEF ToOriginForm, line
    <2> QED
      BY <1>2, <2>2
  <1>3. CASE c.form # "origin"
    <2> DEFINE x == s[5]
               R == SubSeq(s, 7, Len(s))
               g == <<"GET">>
               p == <<x>>
               e == <<"EOL">>
               h == <<"GET", x, "EOL">>
    <2>1. /\ Has(line, "http://") /\ line[1] = "GET" /\ line[Len(line)] = x
      BY <1>1, <1>3, AbsoluteLine
    <2>2. Len(s) \in Nat /\ Len(s) >= 6 /\ s[6] = "EOL"
      BY <1>1, <1>3, LenProperties DEF AbsoluteAt
    <2>3. Has(s, "EOL")
      <3>1. 6 \in 1 .. Len(s)
        BY <2>2
      <3> QED
        BY <2>2, <3>1, HasIt
    <2>4. After(s, {"EOL"}) = R
      <3>1. Origin(c) + 1 = 5
        BY <1>3 DEF Origin
      <3>2. After(s, {"EOL"}) = SubSeq(s, 5 + 2, Len(s))
        BY <3>1, LineCut
      <3> QED
        BY <3>2
    <2>5. x \in L /\ "GET" \in L /\ "EOL" \in L
      <3>1. 5 \in 1 .. Len(s)
        BY <2>2
      <3> QED
        BY <3>1, ElementOfSeq DEF Letters
    <2> HIDE DEF L
    <2>6. R \in Seq(L)
      <3>1. 7 \in Nat /\ Len(s) \in Nat /\ 1 <= 7 /\ 7 <= Len(s) + 1 /\ s \in Seq(L)
        BY <2>2 DEF L
      <3> QED
        BY <3>1, Piece
    <2>7. ToOriginForm(s) = h \o R
      <3> HIDE DEF line, R, x
      <3> QED
        BY <2>1, <2>3, <2>4 DEF ToOriginForm, line
    <2>8. SubSeq(s, 5, Len(s)) = p \o (e \o R)
      <3>1. 5 \in 1 .. Len(s) /\ 6 \in 1 .. Len(s) /\ Len(s) \in 5 .. Len(s) /\ Len(s) \in 6 .. Len(s)
            /\ s \in Seq(L)
        BY <2>2 DEF L
      <3>2. SubSeq(s, 5, Len(s)) = p \o SubSeq(s, 5 + 1, Len(s))
        BY <3>1, SubSeqRecursiveFirst
      <3>3. SubSeq(s, 6, Len(s)) = <<s[6]>> \o SubSeq(s, 6 + 1, Len(s))
        BY <3>1, SubSeqRecursiveFirst
      <3>4. 5 + 1 = 6 /\ 6 + 1 = 7
        OBVIOUS
      <3> HIDE DEF p
      <3> QED
        BY <2>2, <3>2, <3>3, <3>4
    <2>9. SubSeq(s \o v, 5, Len(s \o v)) = SubSeq(s, 5, Len(s)) \o v
      <3>1. 5 \in 1 .. Len(s) + 1
        BY <2>2
      <3> QED
        BY <3>1, TailOf
    <2> HIDE DEF x
    <2>10. g \in Seq(L) /\ p \in Seq(L) /\ e \in Seq(L) /\ v \in Seq(L) /\ g \o (p \o e) = h
      <3>1. \A a \in L : <<a>> \in Seq(L)
        OBVIOUS
      <3>2. \A a, b, d \in L : <<a>> \o (<<b>> \o <<d>>) = <<a, b, d>>
        <4> SUFFICES ASSUME NEW a \in L, NEW b \in L, NEW d \in L
                     PROVE  <<a>> \o (<<b>> \o <<d>>) = <<a, b, d>>
          BY Zenon
        <4>1. (<<a>> \o <<b>>) \o <<d>> = <<a, b, d>>
          BY Tupled
        <4>2. <<a>> \in Seq(L) /\ <<b>> \in Seq(L) /\ <<d>> \in Seq(L)
          BY <3>1
        <4>3. (<<a>> \o <<b>>) \o <<d>> = <<a>> \o (<<b>> \o <<d>>)
          BY <4>2, ConcatAssociative
        <4> QED
          BY <4>1, <4>3
      <3>3. v \in Seq(L)
        BY DEF L
      <3> QED
        BY <2>5, <3>1, <3>2, <3>3, Zenon
    <2> HIDE DEF R, g, p, e, h
    <2>11. \A a, b \in Seq(L) : a \o b \in Seq(L)
      BY ConcatProperties
    <2>17. \A a, b, d \in Seq(L) : (a \o b) \o d = a \o (b \o d)
      BY Associates
    <2>12. p \o e \in Seq(L) /\ e \o R \in Seq(L)
      BY <2>6, <2>10, <2>11, Zenon
    <2>13. h \o R = g \o (p \o (e \o R))
      <3>1. (g \o (p \o e)) \o R = g \o ((p \o e) \o R)
        <4>1. g \in Seq(L) /\ p \o e \in Seq(L) /\ R \in Seq(L)
          BY <2>6, <2>10, <2>12
        <4> QED
          BY <4>1, <2>17, Zenon
      <3>2. (p \o e) \o R = p \o (e \o R)
        <4>1. p \in Seq(L) /\ e \in Seq(L) /\ R \in Seq(L)
          BY <2>6, <2>10
        <4> QED
          BY <4>1, <2>17, Zenon
      <3> QED
        BY <2>10, <3>1, <3>2, Zenon
    <2>14. p \o (e \o R) \in Seq(L)
      BY <2>10, <2>11, <2>12, Zenon
    <2>15. (g \o (p \o (e \o R))) \o v = g \o ((p \o (e \o R)) \o v)
      <3>1. g \in Seq(L) /\ p \o (e \o R) \in Seq(L) /\ v \in Seq(L)
        BY <2>10, <2>14
      <3> QED
        BY <3>1, <2>17, Zenon
    <2>16. (h \o R) \o v = g \o ((p \o (e \o R)) \o v)
      BY <2>13, <2>15, Zenon
    <2> QED
      BY <1>3, <2>7, <2>8, <2>9, <2>16, Zenon DEF g
  <1> QED
    BY <1>2, <1>3

\* What is put into a plain request for an upstream that reads it itself.
Inserted == IF path.hop.auth THEN <<"credentials", "EOL">> ELSE <<>>
Expected(whole) ==
    Upto(whole, {"EOL"})
    \o (IF path.hop.auth THEN <<"EOL", "credentials">> ELSE <<>>)
    \o SubSeq(whole, Len(Upto(whole, {"EOL"})) + 1, Len(whole) - 1)

\* The first line of w with z behind it is its first l units.
Lined(w, l, z) ==
    /\ l \in Nat /\ l >= 2 /\ l + 3 <= Len(w) /\ w[l + 1] = "EOL" /\ w[Len(w)] = "EOL"
    /\ w # <<>> /\ Len(w) \in Nat
    /\ Upto(w \o z, {"EOL"}) = SubSeq(w, 1, l)
    /\ After(w \o z, {"EOL"}) = SubSeq(w, l + 2, Len(w)) \o z

\* Whatever is added to a request, its line stays and what follows it grows.
LEMMA LineStays ==
    ASSUME NEW c \in Client, c.proto = "http", NEW S, NEW w \in Seq(S), GetWord(c, w),
           NEW l, l = Origin(c) + 1, NEW z \in Seq(S)
    PROVE  Lined(w, l, z)
  <1> DEFINE s == w \o z
  <1>1. Len(w) = Origin(c) + 7 + Logins(c) /\ GetUnits(c, w)
    BY Zenon DEF GetWord
  <1>2. Len(w) \in Nat /\ Len(z) \in Nat
    BY LenProperties
  <1>3. /\ s \in Seq(S) /\ Len(s) = Len(w) + Len(z) /\ \A i \in 1 .. Len(w) : s[i] = w[i]
    BY Joined
  <1> HIDE DEF s
  <1>4. Len(w) >= Origin(c) + 7 + Logins(c)
    BY <1>1, <1>2
  <1>5. l \in Nat /\ l >= 2 /\ l + 3 <= Len(w) /\ w[l + 1] = "EOL"
    BY <1>1, <1>4, LineCut
  <1>6. Agree(w, s)
    BY <1>2, <1>3 DEF Agree
  <1>7. GetUnits(c, s) /\ Len(s) >= Origin(c) + 7 + Logins(c)
    <2>1. GetWord(c, w)
      OBVIOUS
    <2> QED
      BY <1>6, <2>1, GetAgrees
  <1>8. Upto(s, {"EOL"}) = SubSeq(s, 1, l) /\ After(s, {"EOL"}) = SubSeq(s, l + 2, Len(s))
    <2>1. s \in Seq(S)
      BY <1>3
    <2> QED
      BY <1>7, <2>1, LineCut
  <1>9. SubSeq(s, 1, l) = SubSeq(w, 1, l)
    <2>1. 1 \in 1 .. Len(w) /\ l \in 1 .. Len(w)
      BY <1>2, <1>5
    <2> QED
      BY <2>1, SubSeqOfConcat1 DEF s
  <1>10. SubSeq(s, l + 2, Len(s)) = SubSeq(w, l + 2, Len(w)) \o z
    <2>1. l + 2 \in 1 .. Len(w) + 1
      BY <1>2, <1>5
    <2> QED
      BY <2>1, TailOf DEF s
  <1>11. w[Len(w)] = "EOL"
    <2>1. w[Origin(c) + 7 + Logins(c)] = "EOL"
      <3>1. LoginAt(c, w, Origin(c) + 7)
        BY <1>1, Zenon DEF GetUnits
      <3> QED
        BY <3>1, Zenon DEF LoginAt
    <2> QED
      BY <1>1, <2>1
  <1>12. w # <<>>
    <2>1. Len(w) # 0
      BY <1>2, <1>5
    <2> QED
      BY <2>1
  <1> QED
    BY <1>2, <1>5, <1>8, <1>9, <1>10, <1>11, <1>12 DEF s, Lined

\* What was read, with the line ended: the request and what is behind it.
WithEnd(s) == IF s[Len(s)] = "EOL" THEN s ELSE Append(s, "EOL")

\* What was read, with its last line ended, begins with the request.
LEMMA EndedLine ==
    ASSUME NEW S, NEW w \in Seq(S), w # <<>>, w[Len(w)] = "EOL", NEW s,
           s = w \/ s = w \o <<"body">>, "body" \in S, "EOL" \in S
    PROVE  \E z \in Seq(S) : WithEnd(s) = w \o z
  <1> DEFINE b == <<"body">>
             t == <<"body", "EOL">>
             e == <<"EOL">>
             n == <<>>
  <1>1. b \in Seq(S) /\ e \in Seq(S) /\ t \in Seq(S) /\ b \o e = t /\ Len(b) = 1 /\ b[1] = "body"
        /\ n \in Seq(S)
    <2>1. \A x \in S : <<x>> \in Seq(S) /\ Len(<<x>>) = 1 /\ <<x>>[1] = x
      OBVIOUS
    <2>2. \A x, y \in S : <<x, y>> \in Seq(S) /\ <<x>> \o <<y>> = <<x, y>>
      <3> SUFFICES ASSUME NEW x \in S, NEW y \in S
                   PROVE  <<x, y>> \in Seq(S) /\ <<x>> \o <<y>> = <<x, y>>
        BY Zenon
      <3>1. <<x>> \o <<y>> = <<x, y>>
        BY Tupled
      <3>2. <<x, y>> \in Seq(S)
        OBVIOUS
      <3> QED
        BY <3>1, <3>2
    <2>3. n \in Seq(S)
      OBVIOUS
    <2> QED
      BY <2>1, <2>2, <2>3, Zenon
  <1>2. Len(w) \in Nat
    BY LenProperties
  <1>3. CASE s = w
    <2>1. w \o n = w
      BY ConcatEmptySeq
    <2>2. WithEnd(s) = w \o n
      BY <1>3, <2>1 DEF WithEnd
    <2> QED
      BY <1>1, <2>2
  <1>4. CASE s = w \o <<"body">>
    <2> HIDE DEF b, t, e
    <2>1. /\ s \in Seq(S) /\ Len(s) = Len(w) + Len(b)
          /\ \A i \in 1 .. Len(b) : s[Len(w) + i] = b[i]
      <3>1. s = w \o b
        BY <1>4 DEF b
      <3>2. b \in Seq(S)
        BY <1>1
      <3> HIDE DEF b
      <3> QED
        BY <3>1, <3>2, Joined
    <2>2. s[Len(s)] = "body"
      <3>1. 1 \in 1 .. Len(b) /\ Len(s) = Len(w) + 1
        BY <1>1, <1>2, <2>1
      <3> QED
        BY <1>1, <2>1, <3>1
    <2>3. Append(s, "EOL") = s \o e
      BY <2>1 DEF e
    <2>4. s \o e = w \o t
      <3>1. (w \o b) \o e = w \o (b \o e)
        <4>1. w \in Seq(S) /\ b \in Seq(S) /\ e \in Seq(S)
          BY <1>1
        <4>2. \A x, y, d \in Seq(S) : (x \o y) \o d = x \o (y \o d)
          BY Associates
        <4> QED
          BY <4>1, <4>2, Zenon
      <3>2. s = w \o b
        BY <1>4 DEF b
      <3> QED
        BY <1>1, <3>1, <3>2, Zenon
    <2>5. WithEnd(s) = w \o t
      <3>1. "body" # "EOL"
        OBVIOUS
      <3> QED
        BY <2>2, <2>3, <2>4, <3>1, Zenon DEF WithEnd
    <2> QED
      BY <1>1, <2>5, Zenon
  <1> QED
    BY <1>3, <1>4

\* The line end may be counted before the credentials or behind them.
LEMMA CredentialsMove ==
    ASSUME NEW S, "credentials" \in S, "EOL" \in S, NEW C, NEW D,
           \/ C = <<"credentials", "EOL">> /\ D = <<"EOL", "credentials">>
           \/ C = <<>> /\ D = <<>>
    PROVE  C \in Seq(S) /\ D \in Seq(S) /\ D \o <<"EOL">> = <<"EOL">> \o C
  <1>1. \A x, y \in S : /\ <<x>> \in Seq(S) /\ <<x>> \o <<y>> = <<x, y>>
                        /\ <<x>> \o <<y>> \in Seq(S)
                        /\ (<<x>> \o <<y>>) \o <<x>> = <<x>> \o (<<y>> \o <<x>>)
    <2> SUFFICES ASSUME NEW x \in S, NEW y \in S
                 PROVE  /\ <<x>> \in Seq(S) /\ <<x>> \o <<y>> = <<x, y>>
                        /\ <<x>> \o <<y>> \in Seq(S)
                        /\ (<<x>> \o <<y>>) \o <<x>> = <<x>> \o (<<y>> \o <<x>>)
      BY Zenon
    <2>1. <<x>> \o <<y>> = <<x, y>>
      BY Tupled
    <2>2. <<x>> \in Seq(S) /\ <<y>> \in Seq(S)
      OBVIOUS
    <2>3. <<x>> \o <<y>> \in Seq(S)
      BY <2>2, ConcatProperties
    <2>4. (<<x>> \o <<y>>) \o <<x>> = <<x>> \o (<<y>> \o <<x>>)
      BY <2>2, ConcatAssociative
    <2> QED
      BY <2>1, <2>2, <2>3, <2>4
  <1> DEFINE E == <<"EOL">>
             K == <<"credentials">>
             KE == <<"credentials", "EOL">>
             EK == <<"EOL", "credentials">>
  <1>2. E \in Seq(S) /\ K \o E = KE /\ E \o K = EK /\ KE \in Seq(S) /\ EK \in Seq(S)
        /\ (E \o K) \o E = E \o (K \o E)
    BY <1>1, Zenon
  <1>3. <<>> \in Seq(S) /\ <<>> \o E = E /\ E \o <<>> = E
    BY <1>2, ConcatEmptySeq
  <1> HIDE DEF E, K
  <1>4. CASE C = <<>> /\ D = <<>>
    BY <1>3, <1>4 DEF E
  <1>5. CASE C = KE /\ D = EK
    <2>1. EK \o E = E \o KE
      BY <1>2, Zenon
    <2> HIDE DEF KE, EK
    <2> QED
      BY <1>2, <1>5, <2>1 DEF E
  <1> QED
    BY <1>4, <1>5

\* The order in which a request and the credentials are put together.
LEMMA Rebracketed ==
    ASSUME NEW S
    PROVE  \A a, e, c, d, r, z, v :
              {a, e, c, d, r, z, v} \subseteq Seq(S) /\ d \o e = e \o c =>
                 /\ ((((a \o e) \o c) \o (r \o z)) \o e) \o v \in Seq(S)
                 /\ IsPrefix((a \o d) \o (e \o r), ((((a \o e) \o c) \o (r \o z)) \o e) \o v)
  <1>1. \A x, y, u \in Seq(S) : (x \o y) \o u = x \o (y \o u)
    BY Associates
  <1>2. \A x, y \in Seq(S) : x \o y \in Seq(S)
    BY ConcatProperties
  <1>3. ASSUME NEW a, NEW e, NEW c, NEW d, NEW r, NEW z, NEW v,
               {a, e, c, d, r, z, v} \subseteq Seq(S), d \o e = e \o c
        PROVE  /\ ((((a \o e) \o c) \o (r \o z)) \o e) \o v \in Seq(S)
               /\ IsPrefix((a \o d) \o (e \o r), ((((a \o e) \o c) \o (r \o z)) \o e) \o v)
    <2> DEFINE f == a \o d
               g == z \o e
               p == (a \o e) \o c
               x == p \o r
               t == g \o v
    <2>1. /\ a \in Seq(S) /\ e \in Seq(S) /\ c \in Seq(S) /\ d \in Seq(S)
          /\ r \in Seq(S) /\ z \in Seq(S) /\ v \in Seq(S)
      BY <1>3
    <2>2. f \in Seq(S) /\ a \o e \in Seq(S) /\ g \in Seq(S)
      BY <1>2, <2>1
    <2>3. p \in Seq(S) /\ t \in Seq(S)
      BY <1>2, <2>1, <2>2
    <2>4. x \in Seq(S) /\ x \o t \in Seq(S)
      BY <1>2, <2>1, <2>3
    <2>5. f \o e = p
      <3>1. f \o e = a \o (d \o e)
        <4>1. a \in Seq(S) /\ d \in Seq(S) /\ e \in Seq(S)
          BY <2>1
        <4> QED
          BY <1>1, <4>1, Zenon
      <3>2. p = a \o (e \o c)
        <4>1. a \in Seq(S) /\ e \in Seq(S) /\ c \in Seq(S)
          BY <2>1
        <4> QED
          BY <1>1, <4>1, Zenon
      <3> QED
        BY <1>3, <3>1, <3>2, Zenon
    <2> HIDE DEF f, p
    <2>6. f \o (e \o r) = x
      <3>1. f \in Seq(S) /\ e \in Seq(S) /\ r \in Seq(S)
        BY <2>1, <2>2
      <3>2. (f \o e) \o r = f \o (e \o r)
        BY <1>1, <3>1, Zenon
      <3> QED
        BY <2>5, <3>2, Zenon
    <2>7. p \o (r \o z) = x \o z
      <3>1. p \in Seq(S) /\ r \in Seq(S) /\ z \in Seq(S)
        BY <2>1, <2>3
      <3> QED
        BY <1>1, <3>1, Zenon
    <2> HIDE DEF x
    <2>8. (x \o z) \o e = x \o g
      <3>1. x \in Seq(S) /\ z \in Seq(S) /\ e \in Seq(S)
        BY <2>1, <2>4
      <3> QED
        BY <1>1, <3>1, Zenon
    <2> HIDE DEF g
    <2>9. (x \o g) \o v = x \o t
      <3>1. x \in Seq(S) /\ g \in Seq(S) /\ v \in Seq(S)
        BY <2>1, <2>2, <2>4
      <3> QED
        BY <1>1, <3>1, Zenon
    <2> HIDE DEF t
    <2>10. IsPrefix(x, x \o t)
      <3>1. x \in Seq(S) /\ t \in Seq(S)
        BY <2>3, <2>4
      <3> QED
        BY <3>1, Starting
    <2>11. ((p \o (r \o z)) \o e) \o v = x \o t
      BY <2>7, <2>8, <2>9, Zenon
    <2> QED
      BY <2>4, <2>6, <2>10, <2>11, Zenon DEF f, p
  <1> TAKE a, e, c, d, r, z, v
  <1> HAVE {a, e, c, d, r, z, v} \subseteq Seq(S) /\ d \o e = e \o c
  <1> QED
    BY <1>3, Zenon

\* The same, whatever is added.
LEMMA LineParts ==
    ASSUME NEW c \in Client, c.proto = "http", NEW S, NEW w \in Seq(S), GetWord(c, w),
           NEW l, l = Origin(c) + 1
    PROVE  \A z \in Seq(S) : Lined(w, l, z)
  <1> TAKE z \in Seq(S)
  <1> QED
    BY LineStays

\* An upstream that reads the request itself gets all of it, and the credentials.
LEMMA Forwarded ==
    ASSUME NEW c \in Client, c.proto = "http", NEW S, NEW w \in Seq(S), GetWord(c, w),
           "body" \in S, "EOL" \in S, "credentials" \in S, NEW s,
           NEW l, l = Origin(c) + 1, s = w \/ s = w \o <<"body">>, NEW v \in Seq(S)
    PROVE  /\ WithCredentials(s) \o v \in Seq(S)
           /\ IsPrefix(Expected(w \o <<"body">>), WithCredentials(s) \o v)
  <1> DEFINE E == <<"EOL">>
             B == <<"body">>
             C == IF path.hop.auth THEN <<"credentials", "EOL">> ELSE <<>>
             D == IF path.hop.auth THEN <<"EOL", "credentials">> ELSE <<>>
             whole == w \o B
             line == SubSeq(w, 1, l)
             A == SubSeq(w, l + 2, Len(w))
             ended == WithEnd(s)
  <1>1. \A z \in Seq(S) : Lined(w, l, z)
    BY LineParts, Zenon
  <1>2. B \in Seq(S) /\ E \in Seq(S)
    <2>1. \A x \in S : <<x>> \in Seq(S)
      OBVIOUS
    <2> QED
      BY <2>1, Zenon
  <1>3. C \in Seq(S) /\ D \in Seq(S) /\ D \o E = E \o C
    BY CredentialsMove
  <1>4. /\ l \in Nat /\ l >= 2 /\ l + 3 <= Len(w) /\ w[l + 1] = "EOL" /\ w[Len(w)] = "EOL"
        /\ w # <<>> /\ Len(w) \in Nat
        /\ Upto(whole, {"EOL"}) = line
    <2>1. Lined(w, l, B)
      BY <1>1, <1>2, Zenon
    <2> QED
      BY <2>1, Zenon DEF Lined
  <1>5. PICK z \in Seq(S) : ended = w \o z
    <2>1. w # <<>> /\ w[Len(w)] = "EOL"
      BY <1>4
    <2> QED
      BY <2>1, EndedLine, Zenon
  <1>6. Upto(ended, {"EOL"}) = line /\ After(ended, {"EOL"}) = A \o z
    BY <1>1, <1>5, Zenon DEF Lined
  <1> HIDE DEF ended
  <1>7. WithCredentials(s) = (((line \o E) \o C) \o (A \o z)) \o E
    <2>1. WithCredentials(s)
          = (((Upto(ended, {"EOL"}) \o E) \o C) \o After(ended, {"EOL"})) \o E
      BY Zenon DEF WithCredentials, WithEnd, ended
    <2> QED
      BY <1>6, <2>1, Zenon
  <1>8. /\ line \in Seq(S) /\ Len(line) = l
        /\ A \in Seq(S)
        /\ SubSeq(w, l + 1, Len(w)) = E \o A
    <2>1. /\ 1 \in Nat /\ 1 <= l + 1 /\ l <= Len(w) /\ l - 1 + 1 = l
          /\ l + 2 \in Nat /\ 1 <= l + 2 /\ l + 2 <= Len(w) + 1 /\ Len(w) <= Len(w)
          /\ 1 <= 1
      BY <1>4
    <2>2. line \in Seq(S) /\ Len(line) = l
      <3>1. Len(line) = l - 1 + 1
        BY <1>4, <2>1, Piece
      <3>2. line \in Seq(S)
        BY <1>4, <2>1, Piece
      <3> QED
        BY <2>1, <3>1, <3>2
    <2>3. A \in Seq(S)
      BY <1>4, <2>1, Piece
    <2>4. l + 1 \in 1 .. Len(w) /\ Len(w) \in l + 1 .. Len(w) /\ l + 1 + 1 = l + 2
      BY <1>4
    <2>5. SubSeq(w, l + 1, Len(w)) = <<w[l + 1]>> \o SubSeq(w, l + 1 + 1, Len(w))
      BY <2>4, SubSeqRecursiveFirst
    <2> QED
      BY <1>4, <2>2, <2>3, <2>4, <2>5
  <1>9. SubSeq(whole, l + 1, Len(whole) - 1) = E \o A
    <2>1. Len(B) = 1
      OBVIOUS
    <2> HIDE DEF B
    <2>2. Len(whole) = Len(w) + Len(B)
      BY <1>2, Joined
    <2>3. Len(whole) - 1 = Len(w)
      BY <1>4, <2>1, <2>2
    <2>4. l + 1 \in 1 .. Len(w) /\ Len(w) \in 1 .. Len(w)
      BY <1>4
    <2>5. SubSeq(w \o B, l + 1, Len(w)) = SubSeq(w, l + 1, Len(w))
      BY <1>2, <2>4, SubSeqOfConcat1
    <2> QED
      BY <1>8, <2>3, <2>5
  <1>10. Expected(whole) = (line \o D) \o (E \o A)
    <2>1. Expected(whole)
          = (Upto(whole, {"EOL"}) \o D)
            \o SubSeq(whole, Len(Upto(whole, {"EOL"})) + 1, Len(whole) - 1)
      BY Zenon DEF Expected
    <2> HIDE DEF whole, line, A, D, E
    <2> QED
      BY <1>4, <1>8, <1>9, <2>1, Zenon
  <1> HIDE DEF line, A, C, D, E, B, whole
  <1>11. /\ ((((line \o E) \o C) \o (A \o z)) \o E) \o v \in Seq(S)
         /\ IsPrefix((line \o D) \o (E \o A), ((((line \o E) \o C) \o (A \o z)) \o E) \o v)
    <2>1. {line, E, C, D, A, z, v} \subseteq Seq(S)
      BY <1>2, <1>3, <1>8
    <2> QED
      BY <1>3, <2>1, Rebracketed, Zenon
  <1> QED
    BY <1>7, <1>10, <1>11, Zenon DEF whole, B

\* What was read and what has arrived are what was sent.
LEMMA PutTogether ==
    ASSUME NEW S, NEW w \in Seq(S), NEW t \in Seq(S), NEW b \in Seq(S),
           Len(t) <= Len(w), Len(b) = Len(w) - Len(t),
           \A i \in 1 .. Len(t) : t[i] = w[i],
           \A i \in 1 .. Len(w) - Len(t) : b[i] = w[Len(t) + i]
    PROVE  t \o b = w
  <1> DEFINE x == t \o b
  <1>1. Len(w) \in Nat /\ Len(t) \in Nat /\ Len(b) \in Nat
    BY LenProperties
  <1>2. /\ x \in Seq(S) /\ Len(x) = Len(t) + Len(b)
        /\ \A i \in 1 .. Len(t) : x[i] = t[i]
        /\ \A i \in 1 .. Len(b) : x[Len(t) + i] = b[i]
    BY Joined
  <1> HIDE DEF x
  <1>3. Len(x) = Len(w)
    BY <1>1, <1>2
  <1>4. ASSUME NEW i \in 1 .. Len(x) PROVE x[i] = w[i]
    <2>1. CASE i <= Len(t)
      <3>1. i \in 1 .. Len(t)
        BY <1>1, <2>1
      <3> QED
        BY <1>2, <3>1
    <2>2. CASE ~(i <= Len(t))
      <3> DEFINE j == i - Len(t)
      <3>1. j \in 1 .. Len(b) /\ j \in 1 .. Len(w) - Len(t) /\ i = Len(t) + j
        BY <1>1, <1>3, <2>2
      <3> HIDE DEF j
      <3> QED
        BY <1>2, <3>1
    <2> QED
      BY <2>1, <2>2
  <1>5. x = w
    BY <1>2, <1>3, <1>4, SeqEqual
  <1> QED
    BY <1>5 DEF x

\* One who has read the request has read it alone or with the one unit behind it.
LEMMA WithOrWithout ==
    ASSUME NEW S, NEW w \in Seq(S), NEW b \in Seq(S), Len(b) = 1, NEW t \in Seq(S),
           Len(w) <= Len(t), Len(t) <= Len(w \o b),
           \A i \in 1 .. Len(t) : t[i] = (w \o b)[i]
    PROVE  t = w \/ t = w \o b
  <1> DEFINE x == w \o b
  <1>1. Len(w) \in Nat /\ Len(t) \in Nat
    BY LenProperties
  <1>2. x \in Seq(S) /\ Len(x) = Len(w) + Len(b) /\ \A i \in 1 .. Len(w) : x[i] = w[i]
    BY Joined
  <1>3. Len(w) <= Len(t) /\ Len(t) <= Len(x) /\ \A i \in 1 .. Len(t) : t[i] = x[i]
    OBVIOUS
  <1> HIDE DEF x
  <1>4. CASE Len(t) = Len(w)
    <2>1. t = w
      BY <1>2, <1>3, <1>4, SeqEqual
    <2> QED
      BY <2>1
  <1>5. CASE Len(t) = Len(x)
    <2>1. t = x
      BY <1>2, <1>3, <1>5, SeqEqual
    <2> QED
      BY <2>1 DEF x
  <1>6. Len(t) = Len(w) \/ Len(t) = Len(x)
    BY <1>1, <1>2, <1>3
  <1> QED
    BY <1>4, <1>5, <1>6

\* What there is of a plain request, once it is served.
LEMMA HttpRest ==
    ASSUME ServedInv, client.proto = "http", wait = "open", ~gone, CameWhole,
           NEW k \in Nat, NEW m \in Nat, InRow(k, m), ReadUpTo(k)
    PROVE  LET W == Handshake(client, path.auth)[1]
               L == Letters(client)
           IN  /\ script[1] = W \o <<"body">> /\ W \in Seq(L) /\ <<"body">> \in Seq(L)
               /\ taken \in Seq(L) /\ inbox \in Seq(L)
               /\ Unsent = <<>>
               /\ taken \o inbox = W \o <<"body">>
               /\ taken = W \/ taken = W \o <<"body">>
  <1> DEFINE W == Handshake(client, path.auth)[1]
             L == Letters(client)
             B == <<"body">>
             X == script[1]
             U(i) == UnitAt(client, path.auth, i)
  <1>1. client \in Client /\ script \in Seq(Seq(L))
    BY CaseType
  <1>2. W \in Seq(L) /\ W # <<>>
    <2>1. /\ Handshake(client, path.auth) \in Seq(Seq(L))
          /\ Len(Handshake(client, path.auth)) \in 1 .. 3
          /\ \A j \in 1 .. Len(Handshake(client, path.auth)) : Handshake(client, path.auth)[j] # <<>>
      BY <1>1, HandshakeType
    <2>2. 1 \in 1 .. Len(Handshake(client, path.auth))
      <3>1. Len(Handshake(client, path.auth)) \in 1 .. 3
        BY <2>1
      <3>2. \A n \in 1 .. 3 : 1 \in 1 .. n
        OBVIOUS
      <3> QED
        BY <3>1, <3>2, Zenon
    <2> QED
      BY <2>1, <2>2, ElementOfSeq
  <1>3. B \in Seq(L) /\ Len(B) = 1
    BY DEF Letters
  <1>4. script = <<W \o B>>
    BY Zenon DEF script, Script
  <1>5. Len(script) = 1 /\ X = W \o B
    BY <1>4
  <1>6. taken \in Seq(L) /\ inbox \in Seq(L)
    BY DEF ServedInv, Recognised
  <1>7. /\ k <= m /\ Len(inbox) = m - k /\ m = Offset(client, path.auth, sent)
        /\ \A i \in 1 .. m - k : inbox[i] = U(k + i)
    BY Zenon DEF InRow
  <1>8. Len(taken) = k /\ \A i \in 1 .. k : taken[i] = U(i)
    <2>1. wait \in Handling \cup {"open"} /\ client.proto # "socks5"
      OBVIOUS
    <2> QED
      BY <2>1, Zenon DEF ReadUpTo
  <1>9. \A i : i <= Len(X) => U(i) = X[i]
    BY Zenon DEF UnitAt, script
  <1>10. Len(W) <= Len(taken)
    BY Zenon DEF CameWhole, IsPrefix
  <1>11. sent \in 0 .. Len(script)
    BY DEF ServedInv, TypeOK
  <1>12. Len(W) \in Nat /\ Len(W) # 0
    BY <1>2, EmptySeq, LenProperties
  <1>13. Offset(client, path.auth, 0) = 0
    BY DEF Offset
  <1>14. Offset(client, path.auth, 1) = Len(X) + 0
    <2>1. 1 # 0
      OBVIOUS
    <2> QED
      BY <2>1, Zenon DEF Offset, script
  <1>15. Len(script) = 1 => FlattenSeq(SubSeq(script, 1 + 1, Len(script))) = <<>>
    BY <1>1, Remains
  <1>16. Unsent = FlattenSeq(SubSeq(script, sent + 1, Len(script)))
    BY DEF Unsent
  <1> HIDE DEF W, L, B, X, U
  <1>17. sent = 1
    <2>1. sent = 0 \/ sent = 1
      BY <1>5, <1>11
    <2>2. sent # 0
      BY <1>7, <1>8, <1>10, <1>12, <1>13
    <2> QED
      BY <2>1, <2>2
  <1>18. Unsent = <<>>
    BY <1>5, <1>15, <1>16, <1>17
  <1>19. X \in Seq(L) /\ Len(X) = Len(W) + Len(B)
    BY <1>2, <1>3, <1>5, Joined
  <1>20. m = Len(X)
    BY <1>3, <1>7, <1>12, <1>14, <1>17, <1>19
  <1>21. \A i \in 1 .. k : i <= Len(X)
    BY <1>3, <1>7, <1>12, <1>19, <1>20
  <1>22. \A i \in 1 .. m - k : k + i <= Len(X)
    BY <1>7, <1>20
  <1>23. /\ \A i \in 1 .. Len(taken) : taken[i] = X[i]
         /\ \A i \in 1 .. Len(X) - Len(taken) : inbox[i] = X[Len(taken) + i]
    BY <1>7, <1>8, <1>9, <1>20, <1>21, <1>22
  <1>24. Len(taken) <= Len(X) /\ Len(inbox) = Len(X) - Len(taken)
    BY <1>7, <1>8, <1>20
  <1>25. taken \o inbox = X
    BY <1>6, <1>19, <1>23, <1>24, PutTogether
  <1>26. taken = W \/ taken = W \o B
    <2>1. /\ Len(taken) <= Len(W \o B)
          /\ \A i \in 1 .. Len(taken) : taken[i] = (W \o B)[i]
      BY <1>5, <1>23, <1>24
    <2> QED
      BY <1>2, <1>3, <1>6, <1>10, <2>1, WithOrWithout
  <1> QED
    BY <1>2, <1>3, <1>5, <1>6, <1>18, <1>25, <1>26 DEF W, L, B, X

\* A plain request reaches its next reader whole, in the form it expects.
LEMMA HttpStream ==
    ASSUME ServedInv, Passing, client.proto = "http", wait = "open", ~gone, CameWhole,
           NEW k \in Nat, NEW m \in Nat, InRow(k, m), ReadUpTo(k)
    PROVE  LET whole == script[1]
               rest  == passed \o inbox \o Unsent
           IN  /\ path.multi =>
                     rest = (IF client.form = "origin" THEN whole
                             ELSE <<"GET">> \o SubSeq(whole, 5, Len(whole)))
               /\ Untouched => IsPrefix(Expected(whole), rest)
               /\ ~path.multi /\ ~Untouched => client.form = "mentions CONNECT" \/ rest = whole
  <1> DEFINE W == Handshake(client, path.auth)[1]
             L == Letters(client)
             B == <<"body">>
             whole == script[1]
             rest == passed \o inbox \o Unsent
             front == passed \o inbox
             S == L \cup {"credentials"}
  <1>1. /\ whole = W \o B /\ W \in Seq(L) /\ B \in Seq(L)
        /\ taken \in Seq(L) /\ inbox \in Seq(L)
        /\ Unsent = <<>>
        /\ taken \o inbox = W \o B
        /\ taken = W \/ taken = W \o B
    BY HttpRest, Zenon
  <1>2. client \in Client /\ client.proto = "http"
    BY CaseType
  <1>3. IsPrefix(W, taken)
    BY Zenon DEF CameWhole
  <1>4. W \in Seq(Alphabet(client)) /\ GetWord(client, W)
    BY <1>2, GetSpelled
  <1>5. /\ path.multi => passed = ToOriginForm(taken)
        /\ Untouched => passed = WithCredentials(taken)
        /\ ~path.multi /\ ~Untouched /\ ~Has(Upto(taken, {"EOL"}), "/CONNECT") => passed = taken
    <2>1. client.proto = "http" /\ wait = "open"
      OBVIOUS
    <2> QED
      BY <2>1, Zenon DEF Passing
  <1>6. "body" \in S /\ "EOL" \in S /\ "credentials" \in S
    BY DEF Letters
  <1>7. W \in Seq(S) /\ inbox \in Seq(S)
    <2>1. L \subseteq S
      OBVIOUS
    <2> HIDE DEF S, L, W
    <2>2. Seq(L) \subseteq Seq(S)
      BY <2>1, SeqMonotonic
    <2> QED
      BY <1>1, <2>2, Zenon
  <1>8. rest = front \o <<>>
    BY <1>1, Zenon
  <1>9. \A T : front \in Seq(T) => rest = front
    <2> TAKE T
    <2> HIDE DEF front, rest
    <2> HAVE front \in Seq(T)
    <2>1. front \o <<>> = front
      BY ConcatEmptySeq
    <2> QED
      BY <1>8, <2>1
  <1> HIDE DEF W, rest
  <1>10. GetUnits(client, taken) /\ Len(taken) >= Origin(client) + 7 + Logins(client)
    <2>1. Agree(W, taken)
      BY <1>1, <1>3, <1>4, Starts
    <2> QED
      BY <1>4, <2>1, GetAgrees
  <1>11. CASE path.multi
    <2>1. ~Untouched
      BY <1>11 DEF Untouched
    <2> DEFINE t == ToOriginForm(taken) \o inbox
               z == taken \o inbox
    <2>2. t = IF client.form = "origin" THEN z ELSE <<"GET">> \o SubSeq(z, 5, Len(z))
      BY <1>1, <1>2, <1>10, Reformed
    <2>3. z = whole
      BY <1>1, Zenon
    <2>4. front = t
      BY <1>5, <1>11, Zenon
    <2>5. z \in Seq(L) /\ Len(z) \in Nat
      BY <1>1, ConcatProperties, LenProperties
    <2>6. t \in Seq(L)
      <3>1. CASE client.form = "origin"
        BY <2>2, <2>5, <3>1
      <3>2. CASE client.form # "origin"
        <4> DEFINE u == SubSeq(z, 5, Len(z))
                   g == <<"GET">>
        <4>1. u \in Seq(L) /\ g \in Seq(L)
          <5>1. 5 <= Len(z) + 1
            <6>1. Len(z) = Len(taken) + Len(inbox) /\ Len(taken) \in Nat /\ Len(inbox) \in Nat
              BY <1>1, Joined, LenProperties
            <6>2. Origin(client) \in {1, 4} /\ Logins(client) \in Nat
              BY DEF Origin, Logins
            <6> HIDE DEF z
            <6> QED
              BY <1>10, <6>1, <6>2
          <5>2. "GET" \in L
            BY DEF Letters
          <5> HIDE DEF z, L
          <5>3. u \in Seq(L)
            BY <2>5, <5>1, Piece
          <5>4. \A x \in L : <<x>> \in Seq(L)
            OBVIOUS
          <5> QED
            BY <5>2, <5>3, <5>4, Zenon
        <4>2. t = g \o u
          BY <2>2, <3>2, Zenon
        <4> HIDE DEF t, g, u, L
        <4> QED
          BY <4>1, <4>2, ConcatProperties
      <3> QED
        BY <3>1, <3>2
    <2>7. rest = t
      BY <1>9, <2>4, <2>6, Zenon
    <2> QED
      BY <1>11, <2>1, <2>2, <2>3, <2>7, Zenon DEF rest
  <1>12. CASE Untouched
    <2>1. ~path.multi
      BY <1>12 DEF Untouched
    <2> DEFINE t == WithCredentials(taken) \o inbox
    <2>2. t \in Seq(S) /\ IsPrefix(Expected(W \o B), t)
      <3> DEFINE l == Origin(client) + 1
      <3>1. l = Origin(client) + 1
        OBVIOUS
      <3> HIDE DEF S, l
      <3> QED
        BY <1>1, <1>2, <1>4, <1>6, <1>7, <3>1, Forwarded, Zenon
    <2>3. front = t
      BY <1>5, <1>12, Zenon
    <2>4. rest = t
      BY <1>9, <2>2, <2>3, Zenon
    <2> QED
      <3>1. IsPrefix(Expected(whole), rest)
        BY <1>1, <2>2, <2>4, Zenon
      <3> QED
        BY <1>12, <2>1, <3>1, Zenon DEF rest
  <1>13. CASE ~path.multi /\ ~Untouched
    <2>1. CASE client.form # "mentions CONNECT"
      <3>1. ~Has(Upto(taken, {"EOL"}), "/CONNECT")
        BY <1>1, <1>2, <1>10, <2>1, NoTunnel
      <3>2. front = W \o B
        BY <1>1, <1>5, <1>13, <3>1, Zenon
      <3>3. front \in Seq(L)
        BY <1>1, <3>2, ConcatProperties
      <3>4. rest = whole
        BY <1>1, <1>9, <3>2, <3>3, Zenon
      <3> QED
        BY <1>13, <3>4, Zenon DEF rest
    <2>2. CASE client.form = "mentions CONNECT"
      BY <1>13, <2>2, Zenon
    <2> QED
      BY <2>1, <2>2
  <1> QED
    BY <1>11, <1>12, <1>13

\* A request that was read alone came whole.
LEMMA NothingBehind ==
    ASSUME ServedInv, taken = Handshake(client, path.auth)[1]
    PROVE  CameWhole
  <1>1. taken \in Seq(Letters(client)) /\ <<>> \in Seq(Letters(client))
    BY DEF ServedInv, Recognised
  <1>2. IsPrefix(taken, taken \o <<>>)
    BY <1>1, Starting
  <1>3. taken \o <<>> = taken
    BY <1>1, ConcatEmptySeq
  <1> QED
    BY <1>2, <1>3, Zenon DEF CameWhole

\* Outside plain HTTP there is the payload, and nothing else, once the handshake is over.
LEMMA PayloadStream ==
    ASSUME ServedInv, Passing, client.proto \in {"socks4", "socks5", "https"}, wait = "open",
           ~gone, EndsWithRequest, NEW k \in Nat, NEW m \in Nat, InRow(k, m), ReadUpTo(k)
    PROVE  passed \o inbox \o Unsent = <<"payload">>
  <1> DEFINE L == Letters(client)
             P == <<"payload">>
             W == Handshake(client, path.auth)[1]
             U(i) == UnitAt(client, path.auth, i)
  <1>1. taken \in Seq(L)
    BY DEF ServedInv, Recognised
  <1>2. client.proto # "socks5" => Len(taken) = k /\ \A i \in 1 .. k : taken[i] = U(i)
    <2>1. wait \in Handling \cup {"open"}
      OBVIOUS
    <2> QED
      BY <2>1, Zenon DEF ReadUpTo
  <1>3. client.proto # "socks5" => Over = Len(W)
    BY DEF Over
  <1>4. P \in Seq(L) /\ Len(P) = 1 /\ P[1] = "payload"
    BY DEF Letters
  <1>5. CameWhole => Len(W) <= Len(taken)
    BY Zenon DEF CameWhole, IsPrefix
  <1>6. CASE client.proto = "socks4" /\ Untouched /\ CameWhole
    <2>1. passed = Behind
      <3>1. client.proto # "http" /\ wait \in Replies \cup {"next", "open"}
        BY <1>6
      <3> QED
        BY <1>6, <3>1, Zenon DEF Passing
    <2>2. Len(taken) = k /\ \A i \in 1 .. k : taken[i] = U(i)
      BY <1>2, <1>6
    <2>3. Over = Len(W) /\ k >= Over
      BY <1>3, <1>5, <1>6, <2>2
    <2>4. /\ inbox \in Seq(L) /\ Unsent \in Seq(L)
          /\ Over \in Nat /\ U(Over + 1) = "payload"
          /\ \/ k = Over /\ inbox \o Unsent = P
             \/ k = Over + 1 /\ inbox \o Unsent = <<>>
      <3>1. client.proto # "http"
        BY <1>6
      <3> QED
        BY <2>3, <3>1, RestIs
    <2>5. Behind = SubSeq(taken, Over + 1, k)
      BY <2>2, <2>3, Zenon DEF Behind
    <2> HIDE DEF L, P, W, U
    <2>6. CASE k = Over
      <3>1. Behind = <<>>
        BY <1>1, <2>4, <2>5, <2>6, SubSeqEmpty
      <3>2. inbox \o Unsent = P
        BY <2>4, <2>6
      <3>3. passed \o inbox = inbox
        BY <2>1, <2>4, <3>1, ConcatEmptySeq
      <3> QED
        BY <3>2, <3>3 DEF P
    <2>7. CASE k = Over + 1
      <3> DEFINE n == Over + 1
      <3>1. n \in Nat /\ 1 <= n /\ n <= k + 1 /\ k <= Len(taken) /\ k - n + 1 = 1 /\ 1 \in 1 .. k - n + 1
            /\ n + 1 - 1 = n /\ n \in 1 .. k
        BY <2>2, <2>4, <2>7
      <3>2. U(n) = "payload"
        BY <2>4
      <3>3. Behind = SubSeq(taken, n, k)
        BY <2>5
      <3> HIDE DEF n
      <3>4. /\ Behind \in Seq(L) /\ Len(Behind) = k - n + 1
            /\ \A i \in 1 .. k - n + 1 : Behind[i] = taken[n + i - 1]
        BY <1>1, <3>1, <3>3, Piece
      <3>5. Behind[1] = "payload"
        <4>1. Behind[1] = taken[n + 1 - 1]
          BY <3>1, <3>4
        <4> QED
          BY <2>2, <3>1, <3>2, <4>1
      <3>6. Behind = P
        <4>1. Len(Behind) = Len(P) /\ \A i \in 1 .. Len(Behind) : Behind[i] = P[i]
          BY <1>4, <3>1, <3>4, <3>5
        <4> QED
          BY <1>4, <3>4, <4>1, SeqEqual
      <3>7. inbox \o Unsent = <<>>
        BY <2>4, <2>7
      <3>8. (P \o inbox) \o Unsent = P \o (inbox \o Unsent)
        <4>1. P \in Seq(L) /\ inbox \in Seq(L) /\ Unsent \in Seq(L)
          BY <1>4, <2>4
        <4>2. \A x, y, u \in Seq(L) : (x \o y) \o u = x \o (y \o u)
          BY Associates
        <4> QED
          BY <4>1, <4>2, Zenon
      <3>9. P \o <<>> = P
        BY <1>4, ConcatEmptySeq
      <3> QED
        BY <2>1, <3>6, <3>7, <3>8, <3>9, Zenon DEF P
    <2> QED
      BY <2>4, <2>6, <2>7
  <1>7. CASE ~(client.proto = "socks4" /\ Untouched)
    <2>1. passed = <<>>
      <3>1. client.proto # "http" /\ wait \in Replies \cup {"next", "open"}
        OBVIOUS
      <3> QED
        BY <1>7, <3>1, Zenon DEF Passing
    <2>2. k = Over
      <3>1. CASE client.proto = "socks5"
        BY <3>1 DEF ReadUpTo, Over
      <3>2. CASE client.proto # "socks5"
        <4>1. taken = W
          BY <1>7, <3>2 DEF EndsWithRequest
        <4> QED
          BY <1>2, <1>3, <3>2, <4>1
      <3> QED
        BY <3>1, <3>2
    <2>3. /\ inbox \in Seq(L) /\ Unsent \in Seq(L)
          /\ Over \in Nat
          /\ \/ k = Over /\ inbox \o Unsent = P
             \/ k = Over + 1 /\ inbox \o Unsent = <<>>
      <3>1. client.proto # "http" /\ k >= Over
        BY <2>2
      <3> QED
        BY <3>1, RestIs
    <2> HIDE DEF L, P
    <2>4. inbox \o Unsent = P
      BY <2>2, <2>3
    <2>5. passed \o inbox = inbox
      BY <2>1, <2>3, ConcatEmptySeq
    <2> QED
      BY <2>4, <2>5 DEF P
  <1>8. CASE client.proto = "socks4" /\ Untouched /\ ~CameWhole
    <2>1. taken = W
      BY <1>8 DEF EndsWithRequest
    <2>2. CameWhole
      BY <2>1, NothingBehind
    <2> QED
      BY <1>8, <2>2
  <1> QED
    BY <1>6, <1>7, <1>8

\* For every client, every path and every cut of what the client sends: what follows the
\* request reaches the target whole and alone, whether the first read returned some of it
\* or it came later; a plain request goes on in the form its next reader expects.  To
\* an HTTP upstream it begins with the request line, the credentials of the router and
\* the headers; of what follows them nothing is said (src/protocols/proxy.rs:1074-1108,
\* src/protocols/http.rs:47-70, :104-114).
THEOREM InboundDeliversTheStream == Spec => []DeliversTheStream
  <1> DEFINE DeliversInv == TakenInv /\ Passing
  <1>1. Init => DeliversInv
    <2>1. Init => Passing
      BY DEF Init, Passing, Before5, Names5, Replies
    <2> QED
      BY <2>1, ServedAtFirst, TakenAtFirst DEF TakenInv
  <1>2. DeliversInv /\ [Next]_vars => DeliversInv'
    BY ServedStep, WholeStep, FlowStep, Charged5Step, PassingStep DEF TakenInv
  <1>3. DeliversInv => DeliversTheStream
    <2> SUFFICES ASSUME ServedInv, Flow, Passing, wait = "open", EndsWithRequest, ~gone
                 PROVE  DeliversTheStream
      BY DEF DeliversTheStream, TakenInv
    <2>1. PICK k \in Nat, m \in Nat : InRow(k, m) /\ ReadUpTo(k)
      BY DEF Flow
    <2>2. client.proto \in {"socks4", "socks5", "https", "http"}
      <3>1. client.proto # "other"
        BY DEF ServedInv, Recognised
      <3>2. client \in Client
        BY CaseType
      <3> QED
        BY <3>1, <3>2, ClientType
    <2>3. CASE client.proto # "http"
      <3>1. client.proto \in {"socks4", "socks5", "https"}
        BY <2>2, <2>3
      <3>2. passed \o inbox \o Unsent = <<"payload">>
        BY <2>1, <3>1, PayloadStream
      <3> QED
        BY <2>3, <3>2 DEF DeliversTheStream
    <2>4. CASE client.proto = "http"
      <3>1. CameWhole
          BY <2>4, NothingBehind DEF EndsWithRequest
      <3> DEFINE whole == script[1]
                 rest == passed \o inbox \o Unsent
      <3>2. /\ path.multi =>
                  rest = (IF client.form = "origin" THEN whole
                          ELSE <<"GET">> \o SubSeq(whole, 5, Len(whole)))
            /\ Untouched => IsPrefix(Expected(whole), rest)
            /\ ~path.multi /\ ~Untouched => client.form = "mentions CONNECT" \/ rest = whole
        BY <2>1, <2>4, <3>1, HttpStream
      <3> HIDE DEF whole, rest
      <3>3. CASE path.multi
        BY <2>4, <3>2, <3>3 DEF DeliversTheStream, Untouched, whole, rest
      <3>4. CASE Untouched
        BY <2>4, <3>2, <3>4 DEF DeliversTheStream, Untouched, Expected, whole, rest
      <3>5. CASE ~path.multi /\ ~Untouched
        BY <2>4, <3>2, <3>5 DEF DeliversTheStream, whole, rest
      <3> QED
        BY <3>3, <3>4, <3>5
    <2> QED
      BY <2>3, <2>4
  <1> QED
    BY <1>1, <1>2, <1>3, PTL DEF Spec

===============================================================================
