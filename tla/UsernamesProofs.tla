---------------------------- MODULE UsernamesProofs ----------------------------
(***************************************************************************)
(* The user names a client may present, for every set of keys and words    *)
(* and user names of any length.                                           *)
(*                                                                         *)
(* The loop is at an even distance from the key that ends the base, every  *)
(* turn behind it has found a key, and each key has the value of the last  *)
(* of its turns.  A user name that was composed has a key at each of these *)
(* positions up to the end, or up to the chain, so the loop stops there    *)
(* and nowhere before.                                                     *)
(***************************************************************************)
EXTENDS Usernames, SequenceTheorems, WellFoundedInduction, TLAPS

Part == Keys \cup Words \cup {Blank}

\* Where the loop is after j turns.
Turn(j) == FirstKey + 2 * j

\* What the selection holds of a key after m turns.
Got(t, m) ==
    \/ sel.tags[t] = Blank /\ \A j \in 0 .. m - 1 : parts[Turn(j)] # t
    \/ \E j \in 0 .. m - 1 : /\ parts[Turn(j)] = t /\ sel.tags[t] = Tagged(Turn(j))
                             /\ \A l \in j + 1 .. m - 1 : parts[Turn(l)] # t

Turned(m) ==
    /\ i = Turn(m)
    /\ \A j \in 0 .. m - 1 : Turn(j) <= Len(parts) /\ parts[Turn(j)] \in TagKeys
    /\ \A t \in TagKeys : Got(t, m)

Looped ==
    /\ base = SubSeq(parts, 1, FirstKey - 1)
    /\ \E m \in Nat : Turned(m)
    /\ pc = "looping" => sel.chain = <<>>
    /\ pc = "refused" => i <= Len(parts) /\ parts[i] \notin Keys
    /\ pc = "done" => \/ i > Len(parts) /\ sel.chain = <<>>
                      \/ i <= Len(parts) /\ parts[i] = "chain" /\ sel.chain = ChainName

UsernamesInv ==
    /\ TypeOK
    /\ parts \in Seq(Part) /\ Len(parts) <= MaxParts
    /\ sel \in [tags : [TagKeys -> Part], chain : Seq(Part)]
    /\ pc = "typing" => sel = [tags |-> Nothing, chain |-> <<>>]
    /\ pc # "typing" => Looped

-------------------------------------------------------------------------------

\* A set of natural numbers that is not empty has a least element.
LEMMA LeastExists ==
    ASSUME NEW S \in SUBSET Nat, S # {}
    PROVE  \E m \in S : \A k \in S : m <= k
  <1> DEFINE R == OpToRel(<, Nat)
  <1>1. IsWellFoundedOn(R, Nat)
    BY NatLessThanWellFounded
  <1>2. \A x, y \in Nat : <<x, y>> \in R <=> x < y
    BY DEF OpToRel
  <1> HIDE DEF R
  <1>3. PICK m \in S : \A y \in S : ~ (<<y, m>> \in R)
    BY <1>1, WFMin
  <1>4. ASSUME NEW k \in S PROVE m <= k
    <2>1. m \in Nat /\ k \in Nat /\ ~(<<k, m>> \in R)
      BY <1>3
    <2>2. ~(k < m)
      BY <1>2, <2>1
    <2> QED
      BY <2>1, <2>2
  <1> QED
    BY <1>4

\* The key that ends the base is the first with a value behind it, or the base is
\* the whole user name (src/routing.rs:113-122).
LEMMA FirstKeyIsFirst ==
    ASSUME parts \in Seq(Part)
    PROVE  /\ Len(parts) \in Nat /\ FirstKey \in 1 .. Len(parts) + 1
           /\ \A k \in 1 .. FirstKey - 1 : ~IsKeyAt(k)
  <1> DEFINE S == {k \in DOMAIN parts : IsKeyAt(k)} \cup {Len(parts) + 1}
  <1>1. Len(parts) \in Nat /\ DOMAIN parts = 1 .. Len(parts)
    BY LenProperties
  <1>2. S \in SUBSET Nat /\ S # {} /\ \A k \in S : k \in 1 .. Len(parts) + 1
    BY <1>1
  <1>3. FirstKey \in S /\ \A k \in S : FirstKey <= k
    <2> HIDE DEF S
    <2>1. \E m \in S : \A k \in S : m <= k
      BY <1>2, LeastExists
    <2>2. Min(S) \in S /\ \A k \in S : Min(S) <= k
      BY <2>1 DEF Min
    <2> QED
      BY <2>2 DEF FirstKey, S
  <1>4. FirstKey \in 1 .. Len(parts) + 1
    BY <1>2, <1>3
  <1>5. ASSUME NEW k \in 1 .. FirstKey - 1 PROVE ~IsKeyAt(k)
    <2>1. k \in DOMAIN parts /\ ~(FirstKey <= k)
      BY <1>1, <1>4
    <2> QED
      BY <1>3, <2>1
  <1> QED
    BY <1>1, <1>4, <1>5

\* A part is taken for a value as it stands.
LEMMA TaggedType ==
    ASSUME parts \in Seq(Part), NEW k \in 1 .. Len(parts)
    PROVE  Tagged(k) \in Part
  <1>1. Len(parts) \in Nat
    BY LenProperties
  <1>2. CASE k = Len(parts)
    BY <1>2 DEF Tagged, Part
  <1>3. CASE k # Len(parts)
    <2>1. k + 1 \in 1 .. Len(parts)
      BY <1>1, <1>3
    <2>2. parts[k + 1] \in Part
      BY <2>1, ElementOfSeq
    <2> QED
      BY <1>3, <2>2 DEF Tagged
  <1> QED
    BY <1>2, <1>3

LEMMA ChainNameType ==
    ASSUME parts \in Seq(Part), i \in Nat
    PROVE  ChainName \in Seq(Part)
  <1>1. \A k \in i + 1 .. Len(parts) : parts[k] \in Part
    BY LenProperties, ElementOfSeq
  <1>2. i + 1 \in Int /\ Len(parts) \in Int
    BY LenProperties
  <1>3. SubSeq(parts, i + 1, Len(parts)) \in Seq(Part)
    BY <1>1, <1>2, SubSeqProperties
  <1> QED
    BY <1>3 DEF ChainName

-------------------------------------------------------------------------------

LEMMA TypeKeepsInv ==
    ASSUME UsernamesInv, NEW part \in Part, Type(part)
    PROVE  UsernamesInv'
  <1>1. /\ parts' \in Seq(Part) /\ Len(parts') = Len(parts) + 1 /\ Len(parts) \in Nat
    BY AppendProperties DEF UsernamesInv, Type
  <1>2. Len(parts') <= MaxParts
    BY <1>1, UsernamesAssumption DEF Type
  <1> QED
    BY <1>1, <1>2 DEF UsernamesInv, TypeOK, Type, Nothing

LEMMA SplitKeepsInv ==
    ASSUME UsernamesInv, Split
    PROVE  UsernamesInv'
  <1>1. /\ Len(parts) \in Nat /\ FirstKey \in 1 .. Len(parts) + 1 /\ FirstKey' = FirstKey
        /\ MaxParts \in Nat /\ Len(parts) <= MaxParts
    BY FirstKeyIsFirst, UsernamesAssumption DEF UsernamesInv, Split, FirstKey, IsKeyAt
  <1>2. i' \in 1 .. (MaxParts + 2)
    BY <1>1 DEF Split
  <1>3. Turned(0)'
    <2>1. i' = FirstKey' + 2 * 0
      BY <1>1 DEF Split
    <2>2. \A j \in 0 .. 0 - 1 : FALSE
      OBVIOUS
    <2>3. \A t \in TagKeys : sel'.tags[t] = Blank
      BY DEF UsernamesInv, Split, Nothing
    <2> QED
      BY <2>1, <2>2, <2>3 DEF Turned, Turn, Got
  <1>4. base' = SubSeq(parts', 1, FirstKey' - 1) /\ sel'.chain = <<>> /\ pc' = "looping"
    BY <1>1 DEF Split, UsernamesInv
  <1>5. 0 \in Nat
    OBVIOUS
  <1>6. Looped'
    BY <1>3, <1>4, <1>5 DEF Looped
  <1> QED
    BY <1>2, <1>4, <1>6 DEF UsernamesInv, TypeOK, Split

\* The loop ends, in one way or the other.
LEMMA EndingKeepsInv ==
    ASSUME UsernamesInv, UnknownKey \/ Chain \/ Finish
    PROVE  UsernamesInv'
  <1>1. /\ pc = "looping" /\ pc' \in {"refused", "done"} /\ Looped
        /\ UNCHANGED <<parts, i, base>> /\ sel.chain = <<>>
    BY DEF UnknownKey, Chain, Finish, UsernamesInv, Looped
  <1>2. /\ sel' \in [tags : [TagKeys -> Part], chain : Seq(Part)] /\ sel'.tags = sel.tags
        /\ sel' = sel \/ (Chain /\ sel'.chain = ChainName)
    <2>1. CASE Chain
      <3>1. ChainName \in Seq(Part)
        BY UsernamesAssumption, ChainNameType DEF UsernamesInv, TypeOK
      <3>2. sel = [tags |-> sel.tags, chain |-> sel.chain]
        BY DEF UsernamesInv
      <3>3. sel' = [tags |-> sel.tags, chain |-> ChainName]
        BY <2>1, <3>2 DEF Chain
      <3> QED
        BY <2>1, <3>1, <3>3 DEF UsernamesInv
    <2>2. CASE UnknownKey \/ Finish
      BY <2>2 DEF UsernamesInv, UnknownKey, Finish
    <2> QED
      BY <2>1, <2>2
  <1>3. FirstKey' = FirstKey /\ ChainName' = ChainName
    BY <1>1 DEF FirstKey, IsKeyAt, ChainName
  <1>4. PICK m \in Nat : Turned(m)
    BY <1>1 DEF Looped
  <1>5. Turned(m)'
    BY <1>1, <1>2, <1>3, <1>4 DEF Turned, Turn, Got, Tagged
  <1>6. Looped'
    <2>1. base' = SubSeq(parts', 1, FirstKey' - 1)
      BY <1>1, <1>3 DEF Looped
    <2>2. pc' = "refused" => i' <= Len(parts') /\ parts'[i'] \notin Keys
      BY <1>1 DEF UnknownKey, Chain, Finish
    <2>3. pc' = "done" =>
             \/ i' > Len(parts') /\ sel'.chain = <<>>
             \/ i' <= Len(parts') /\ parts'[i'] = "chain" /\ sel'.chain = ChainName'
      BY <1>1, <1>2, <1>3 DEF UnknownKey, Chain, Finish
    <2> QED
      BY <1>1, <1>5, <2>1, <2>2, <2>3 DEF Looped
  <1> QED
    BY <1>1, <1>2, <1>6 DEF UsernamesInv, TypeOK

LEMMA TagKeepsInv ==
    ASSUME UsernamesInv, Tag
    PROVE  UsernamesInv'
  <1>1. /\ pc = "looping" /\ Looped /\ sel.chain = <<>> /\ i <= Len(parts)
        /\ parts[i] \in TagKeys /\ i' = i + 2
        /\ UNCHANGED <<parts, pc, base>>
    BY DEF Tag, Pair, UsernamesInv, Looped
  <1>2. PICK m \in Nat : Turned(m)
    BY <1>1 DEF Looped
  <1>3. /\ Len(parts) \in Nat /\ FirstKey \in 1 .. Len(parts) + 1 /\ FirstKey' = FirstKey
        /\ i = FirstKey + 2 * m /\ i \in 1 .. Len(parts)
        /\ MaxParts \in Nat /\ Len(parts) <= MaxParts
    BY <1>1, <1>2, FirstKeyIsFirst, UsernamesAssumption
       DEF UsernamesInv, FirstKey, IsKeyAt, Turned, Turn
  <1> DEFINE key == parts[i]
             value == Tagged(i)
  <1>4. value \in Part
    BY <1>3, TaggedType DEF UsernamesInv
  <1>5. /\ sel'.tags = [sel.tags EXCEPT ![key] = value] /\ sel'.chain = <<>>
        /\ sel'.tags \in [TagKeys -> Part]
        /\ sel' \in [tags : [TagKeys -> Part], chain : Seq(Part)]
    <2>1. /\ sel = [tags |-> sel.tags, chain |-> sel.chain]
          /\ sel.tags \in [TagKeys -> Part] /\ sel.chain \in Seq(Part)
      BY DEF UsernamesInv
    <2>2. sel' = [tags |-> [sel.tags EXCEPT ![key] = value], chain |-> sel.chain]
      BY <2>1 DEF Tag
    <2> HIDE DEF key, value
    <2>3. [sel.tags EXCEPT ![key] = value] \in [TagKeys -> Part]
      BY <1>4, <2>1
    <2> QED
      BY <1>1, <2>1, <2>2, <2>3
  <1>6. /\ sel'.tags[key] = value
        /\ \A t \in TagKeys : t # key => sel'.tags[t] = sel.tags[t]
    BY <1>1, <1>5 DEF UsernamesInv
  <1>7. i' \in 1 .. (MaxParts + 2)
    BY <1>1, <1>3
  <1>8. Turned(m + 1)'
    <2>1. i' = FirstKey + 2 * (m + 1)
      BY <1>1, <1>3
    <2>2. ASSUME NEW j \in 0 .. (m + 1) - 1
          PROVE  FirstKey + 2 * j <= Len(parts) /\ parts[FirstKey + 2 * j] \in TagKeys
      <3>1. CASE j = m
        BY <1>1, <1>3, <3>1
      <3>2. CASE j # m
        <4>1. j \in 0 .. m - 1
          BY <3>2
        <4> QED
          BY <1>2, <4>1 DEF Turned, Turn
      <3> QED
        BY <3>1, <3>2
    <2>3. ASSUME NEW t \in TagKeys
          PROVE  \/ /\ sel'.tags[t] = Blank
                    /\ \A j \in 0 .. (m + 1) - 1 : parts[FirstKey + 2 * j] # t
                 \/ \E j \in 0 .. (m + 1) - 1 :
                       /\ parts[FirstKey + 2 * j] = t
                       /\ sel'.tags[t] = Tagged(FirstKey + 2 * j)
                       /\ \A l \in j + 1 .. (m + 1) - 1 : parts[FirstKey + 2 * l] # t
      <3>1. CASE t = key
        <4>1. m \in 0 .. (m + 1) - 1 /\ \A l \in m + 1 .. (m + 1) - 1 : FALSE
          OBVIOUS
        <4>2. parts[FirstKey + 2 * m] = t /\ sel'.tags[t] = Tagged(FirstKey + 2 * m)
          BY <1>3, <1>6, <3>1
        <4> QED
          BY <4>1, <4>2
      <3>2. CASE t # key
        <4>1. sel'.tags[t] = sel.tags[t] /\ parts[FirstKey + 2 * m] # t
          BY <1>3, <1>6, <3>2
        <4>2. \A l \in 0 .. (m + 1) - 1 : l \in 0 .. m - 1 \/ l = m
          OBVIOUS
        <4>3. Got(t, m)
          BY <1>2 DEF Turned
        <4>4. CASE sel.tags[t] = Blank /\ \A j \in 0 .. m - 1 : parts[FirstKey + 2 * j] # t
          BY <4>1, <4>2, <4>4
        <4>5. ASSUME NEW j \in 0 .. m - 1, parts[FirstKey + 2 * j] = t,
                     sel.tags[t] = Tagged(FirstKey + 2 * j),
                     \A l \in j + 1 .. m - 1 : parts[FirstKey + 2 * l] # t
              PROVE  /\ j \in 0 .. (m + 1) - 1
                     /\ parts[FirstKey + 2 * j] = t
                     /\ sel'.tags[t] = Tagged(FirstKey + 2 * j)
                     /\ \A l \in j + 1 .. (m + 1) - 1 : parts[FirstKey + 2 * l] # t
          <5>1. \A l \in j + 1 .. (m + 1) - 1 : l \in j + 1 .. m - 1 \/ l = m
            OBVIOUS
          <5>2. j \in 0 .. (m + 1) - 1
            OBVIOUS
          <5> QED
            BY <4>1, <4>5, <5>1, <5>2
        <4> QED
          BY <4>3, <4>4, <4>5 DEF Got, Turn
      <3> QED
        BY <3>1, <3>2
    <2>4. \A k : Tagged(k)' = IF k = Len(parts) THEN Blank ELSE parts[k + 1]
      BY <1>1 DEF Tagged
    <2> QED
      BY <1>1, <1>3, <2>1, <2>2, <2>3, <2>4 DEF Turned, Turn, Got, Tagged
  <1>9. Looped'
    <2>1. m + 1 \in Nat /\ base' = SubSeq(parts', 1, FirstKey' - 1)
      BY <1>1, <1>3 DEF Looped
    <2> QED
      BY <1>1, <1>5, <1>8, <2>1 DEF Looped
  <1> QED
    BY <1>1, <1>5, <1>7, <1>9 DEF UsernamesInv, TypeOK, Part

LEMMA UsernamesInit == Init => UsernamesInv
  BY UsernamesAssumption DEF Init, UsernamesInv, TypeOK, Nothing, Part

LEMMA UsernamesStep == UsernamesInv /\ [Next]_vars => UsernamesInv'
  <1> SUFFICES ASSUME UsernamesInv, [Next]_vars PROVE UsernamesInv'
    OBVIOUS
  <1>1. CASE \E part \in Part : Type(part)
    BY <1>1, TypeKeepsInv
  <1>2. CASE Split
    BY <1>2, SplitKeepsInv
  <1>3. CASE UnknownKey \/ Chain \/ Finish
    BY <1>3, EndingKeepsInv
  <1>4. CASE Tag
    BY <1>4, TagKeepsInv
  <1>5. CASE UNCHANGED vars
    <2>1. /\ FirstKey' = FirstKey /\ ChainName' = ChainName
          /\ \A m : Turned(m)' = Turned(m)
      BY <1>5 DEF vars, FirstKey, IsKeyAt, ChainName, Turned, Turn, Got, Tagged
    <2>2. Looped' = Looped
      BY <1>5, <2>1 DEF vars, Looped
    <2> QED
      BY <1>5, <2>2 DEF vars, UsernamesInv, TypeOK
  <1> QED
    BY <1>1, <1>2, <1>3, <1>4, <1>5 DEF Next, Part

LEMMA UsernamesInvariant == Spec => []UsernamesInv
  BY UsernamesInit, UsernamesStep, PTL DEF Spec

\* The loop stays within the user name, and every dimension has a value
\* (src/routing.rs:125-150).
THEOREM UsernamesTypeOK == Spec => []TypeOK
  <1>1. UsernamesInv => TypeOK
    BY DEF UsernamesInv
  <1> QED
    BY <1>1, UsernamesInvariant, PTL

\* The base is a user name without tokens (src/routing.rs:113-122).
THEOREM UsernamesBaseIsItself == Spec => []BaseIsItself
  <1>1. UsernamesInv => BaseIsItself
    <2> SUFFICES ASSUME UsernamesInv, pc \in {"done", "refused"} PROVE BaseIsItself
      BY DEF BaseIsItself
    <2>1. base = SubSeq(parts, 1, FirstKey - 1) /\ parts \in Seq(Part)
      BY DEF UsernamesInv, Looped
    <2>2. /\ Len(parts) \in Nat /\ FirstKey \in 1 .. Len(parts) + 1
          /\ \A k \in 1 .. FirstKey - 1 : ~IsKeyAt(k)
      BY <2>1, FirstKeyIsFirst
    <2>3. \A k \in 1 .. FirstKey - 1 : parts[k] \in Part
      BY <2>1, <2>2, ElementOfSeq
    <2>4. base \in Seq(Part) /\ Len(base) = FirstKey - 1 /\ DOMAIN base = 1 .. FirstKey - 1
          /\ \A k \in 1 .. FirstKey - 1 : base[k] = parts[k]
      BY <2>1, <2>2, <2>3, SubSeqProperties, LenProperties
    <2>5. ASSUME NEW k \in 1 .. FirstKey - 1, k # Len(parts)
          PROVE  base[k] \notin Keys
      BY <2>2, <2>4, <2>5 DEF IsKeyAt
    <2>6. \A k \in 1 .. Len(base) - 1 : base[k] \notin Keys
      <3>1. \A k \in 1 .. Len(base) - 1 : k \in 1 .. FirstKey - 1 /\ k # Len(parts)
        BY <2>2, <2>4
      <3> QED
        BY <2>5, <3>1
    <2>7. ASSUME FirstKey - 1 = Len(parts) PROVE base = parts
      BY <2>1, <2>4, <2>7, SeqEqual
    <2>8. base # parts => \A k \in DOMAIN base : base[k] \notin Keys
      <3> SUFFICES ASSUME base # parts, NEW k \in 1 .. FirstKey - 1 PROVE base[k] \notin Keys
        BY <2>4
      <3>1. k # Len(parts)
        BY <2>2, <2>7
      <3> QED
        BY <2>5, <3>1
    <2> QED
      BY <2>6, <2>8 DEF BaseIsItself
  <1> QED
    BY <1>1, UsernamesInvariant, PTL

-------------------------------------------------------------------------------

Pairs == [key : TagKeys, value : Keys \cup Words \cup {Blank}]

\* Where the keys and values of a composed user name are.
LaidOut(b, n, pairs, name) ==
    /\ Len(b) \in Nat /\ Len(parts) \in Nat
    /\ name = <<>> => Len(parts) = Len(b) + 2 * n
    /\ name # <<>> => Len(parts) > Len(b) + 2 * n /\ parts[Len(b) + 1 + 2 * n] = "chain"
    /\ \A j \in 0 .. n - 1 : /\ parts[Len(b) + 1 + 2 * j] = pairs[j + 1].key
                             /\ parts[Len(b) + 2 + 2 * j] = pairs[j + 1].value

LEMMA ComposedParts ==
    ASSUME NEW b \in Seq(Part), NEW n \in Nat, NEW pairs \in [1 .. n -> Pairs],
           NEW name \in Seq(Part), parts = Composed(b, pairs, name)
    PROVE  LaidOut(b, n, pairs, name)
  <1> DEFINE body == [k \in 1 .. (2 * n) |->
                         IF k % 2 = 1 THEN pairs[(k + 1) \div 2].key ELSE pairs[k \div 2].value]
             tail == IF name = <<>> THEN <<>> ELSE <<"chain">> \o name
  <1>1. Len(pairs) = n
    OBVIOUS
  <1>2. parts = (b \o body) \o tail
    BY <1>1 DEF Composed
  <1>3. body \in Seq(Part) /\ Len(body) = 2 * n
    <2>1. ASSUME NEW k \in 1 .. 2 * n PROVE body[k] \in Part
      <3>1. CASE k % 2 = 1
        <4>1. (k + 1) \div 2 \in 1 .. n
          BY <3>1
        <4> QED
          BY <3>1, <4>1 DEF Pairs, Part, Keys
      <3>2. CASE k % 2 # 1
        <4>1. k \div 2 \in 1 .. n
          BY <3>2
        <4> QED
          BY <3>2, <4>1 DEF Pairs, Part
      <3> QED
        BY <3>1, <3>2
    <2>2. DOMAIN body = 1 .. 2 * n
      OBVIOUS
    <2> HIDE DEF body
    <2>3. body \in [1 .. 2 * n -> Part]
      <3>1. body = [k \in 1 .. 2 * n |-> body[k]]
        BY DEF body
      <3> QED
        BY <2>1, <3>1
    <2>4. 2 * n \in Nat
      OBVIOUS
    <2> QED
      BY <2>2, <2>3, <2>4
  <1>4. ASSUME NEW j \in 0 .. n - 1
        PROVE  body[2 * j + 1] = pairs[j + 1].key /\ body[2 * j + 2] = pairs[j + 1].value
    <2>1. /\ 2 * j + 1 \in 1 .. 2 * n /\ 2 * j + 2 \in 1 .. 2 * n
          /\ (2 * j + 1) % 2 = 1 /\ (2 * j + 2) % 2 # 1
          /\ (2 * j + 1 + 1) \div 2 = j + 1 /\ (2 * j + 2) \div 2 = j + 1
      OBVIOUS
    <2> QED
      BY <2>1
  <1> DEFINE word == "chain"
             one  == <<word>>
  <1>5. one \in Seq(Part) /\ Len(one) = 1 /\ one[1] = word
    BY DEF Part, Keys
  <1>6. tail = IF name = <<>> THEN <<>> ELSE one \o name
    OBVIOUS
  <1> HIDE DEF body, tail, word, one
  <1>7. tail \in Seq(Part) /\ (name = <<>> => Len(tail) = 0)
        /\ (name # <<>> => Len(tail) > 0 /\ tail[1] = word)
    <2>1. CASE name = <<>>
      BY <1>6, <2>1
    <2>2. CASE name # <<>>
      <3>1. /\ one \o name \in Seq(Part) /\ Len(one \o name) = 1 + Len(name)
            /\ Len(name) \in Nat
            /\ \A k \in 1 .. 1 + Len(name) :
                  (one \o name)[k] = IF k <= 1 THEN one[k] ELSE name[k - 1]
        <4>1. /\ one \o name \in Seq(Part) /\ Len(one \o name) = Len(one) + Len(name)
              /\ \A k \in 1 .. Len(one) + Len(name) :
                    (one \o name)[k] = IF k <= Len(one) THEN one[k] ELSE name[k - Len(one)]
          BY <1>5, ConcatProperties
        <4>2. Len(one) = 1 /\ Len(name) \in Nat
          BY <1>5, LenProperties
        <4> QED
          BY <4>1, <4>2
      <3>2. (one \o name)[1] = word
        BY <1>5, <3>1
      <3> QED
        BY <1>6, <2>2, <3>1, <3>2
    <2> QED
      BY <2>1, <2>2
  <1>8. /\ Len(b) \in Nat /\ Len(tail) \in Nat
        /\ b \o body \in Seq(Part) /\ Len(b \o body) = Len(b) + 2 * n
        /\ \A k \in 1 .. Len(b) + 2 * n :
              (b \o body)[k] = IF k <= Len(b) THEN b[k] ELSE body[k - Len(b)]
    <2>1. Len(b) \in Nat /\ Len(tail) \in Nat
      BY <1>7, LenProperties
    <2>2. body \in Seq(Part) /\ Len(body) = 2 * n
      BY <1>3
    <2> HIDE DEF body, tail
    <2>3. /\ b \o body \in Seq(Part) /\ Len(b \o body) = Len(b) + Len(body)
          /\ \A k \in 1 .. Len(b) + Len(body) :
                (b \o body)[k] = IF k <= Len(b) THEN b[k] ELSE body[k - Len(b)]
      BY <2>2, ConcatProperties
    <2> QED
      BY <2>1, <2>2, <2>3
  <1> DEFINE front == b \o body
  <1>9. front \in Seq(Part) /\ Len(front) = Len(b) + 2 * n
    BY <1>8
  <1>10. /\ Len(front \o tail) = Len(front) + Len(tail)
         /\ \A k \in 1 .. Len(front) + Len(tail) :
              (front \o tail)[k] = IF k <= Len(front) THEN front[k] ELSE tail[k - Len(front)]
    <2> HIDE DEF front
    <2> QED
      BY <1>7, <1>9, ConcatProperties
  <1>11. Len(parts) = Len(b) + 2 * n + Len(tail)
    BY <1>2, <1>9, <1>10
  <1>12. name # <<>> => parts[Len(b) + 1 + 2 * n] = word
    <2> SUFFICES ASSUME name # <<>> PROVE parts[Len(b) + 1 + 2 * n] = word
      OBVIOUS
    <2> HIDE DEF front
    <2>1. /\ Len(b) + 1 + 2 * n \in 1 .. Len(front) + Len(tail)
          /\ ~(Len(b) + 1 + 2 * n <= Len(front)) /\ Len(b) + 1 + 2 * n - Len(front) = 1
      BY <1>7, <1>8, <1>9
    <2>2. (front \o tail)[Len(b) + 1 + 2 * n] = tail[1]
      BY <1>10, <2>1
    <2> QED
      BY <1>2, <1>7, <2>2 DEF front
  <1>13. ASSUME NEW k \in 1 .. 2 * n
         PROVE  parts[Len(b) + k] = body[k]
    <2>1. /\ Len(b) + k \in 1 .. Len(b) + 2 * n /\ ~(Len(b) + k <= Len(b))
          /\ Len(b) + k - Len(b) = k
      BY <1>8
    <2>2. front[Len(b) + k] = body[k]
      BY <1>8, <2>1
    <2> HIDE DEF front
    <2>3. Len(b) + k \in 1 .. Len(front) + Len(tail) /\ Len(b) + k <= Len(front)
      BY <1>8, <1>9, <2>1
    <2>4. (front \o tail)[Len(b) + k] = front[Len(b) + k]
      BY <1>10, <2>3
    <2> QED
      BY <1>2, <2>2, <2>4 DEF front
  <1>14. ASSUME NEW j \in 0 .. n - 1
         PROVE  /\ parts[Len(b) + 1 + 2 * j] = pairs[j + 1].key
                /\ parts[Len(b) + 2 + 2 * j] = pairs[j + 1].value
    <2>1. /\ 2 * j + 1 \in 1 .. 2 * n /\ 2 * j + 2 \in 1 .. 2 * n
          /\ Len(b) + (2 * j + 1) = Len(b) + 1 + 2 * j
          /\ Len(b) + (2 * j + 2) = Len(b) + 2 + 2 * j
      BY <1>8
    <2>2. parts[Len(b) + (2 * j + 1)] = body[2 * j + 1]
      BY <1>13, <2>1
    <2>3. parts[Len(b) + (2 * j + 2)] = body[2 * j + 2]
      BY <1>13, <2>1
    <2> QED
      BY <1>4, <2>1, <2>2, <2>3
  <1>15. /\ Len(parts) \in Nat
         /\ name = <<>> => Len(parts) = Len(b) + 2 * n
         /\ name # <<>> => Len(parts) > Len(b) + 2 * n
    <2>1. Len(b) \in Nat /\ Len(tail) \in Nat
      BY <1>8
    <2>2. name = <<>> => Len(tail) = 0
      BY <1>7
    <2>3. name # <<>> => Len(tail) > 0
      BY <1>7
    <2> HIDE DEF tail
    <2> QED
      BY <1>11, <2>1, <2>2, <2>3
  <1> QED
    BY <1>8, <1>12, <1>14, <1>15 DEF word, LaidOut

\* The last of a list of pairs with a key is the one the loop has met last.
LEMMA LastPair ==
    ASSUME NEW n \in Nat, NEW pairs \in [1 .. n -> Pairs], NEW t, NEW j \in 0 .. n - 1,
           pairs[j + 1].key = t, \A l \in j + 1 .. n - 1 : pairs[l + 1].key # t
    PROVE  Last(pairs, t) = pairs[j + 1].value
  <1> DEFINE S == {k \in DOMAIN pairs : pairs[k].key = t}
  <1>1. j + 1 \in S
    OBVIOUS
  <1>2. ASSUME NEW k \in S PROVE k \in Nat /\ k <= j + 1
    <2>1. k \in 1 .. n /\ pairs[k].key = t
      OBVIOUS
    <2>2. CASE k > j + 1
      <3>1. k - 1 \in j + 1 .. n - 1 /\ (k - 1) + 1 = k
        BY <2>1, <2>2
      <3>2. pairs[(k - 1) + 1].key # t
        BY <3>1
      <3> QED
        BY <2>1, <3>1, <3>2
    <2> QED
      BY <2>1, <2>2
  <1>3. \A k \in S : j + 1 >= k
    BY <1>2
  <1> HIDE DEF S
  <1>4. \E x \in S : \A y \in S : x >= y
    BY <1>1, <1>3
  <1>5. Max(S) \in S /\ \A y \in S : Max(S) >= y
    BY <1>4 DEF Max
  <1>6. Max(S) = j + 1
    BY <1>1, <1>2, <1>5
  <1>7. S # {}
    BY <1>1
  <1> QED
    BY <1>6, <1>7 DEF Last, S

\* A user name composed of a base, keys with values, and a chain's name selects
\* them, the last value of a key winning (src/routing.rs:126-153).
THEOREM UsernamesSelectsWhatWasComposed == Spec => []SelectsWhatWasComposed
  <1>1. UsernamesInv => SelectsWhatWasComposed
    <2> SUFFICES ASSUME UsernamesInv, pc \in {"done", "refused"}, NEW pairs \in PairLists
                 PROVE  LET used == Len(base) + 2 * Len(pairs)
                            name == IF used + 1 < Len(parts) /\ parts[used + 1] = "chain"
                                    THEN SubSeq(parts, used + 2, Len(parts)) ELSE <<>>
                        IN  parts = Composed(base, pairs, name) =>
                               /\ pc = "done"
                               /\ sel.tags = [k \in TagKeys |-> Last(pairs, k)]
                               /\ sel.chain = IF name = <<Blank>> THEN <<>> ELSE name
      BY DEF SelectsWhatWasComposed
    <2>1. PICK n \in Nat : pairs \in [1 .. n -> Pairs]
      BY DEF PairLists, Pairs
    <2>2. Len(pairs) = n
      BY <2>1
    <2> DEFINE used == Len(base) + 2 * n
               name == IF used + 1 < Len(parts) /\ parts[used + 1] = "chain"
                       THEN SubSeq(parts, used + 2, Len(parts)) ELSE <<>>
    <2> SUFFICES ASSUME parts = Composed(base, pairs, name)
                 PROVE  /\ pc = "done"
                        /\ sel.tags = [k \in TagKeys |-> Last(pairs, k)]
                        /\ sel.chain = IF name = <<Blank>> THEN <<>> ELSE name
      BY <2>2
    <2>3. /\ parts \in Seq(Part) /\ Looped /\ base = SubSeq(parts, 1, FirstKey - 1)
          /\ sel \in [tags : [TagKeys -> Part], chain : Seq(Part)]
      BY DEF UsernamesInv, Looped
    <2>4. Len(parts) \in Nat /\ FirstKey \in 1 .. Len(parts) + 1
      BY <2>3, FirstKeyIsFirst
    <2>5. base \in Seq(Part) /\ Len(base) = FirstKey - 1
      <3>1. \A k \in 1 .. FirstKey - 1 : parts[k] \in Part
        BY <2>3, <2>4, ElementOfSeq
      <3> QED
        BY <2>3, <2>4, <3>1, SubSeqProperties
    <2>6. name \in Seq(Part)
      <3>1. \A k \in used + 2 .. Len(parts) : parts[k] \in Part
        BY <2>1, <2>3, <2>4, <2>5, ElementOfSeq
      <3>2. used + 2 \in Int
        BY <2>1, <2>4, <2>5
      <3>3. SubSeq(parts, used + 2, Len(parts)) \in Seq(Part)
        BY <2>4, <3>1, <3>2, SubSeqProperties
      <3> QED
        BY <3>3
    <2>7. name = <<>> \/ name = SubSeq(parts, used + 2, Len(parts))
      OBVIOUS
    <2> HIDE DEF name
    <2>8. /\ name = <<>> => Len(parts) = Len(base) + 2 * n
          /\ name # <<>> => /\ Len(parts) > Len(base) + 2 * n
                            /\ parts[Len(base) + 1 + 2 * n] = "chain"
          /\ \A j \in 0 .. n - 1 : /\ parts[Len(base) + 1 + 2 * j] = pairs[j + 1].key
                                   /\ parts[Len(base) + 2 + 2 * j] = pairs[j + 1].value
      <3>1. LaidOut(base, n, pairs, name)
        BY <2>1, <2>5, <2>6, ComposedParts, Zenon
      <3> QED
        BY <3>1 DEF LaidOut
    <2>9. /\ Len(base) + 1 = FirstKey /\ Turn(n) = Len(base) + 2 * n + 1
          /\ Len(base) + 2 * n >= 0
          /\ \A j \in 0 .. n - 1 : /\ Turn(j) = Len(base) + 1 + 2 * j
                                   /\ Turn(j) + 1 = Len(base) + 2 + 2 * j
                                   /\ Turn(j) + 1 < Turn(n)
      BY <2>1, <2>4, <2>5 DEF Turn
    <2>10. /\ name = <<>> => Len(parts) < Turn(n)
           /\ name # <<>> => parts[Turn(n)] = "chain" /\ Turn(n) <= Len(parts)
           /\ Len(parts) >= Turn(n) - 1
           /\ \A j \in 0 .. n - 1 : /\ parts[Turn(j)] = pairs[j + 1].key
                                    /\ parts[Turn(j)] \in TagKeys
                                    /\ Turn(j) < Len(parts)
                                    /\ Tagged(Turn(j)) = pairs[j + 1].value
      <3>1. /\ name = <<>> => Len(parts) < Turn(n)
            /\ name # <<>> => parts[Turn(n)] = "chain" /\ Turn(n) <= Len(parts)
            /\ Len(parts) >= Turn(n) - 1
        BY <2>1, <2>4, <2>5, <2>8, <2>9
      <3>2. ASSUME NEW j \in 0 .. n - 1
            PROVE  /\ parts[Turn(j)] = pairs[j + 1].key
                   /\ parts[Turn(j)] \in TagKeys
                   /\ Turn(j) < Len(parts)
                   /\ Tagged(Turn(j)) = pairs[j + 1].value
        <4>1. j + 1 \in 1 .. n
          BY <2>1
        <4>2. pairs[j + 1].key \in TagKeys
          BY <2>1, <4>1 DEF Pairs
        <4>3. parts[Turn(j)] = pairs[j + 1].key /\ parts[Turn(j) + 1] = pairs[j + 1].value
          BY <2>8, <2>9
        <4>4. Turn(j) < Len(parts)
          BY <2>1, <2>4, <2>5, <2>9, <3>1
        <4> QED
          BY <2>4, <4>2, <4>3, <4>4 DEF Tagged
      <3> QED
        BY <3>1, <3>2
    <2>11. PICK m \in Nat : Turned(m)
      BY <2>3 DEF Looped
    <2>12. "chain" \notin TagKeys /\ TagKeys \subseteq Keys /\ "chain" \in Keys
      BY UsernamesAssumption DEF Keys
    <2>13. m = n
      <3>1. CASE m < n
        <4>1. m \in 0 .. n - 1 /\ i = Turn(m)
          BY <2>1, <2>11, <3>1 DEF Turned
        <4>2. parts[i] \in TagKeys /\ i < Len(parts)
          BY <2>10, <4>1
        <4>3. i \in Int
          BY <2>4, <4>1 DEF Turn
        <4>4. i <= Len(parts) /\ ~(i > Len(parts))
          BY <2>4, <4>2, <4>3
        <4> QED
          BY <2>3, <2>12, <4>2, <4>4 DEF Looped
      <3>2. CASE m > n
        <4>1. n \in 0 .. m - 1
          BY <2>1, <2>11, <3>2
        <4>2. Turn(n) <= Len(parts) /\ parts[Turn(n)] \in TagKeys
          BY <2>11, <4>1 DEF Turned
        <4>3. Turn(n) \in Int
          BY <2>1, <2>4 DEF Turn
        <4>4. ~(Len(parts) < Turn(n))
          BY <2>4, <4>2, <4>3
        <4> QED
          BY <2>10, <2>12, <4>2, <4>4
      <3> QED
        BY <2>1, <2>11, <3>1, <3>2
    <2>14. i = Turn(n) /\ i \in Int /\ i + 1 = used + 2
      BY <2>1, <2>4, <2>5, <2>9, <2>11, <2>13 DEF Turned, Turn
    <2>15. pc = "done" /\ sel.chain = IF name = <<Blank>> THEN <<>> ELSE name
      <3>1. CASE name = <<>>
        <4>1. i > Len(parts) /\ ~(i <= Len(parts))
          BY <2>4, <2>10, <2>14, <3>1
        <4>2. pc = "done" /\ sel.chain = <<>>
          BY <2>3, <4>1 DEF Looped
        <4> QED
          BY <3>1, <4>2
      <3>2. CASE name # <<>>
        <4>1. i <= Len(parts) /\ ~(i > Len(parts)) /\ parts[i] = "chain"
          BY <2>4, <2>10, <2>14, <3>2
        <4>2. pc = "done" /\ sel.chain = ChainName
          BY <2>3, <2>12, <4>1 DEF Looped
        <4>3. name = SubSeq(parts, i + 1, Len(parts))
          BY <2>7, <2>14, <3>2
        <4> QED
          BY <4>2, <4>3 DEF ChainName
      <3> QED
        BY <3>1, <3>2
    <2>16. ASSUME NEW t \in TagKeys PROVE sel.tags[t] = Last(pairs, t)
      <3>1. Got(t, n)
        BY <2>11, <2>13 DEF Turned
      <3>2. CASE sel.tags[t] = Blank /\ \A j \in 0 .. n - 1 : parts[Turn(j)] # t
        <4>1. ASSUME NEW k \in 1 .. n PROVE pairs[k].key # t
          <5>1. k - 1 \in 0 .. n - 1 /\ (k - 1) + 1 = k
            BY <2>1
          <5> QED
            BY <2>10, <3>2, <5>1
        <4>2. {k \in DOMAIN pairs : pairs[k].key = t} = {}
          BY <2>1, <4>1
        <4> QED
          BY <3>2, <4>2 DEF Last
      <3>3. ASSUME NEW j \in 0 .. n - 1, parts[Turn(j)] = t, sel.tags[t] = Tagged(Turn(j)),
                   \A l \in j + 1 .. n - 1 : parts[Turn(l)] # t
            PROVE  sel.tags[t] = Last(pairs, t)
        <4>1. pairs[j + 1].key = t /\ sel.tags[t] = pairs[j + 1].value
          BY <2>10, <3>3
        <4>2. ASSUME NEW l \in j + 1 .. n - 1 PROVE pairs[l + 1].key # t
          <5>1. l \in 0 .. n - 1
            BY <2>1
          <5> QED
            BY <2>10, <3>3, <5>1
        <4>3. Last(pairs, t) = pairs[j + 1].value
          BY <2>1, <4>1, <4>2, LastPair
        <4> QED
          BY <4>1, <4>3
      <3> QED
        BY <3>1, <3>2, <3>3 DEF Got
    <2>17. sel.tags = [k \in TagKeys |-> Last(pairs, k)]
      <3>1. sel.tags \in [TagKeys -> Part]
        BY <2>3
      <3> QED
        BY <2>16, <3>1
    <2> QED
      BY <2>15, <2>17
  <1> QED
    BY <1>1, UsernamesInvariant, PTL
===============================================================================
